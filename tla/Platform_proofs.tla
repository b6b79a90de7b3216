--------------------------- MODULE Platform_proofs ---------------------------
(***************************************************************************)
(* What is proved of the platform's own business: of the set-up of an      *)
(* issuer at Billing (BillingSetup), of what the platform sells            *)
(* (Subscriptions) and of the way a boleta for it goes to SUNAT and back   *)
(* (PlatformReceipts).                                                     *)
(***************************************************************************)
EXTENDS PlatformReceipts, BillingSetup, FiniteSetTheorems, TLAPS

----------------------------------------
(* How an issuer is set up: the invariant.                                 *)

Camino == {"ids", "key", "keyMade", "series", "hook", "secret", "ready"}
HiloRows ==
  [task : {"none", "provision", "sol", "certificado", "quita", "activa", "directo", "billing", "sube", "borra"},
   step : Camino \cup {"idle", "noting", "taking", "jobs", "turning", "numbering", "posting", "noteNumber",
                       "naming", "cleaning", "clearing"},
   env : Ambientes, n : Nat, visto : SUBSET Nat]
HiloTyped ==
  /\ hilo \in [Solicitudes -> HiloRows]
  /\ \A t \in Solicitudes : hilo[t].step \in Camino <=> hilo[t].task = "provision"
  /\ \A t \in Solicitudes : hilo[t].step = "noting" => hilo[t].task \in Todo
SetupTypes ==
  /\ SetupTypeOK /\ HiloTyped
  /\ archivos \in [hechos : SUBSET Nat, hay : SUBSET Nat] /\ IsFiniteSet(archivos.hechos)
  /\ usados \in [directo : SUBSET Nat, billing : SUBSET Nat]
  /\ fallas \in Nat /\ ruc \in Nat

\* As long as the RUC has not changed, a walk has behind it what it wrote, and READY all of it.
OneTenant ==
  "ruc" \notin viejas =>
    /\ ruc = 1 /\ cfg.ids \in {0, 1} /\ \A env \in Ambientes : cfg.key[env] \in {0, 1}
    /\ \A t \in Solicitudes :
         /\ hilo[t].step \in Camino \ {"ids"} => cfg.ids = 1
         /\ hilo[t].step \in {"series", "hook", "secret", "ready"} => cfg.key[hilo[t].env] = 1
    /\ OfCompany /\ cfg.status = "READY" => cfg.ids = 1 /\ cfg.key[cfg.env] = 1
WalkedSoFar ==
  /\ \A t \in Solicitudes :
       /\ hilo[t].step \in {"hook", "secret", "ready"} => hilo[t].env \in cfg.series
       /\ hilo[t].step = "secret" => hilo[t].n # 0
       /\ hilo[t].step = "ready" => cfg.hook[hilo[t].env] # 0
  /\ OfCompany /\ cfg.status = "READY" => cfg.hook[cfg.env] # 0 /\ cfg.env \in cfg.series
\* While walks did not meet and none failed, a secret that is not kept yet is in the hands of the
\* only walk of its environment.
SecretInHand ==
  "juntos" \notin viejas /\ fallas = 0 =>
    /\ \A t, u \in Solicitudes :
         hilo[t].step \in Camino /\ hilo[u].step \in Camino /\ hilo[t].env = hilo[u].env => t = u
    /\ \A t \in Solicitudes : hilo[t].step = "secret" => hilo[t].n = enBilling.secreto[hilo[t].env]
    /\ \A env \in Ambientes :
         \/ cfg.hook[env] = enBilling.secreto[env]
         \/ \E t \in Solicitudes : hilo[t].step = "secret" /\ hilo[t].env = env
\* The numbers of both routes, by where the series stands here and at Billing.
SeriesFollow ==
  /\ \A d \in usados.directo : d \in Nat /\ d <= serie
  /\ \A b \in usados.billing : b <= serie \/ \E t \in Solicitudes : Esta(t, "noteNumber") /\ hilo[t].n = b
  /\ \A t \in Solicitudes : Esta(t, "posting") => "PRODUCTION" \in cfg.series
  /\ "ahead" \notin viejas =>
       IF "PRODUCTION" \in cfg.series
         THEN \A d \in usados.directo : d <= enBilling.numero["PRODUCTION"]
         ELSE \A t \in Solicitudes :
                hilo[t].step \in {"ids", "key", "keyMade", "series"} /\ hilo[t].env = "PRODUCTION"
                  => \A d \in usados.directo : d <= hilo[t].n

SetupInv == SetupTypes /\ OneTenant /\ WalkedSoFar /\ SecretInHand /\ SeriesFollow

Steps == Camino \cup {"idle", "noting", "taking", "jobs", "turning", "numbering", "posting",
                      "noteNumber", "naming", "cleaning", "clearing"}
Tasks == {"none", "provision", "sol", "certificado", "quita", "activa", "directo", "billing",
          "sube", "borra"}

\* A request that takes its next step: what it is then.
LEMMA Going ==
  ASSUME SetupTypes, NEW t \in Solicitudes, NEW step \in Steps, NEW n \in Nat, Goto(t, step, n),
         step \in Camino <=> hilo[t].step \in Camino, step # "noting"
  PROVE  /\ HiloTyped'
         /\ hilo'[t].step = step /\ hilo'[t].n = n /\ hilo'[t].env = hilo[t].env
         /\ \A u \in Solicitudes : u # t => hilo'[u] = hilo[u]
<1>1. /\ hilo \in [Solicitudes -> HiloRows]
      /\ \A u \in Solicitudes : hilo[u].step \in Camino <=> hilo[u].task = "provision"
      /\ \A u \in Solicitudes : hilo[u].step = "noting" => hilo[u].task \in Todo
  BY DEF SetupTypes, HiloTyped
<1>2. PICK r \in HiloRows : r = hilo[t] BY <1>1
<1>3. PICK v : v = [r EXCEPT !.step = step, !.n = n] OBVIOUS
<1>4. v \in HiloRows BY ZenonT(40), <1>2, <1>3 DEF HiloRows, Steps
<1>5. v.step = step /\ v.n = n /\ v.env = r.env /\ v.task = r.task BY <1>2, <1>3 DEF HiloRows
<1>6. hilo' = [hilo EXCEPT ![t] = v] BY <1>1, <1>2, <1>3 DEF Goto
<1>7. hilo'[t] = v /\ \A u \in Solicitudes : u # t => hilo'[u] = hilo[u] BY <1>6, <1>1
<1>8. hilo' \in [Solicitudes -> HiloRows] BY <1>6, <1>4, <1>1
<1>9. \A u \in Solicitudes :
        /\ hilo'[u].step \in Camino <=> hilo'[u].task = "provision"
        /\ hilo'[u].step = "noting" => hilo'[u].task \in Todo
  <2> TAKE u \in Solicitudes
  <2>1. CASE u = t BY <2>1, <1>7, <1>5, <1>2, <1>1
  <2>2. CASE u # t BY <2>2, <1>7, <1>1
  <2> QED BY <2>1, <2>2
<1> QED BY <1>5, <1>7, <1>8, <1>9, <1>2 DEF HiloTyped

\* A request that ends: what it is then.
LEMMA Returning ==
  ASSUME SetupTypes, NEW t \in Solicitudes, Return(t)
  PROVE  /\ HiloTyped'
         /\ hilo'[t].step = "idle"
         /\ \A u \in Solicitudes : u # t => hilo'[u] = hilo[u]
<1>1. /\ hilo \in [Solicitudes -> HiloRows]
      /\ \A u \in Solicitudes : hilo[u].step \in Camino <=> hilo[u].task = "provision"
      /\ \A u \in Solicitudes : hilo[u].step = "noting" => hilo[u].task \in Todo
  BY DEF SetupTypes, HiloTyped
<1>2. SinPeticion \in HiloRows /\ SinPeticion.step = "idle" /\ SinPeticion.task = "none"
  BY DEF SinPeticion, HiloRows, Camino, Ambientes
<1>3. hilo' = [hilo EXCEPT ![t] = SinPeticion] BY DEF Return
<1>4. hilo'[t] = SinPeticion /\ \A u \in Solicitudes : u # t => hilo'[u] = hilo[u] BY <1>3, <1>1
<1>5. hilo' \in [Solicitudes -> HiloRows] BY <1>2, <1>3, <1>1
<1>6. "idle" \notin Camino BY DEF Camino
<1> QED BY <1>1, <1>2, <1>4, <1>5, <1>6 DEF HiloTyped

\* A request that takes up a task: what it is then.
LEMMA Starting ==
  ASSUME SetupTypes, NEW t \in Solicitudes, NEW task \in Tasks, NEW step \in Steps,
         NEW env \in Ambientes, NEW n \in Nat, NEW visto \in SUBSET Nat,
         Starts(t, task, step, env, n, visto), step \in Camino <=> task = "provision", step = "noting" => task \in Todo
  PROVE  /\ HiloTyped'
         /\ hilo[t].step = "idle" /\ hilo'[t].step = step /\ hilo'[t].n = n /\ hilo'[t].env = env
         /\ \A u \in Solicitudes : u # t => hilo'[u] = hilo[u]
         /\ emisor' = emisor /\ fallas' = fallas
<1>1. /\ hilo \in [Solicitudes -> HiloRows]
      /\ \A u \in Solicitudes : hilo[u].step \in Camino <=> hilo[u].task = "provision"
      /\ \A u \in Solicitudes : hilo[u].step = "noting" => hilo[u].task \in Todo
  BY DEF SetupTypes, HiloTyped
<1>2. PICK v : v = [task |-> task, step |-> step, env |-> env, n |-> n, visto |-> visto] OBVIOUS
<1>3. v \in HiloRows BY <1>2 DEF HiloRows, Steps, Tasks
<1>4. v.step = step /\ v.n = n /\ v.env = env /\ v.task = task BY <1>2
<1>5. hilo' = [hilo EXCEPT ![t] = v] /\ hilo[t] = SinPeticion BY <1>2 DEF Starts
<1>6. hilo'[t] = v /\ \A u \in Solicitudes : u # t => hilo'[u] = hilo[u] BY <1>5, <1>1
<1>7. hilo' \in [Solicitudes -> HiloRows] BY <1>5, <1>3, <1>1
<1>8. hilo[t].step = "idle" /\ emisor' = emisor /\ fallas' = fallas BY <1>5 DEF SinPeticion, Starts
<1> QED BY <1>1, <1>4, <1>6, <1>7, <1>8 DEF HiloTyped

----------------------------------------
\* A step that touches no walk, or throws one away.
Quiet ==
  /\ \A u \in Solicitudes : hilo'[u].step \in Camino => hilo'[u] = hilo[u]
  /\ cfg'.ids = cfg.ids /\ cfg'.key = cfg.key /\ cfg'.hook = cfg.hook /\ cfg'.series = cfg.series
  /\ OfCompany /\ cfg'.status = "READY" => cfg.status = "READY" /\ cfg'.env = cfg.env
  /\ emisor' = emisor /\ enBilling'.secreto = enBilling.secreto
  /\ "ruc" \notin viejas' => "ruc" \notin viejas /\ ruc' = ruc
  /\ "juntos" \notin viejas' => "juntos" \notin viejas
  /\ fallas' = 0 => fallas = 0 /\ \A u \in Solicitudes : hilo[u].step = "secret" => hilo'[u] = hilo[u]

\* A step that writes none of the set-up, and moves requests alone, keeps the invariant.
LEMMA QuietKeeps ==
  ASSUME SetupInv, Quiet
  PROVE  OneTenant' /\ WalkedSoFar' /\ SecretInHand'
<1>1. Camino = {"ids", "key", "keyMade", "series", "hook", "secret", "ready"} BY DEF Camino
<1>2. OfCompany' <=> OfCompany BY DEF Quiet, OfCompany
<1>3. OneTenant' BY <1>1, <1>2, Zenon DEF SetupInv, OneTenant, Quiet
<1>4. WalkedSoFar' BY <1>1, <1>2 DEF SetupInv, WalkedSoFar, Quiet
<1>5. SecretInHand'
  <2> SUFFICES ASSUME "juntos" \notin viejas', fallas' = 0
               PROVE  /\ \A t, u \in Solicitudes :
                           hilo'[t].step \in Camino /\ hilo'[u].step \in Camino
                             /\ hilo'[t].env = hilo'[u].env => t = u
                      /\ \A t \in Solicitudes :
                           hilo'[t].step = "secret" => hilo'[t].n = enBilling'.secreto[hilo'[t].env]
                      /\ \A env \in Ambientes :
                           \/ cfg'.hook[env] = enBilling'.secreto[env]
                           \/ \E t \in Solicitudes : hilo'[t].step = "secret" /\ hilo'[t].env = env
    BY DEF SecretInHand
  <2>1. /\ \A t, u \in Solicitudes :
             hilo[t].step \in Camino /\ hilo[u].step \in Camino /\ hilo[t].env = hilo[u].env => t = u
        /\ \A t \in Solicitudes : hilo[t].step = "secret" => hilo[t].n = enBilling.secreto[hilo[t].env]
        /\ \A env \in Ambientes :
             \/ cfg.hook[env] = enBilling.secreto[env]
             \/ \E t \in Solicitudes : hilo[t].step = "secret" /\ hilo[t].env = env
    BY DEF SetupInv, SecretInHand, Quiet
  <2> QED BY <2>1, <1>1 DEF Quiet
<1> QED BY <1>3, <1>4, <1>5

\* A step that leaves the numbers alone.
SeriesStill ==
  /\ usados' = usados /\ serie' = serie /\ cfg'.series = cfg.series
  /\ enBilling'.numero = enBilling.numero
  /\ "ahead" \notin viejas' => "ahead" \notin viejas
  /\ \A u \in Solicitudes :
       /\ hilo'[u].step = "posting" => hilo[u].step = "posting"
       /\ hilo[u].step = "noteNumber" => hilo'[u] = hilo[u]
       /\ hilo'[u].step \in {"ids", "key", "keyMade", "series"}
            => /\ hilo[u].step \in {"ids", "key", "keyMade", "series"}
               /\ hilo'[u].env = hilo[u].env /\ hilo'[u].n = hilo[u].n

\* So does one that leaves the series and the secret as they are.
LEMMA StillKeeps ==
  ASSUME SetupInv, SeriesStill
  PROVE  SeriesFollow'
<1>1. \A d \in usados'.directo : d \in Nat /\ d <= serie' BY DEF SetupInv, SeriesFollow, SeriesStill
<1>2. \A b \in usados'.billing :
        b <= serie' \/ \E t \in Solicitudes : hilo'[t].step = "noteNumber" /\ hilo'[t].n = b
  BY DEF SetupInv, SeriesFollow, SeriesStill, Esta
<1>3. \A t \in Solicitudes : hilo'[t].step = "posting" => "PRODUCTION" \in cfg'.series
  BY DEF SetupInv, SeriesFollow, SeriesStill, Esta
<1>4. ASSUME "ahead" \notin viejas'
      PROVE  IF "PRODUCTION" \in cfg'.series
               THEN \A d \in usados'.directo : d <= enBilling'.numero["PRODUCTION"]
               ELSE \A t \in Solicitudes :
                      hilo'[t].step \in {"ids", "key", "keyMade", "series"}
                        /\ hilo'[t].env = "PRODUCTION" => \A d \in usados'.directo : d <= hilo'[t].n
  BY <1>4 DEF SetupInv, SeriesFollow, SeriesStill
<1> QED BY <1>1, <1>2, <1>3, <1>4 DEF SeriesFollow, Esta

----------------------------------------
\* The types after a step that leaves the records of Billing, of the files and of the numbers.
LEMMA Fields ==
  ASSUME SetupTypes
  PROVE  /\ cfg \in IntegracionRows /\ cfg.env \in Ambientes /\ cfg.ids \in Nat
         /\ cfg.key \in [Ambientes -> Nat] /\ cfg.hook \in [Ambientes -> Nat]
         /\ cfg.series \in SUBSET Ambientes /\ cfg.puestos \in [Ambientes -> SUBSET Todo]
         /\ enBilling \in EstablecimientoRows /\ enBilling.hechos \in Nat
         /\ enBilling.secreto \in [Ambientes -> Nat] /\ enBilling.numero \in [Ambientes -> Nat]
         /\ enBilling.puestos \in [Ambientes -> SUBSET Todo]
         /\ serie \in Nat /\ legado \in Nat /\ trabajos \in Nat /\ fallas \in Nat /\ ruc \in Nat
         /\ archivos \in [hechos : SUBSET Nat, hay : SUBSET Nat]
         /\ usados \in [directo : SUBSET Nat, billing : SUBSET Nat]
         /\ HiloTyped /\ hilo \in [Solicitudes -> HiloRows]
         /\ \A t \in Solicitudes : /\ hilo[t] \in HiloRows /\ hilo[t].env \in Ambientes
                                   /\ hilo[t].n \in Nat /\ hilo[t].visto \in SUBSET Nat
BY DEF SetupTypes, SetupTypeOK, HiloTyped, HiloRows, IntegracionRows, EstablecimientoRows,
       Correlativos, SunatConfigRows

\* An administrator stores the SOL credentials or the certificate.
LEMMA PutKeeps ==
  ASSUME SetupInv, NEW t \in Solicitudes, NEW que \in Todo, NEW env \in Ambientes,
         Put(t, que, env)
  PROVE  SetupTypes' /\ Quiet /\ SeriesStill
<1>0. SetupTypes BY DEF SetupInv
<1> USE Fields, <1>0
<1>1. /\ HiloTyped' /\ hilo[t].step = "idle" /\ hilo'[t].step = "noting"
      /\ \A u \in Solicitudes : u # t => hilo'[u] = hilo[u]
      /\ emisor' = emisor /\ fallas' = fallas
  <2>1. que \in Tasks /\ "noting" \in Steps /\ 0 \in Nat /\ {} \in SUBSET Nat
    BY DEF Tasks, Steps, Todo
  <2>2. Starts(t, que, "noting", env, 0, {}) BY DEF Put
  <2>3. "noting" \in Camino <=> que = "provision" BY DEF Camino, Todo
  <2> QED BY <2>1, <2>2, <2>3, Starting
<1>2. PICK w : w = [enBilling.puestos EXCEPT ![env] = @ \cup {que}] OBVIOUS
<1>3. w \in [Ambientes -> SUBSET Todo] BY <1>2
<1>4. PICK b : b = [enBilling EXCEPT !.puestos = w] OBVIOUS
<1>5. /\ b \in EstablecimientoRows
      /\ b.secreto = enBilling.secreto /\ b.numero = enBilling.numero
  BY <1>3, <1>4 DEF EstablecimientoRows
<1>6. enBilling' = b BY <1>2, <1>4 DEF Put
<1>7. /\ cfg' = cfg /\ ruc' = ruc /\ serie' = serie /\ usados' = usados /\ trabajos' = trabajos
      /\ legado' = legado /\ archivos' = archivos /\ viejas' = viejas
  BY DEF Put, direct, files
<1>8. SetupTypes' BY <1>1, <1>5, <1>6, <1>7 DEF SetupTypes, SetupTypeOK
<1>9. Quiet BY <1>1, <1>5, <1>6, <1>7 DEF Quiet, Camino
<1>10. SeriesStill BY <1>1, <1>5, <1>6, <1>7 DEF SeriesStill
<1> QED BY <1>8, <1>9, <1>10

\* An administrator removes them.
LEMMA TakeAwayKeeps ==
  ASSUME SetupInv, NEW t \in Solicitudes, NEW env \in Ambientes, TakeAway(t, env)
  PROVE  SetupTypes' /\ Quiet /\ SeriesStill
<1>0. SetupTypes BY DEF SetupInv
<1> USE Fields, <1>0
<1>1. /\ HiloTyped' /\ hilo[t].step = "idle" /\ hilo'[t].step = "taking"
      /\ \A u \in Solicitudes : u # t => hilo'[u] = hilo[u]
      /\ emisor' = emisor /\ fallas' = fallas
  <2>1. "quita" \in Tasks /\ "taking" \in Steps /\ 0 \in Nat /\ {} \in SUBSET Nat
    BY DEF Tasks, Steps
  <2>2. Starts(t, "quita", "taking", env, 0, {}) BY DEF TakeAway
  <2>3. "taking" \in Camino <=> "quita" = "provision" BY DEF Camino
  <2> QED BY <2>1, <2>2, <2>3, Starting
<1>2. PICK w : w = [enBilling.puestos EXCEPT ![env] = @ \ {"certificado"}] OBVIOUS
<1>3. w \in [Ambientes -> SUBSET Todo] BY <1>2
<1>4. PICK b : b = [enBilling EXCEPT !.puestos = w] OBVIOUS
<1>5. /\ b \in EstablecimientoRows
      /\ b.secreto = enBilling.secreto /\ b.numero = enBilling.numero
  BY <1>3, <1>4 DEF EstablecimientoRows
<1>6. enBilling' = b BY <1>2, <1>4 DEF TakeAway
<1>7. /\ cfg' = cfg /\ ruc' = ruc /\ serie' = serie /\ usados' = usados /\ trabajos' = trabajos
      /\ legado' = legado /\ archivos' = archivos /\ viejas' = viejas \cup {"quita"}
  BY DEF TakeAway, direct, files
<1>8. SetupTypes' BY <1>1, <1>5, <1>6, <1>7 DEF SetupTypes, SetupTypeOK
<1>9. Quiet BY <1>1, <1>5, <1>6, <1>7 DEF Quiet, Camino
<1>10. SeriesStill BY <1>1, <1>5, <1>6, <1>7 DEF SeriesStill
<1> QED BY <1>8, <1>9, <1>10

\* Billing's copy is noted after they were stored.
LEMMA NotePutKeeps ==
  ASSUME SetupInv, NEW t \in Solicitudes, NotePut(t)
  PROVE  SetupTypes' /\ Quiet /\ SeriesStill
<1>0. SetupTypes BY DEF SetupInv
<1> USE Fields, <1>0
<1>1. /\ HiloTyped' /\ hilo[t].step = "noting" /\ hilo'[t].step = "idle"
      /\ \A u \in Solicitudes : u # t => hilo'[u] = hilo[u]
  BY Returning DEF NotePut, Esta
<1>2. PICK w : w = [cfg.puestos EXCEPT ![hilo[t].env] = @ \cup {hilo[t].task}] OBVIOUS
<1>3. w \in [Ambientes -> SUBSET Todo] BY <1>2 DEF HiloTyped, NotePut, Esta
<1>4. PICK c : c = [cfg EXCEPT !.puestos = w] OBVIOUS
<1>5. /\ cfg' = c /\ c \in IntegracionRows /\ c.puestos = w
      /\ c.ids = cfg.ids /\ c.key = cfg.key /\ c.hook = cfg.hook /\ c.series = cfg.series /\ c.env = cfg.env /\ c.status = cfg.status
  <2>1. c \in IntegracionRows /\ c.puestos = w BY <1>3, <1>4 DEF IntegracionRows
  <2>2. c.ids = cfg.ids /\ c.key = cfg.key /\ c.hook = cfg.hook /\ c.series = cfg.series /\ c.env = cfg.env /\ c.status = cfg.status
    BY <1>4 DEF IntegracionRows
  <2>3. cfg' = c BY <1>2, <1>4 DEF NotePut
  <2> QED BY <2>1, <2>2, <2>3
<1>6. /\ ruc' = ruc /\ enBilling' = enBilling /\ serie' = serie /\ usados' = usados
      /\ trabajos' = trabajos /\ legado' = legado /\ archivos' = archivos /\ viejas' = viejas
      /\ emisor' = emisor /\ fallas' = fallas
  BY DEF NotePut, direct, files, bounds
<1>7. SetupTypes' BY <1>1, <1>5, <1>6 DEF SetupTypes, SetupTypeOK, SunatConfigRows, Correlativos
<1>8. Quiet BY <1>1, <1>5, <1>6 DEF Quiet, Camino, OfCompany, OfPlatform
<1>9. SeriesStill BY <1>1, <1>5, <1>6 DEF SeriesStill, Camino
<1> QED BY <1>7, <1>8, <1>9

\* And after they were removed.
LEMMA NoteTakenKeeps ==
  ASSUME SetupInv, NEW t \in Solicitudes, NoteTaken(t)
  PROVE  SetupTypes' /\ Quiet /\ SeriesStill
<1>0. SetupTypes BY DEF SetupInv
<1> USE Fields, <1>0
<1>1. /\ HiloTyped' /\ hilo[t].step = "taking" /\ hilo'[t].step = "idle"
      /\ \A u \in Solicitudes : u # t => hilo'[u] = hilo[u]
  BY Returning DEF NoteTaken, Esta
<1>2. PICK w : w = [cfg.puestos EXCEPT ![hilo[t].env] = @ \ {"certificado"}] OBVIOUS
<1>3. w \in [Ambientes -> SUBSET Todo] BY <1>2
<1>4. PICK c : c = [cfg EXCEPT !.puestos = w] OBVIOUS
<1>5. /\ cfg' = c /\ c \in IntegracionRows /\ c.puestos = w
      /\ c.ids = cfg.ids /\ c.key = cfg.key /\ c.hook = cfg.hook /\ c.series = cfg.series /\ c.env = cfg.env /\ c.status = cfg.status
  <2>1. c \in IntegracionRows /\ c.puestos = w BY <1>3, <1>4 DEF IntegracionRows
  <2>2. c.ids = cfg.ids /\ c.key = cfg.key /\ c.hook = cfg.hook /\ c.series = cfg.series /\ c.env = cfg.env /\ c.status = cfg.status
    BY <1>4 DEF IntegracionRows
  <2>3. cfg' = c BY <1>2, <1>4 DEF NoteTaken
  <2> QED BY <2>1, <2>2, <2>3
<1>6. /\ ruc' = ruc /\ enBilling' = enBilling /\ serie' = serie /\ usados' = usados
      /\ trabajos' = trabajos /\ legado' = legado /\ archivos' = archivos /\ viejas' = viejas
      /\ emisor' = emisor /\ fallas' = fallas
  BY DEF NoteTaken, direct, files, bounds
<1>7. SetupTypes' BY <1>1, <1>5, <1>6 DEF SetupTypes, SetupTypeOK, SunatConfigRows, Correlativos
<1>8. Quiet BY <1>1, <1>5, <1>6 DEF Quiet, Camino, OfCompany, OfPlatform
<1>9. SeriesStill BY <1>1, <1>5, <1>6 DEF SeriesStill, Camino
<1> QED BY <1>7, <1>8, <1>9

\* Electronic documents are turned on: the request reads first.
LEMMA EnableKeeps ==
  ASSUME SetupInv, NEW t \in Solicitudes, NEW env, NEW step \in {"jobs", "turning"}, EnableIf(t, env, step)
  PROVE  SetupTypes' /\ Quiet /\ SeriesStill
<1>0. SetupTypes BY DEF SetupInv
<1> USE Fields, <1>0
<1>1. /\ HiloTyped' /\ hilo[t].step = "idle" /\ hilo'[t].step = step
      /\ \A u \in Solicitudes : u # t => hilo'[u] = hilo[u]
      /\ emisor' = emisor /\ fallas' = fallas
  <2>0. PICK e \in Ambientes : e = cfg.env OBVIOUS
  <2>1. PICK k \in Tasks : k = "activa" BY DEF Tasks
  <2>2. step \in Steps BY DEF Steps
  <2>3. step \in Camino <=> k = "provision" BY <2>1 DEF Camino
  <2>4. step = "noting" => k \in Todo OBVIOUS
  <2>5. PICK v \in SUBSET Nat : v = {} OBVIOUS
  <2>6. Starts(t, k, step, e, 0, v) BY <2>0, <2>1, <2>5 DEF EnableIf
  <2> QED BY <2>2, <2>3, <2>4, <2>6, Starting
<1>2. cfg' = cfg /\ cfg \in IntegracionRows BY DEF EnableIf, direct, files, bounds
<1>3. /\ ruc' = ruc /\ enBilling' = enBilling /\ serie' = serie /\ usados' = usados
      /\ trabajos' = trabajos /\ legado' = legado /\ archivos' = archivos /\ viejas' = viejas
  BY DEF EnableIf, direct, files, bounds
<1>4. SetupTypes' BY <1>1, <1>2, <1>3 DEF SetupTypes, SetupTypeOK, SunatConfigRows, Correlativos
<1>5. Quiet BY <1>1, <1>2, <1>3 DEF Quiet, Camino, OfCompany, OfPlatform
<1>6. SeriesStill BY <1>1, <1>2, <1>3 DEF SeriesStill, Camino
<1> QED BY <1>4, <1>5, <1>6

\* The unfinished jobs are counted before the turn.
LEMMA CountJobsKeeps ==
  ASSUME SetupInv, NEW t \in Solicitudes, CountJobs(t)
  PROVE  SetupTypes' /\ Quiet /\ SeriesStill
<1>0. SetupTypes BY DEF SetupInv
<1> USE Fields, <1>0
<1>1. /\ HiloTyped' /\ hilo[t].step = "jobs" /\ hilo'[t].step \in {"turning", "idle"}
      /\ \A u \in Solicitudes : u # t => hilo'[u] = hilo[u]
  <2>1. hilo[t].step = "jobs" /\ (Goto(t, "turning", 0) \/ Return(t)) BY DEF CountJobs, Esta
  <2>2. /\ "turning" \in Steps /\ 0 \in Nat /\ "turning" # "noting"
        /\ ("turning" \in Camino <=> hilo[t].step \in Camino)
    BY <2>1 DEF Steps, Camino
  <2>3. CASE Goto(t, "turning", 0) BY <2>2, <2>3, <2>1, Going
  <2>4. CASE Return(t) BY <2>4, <2>1, Returning
  <2> QED BY <2>1, <2>3, <2>4
<1>2. cfg' = cfg /\ cfg \in IntegracionRows BY DEF CountJobs
<1>3. /\ ruc' = ruc /\ enBilling' = enBilling /\ serie' = serie /\ usados' = usados
      /\ trabajos' = trabajos /\ legado' = legado /\ archivos' = archivos /\ viejas' = viejas
      /\ emisor' = emisor /\ fallas' = fallas
  BY DEF CountJobs, direct, files, bounds
<1>4. SetupTypes' BY <1>1, <1>2, <1>3 DEF SetupTypes, SetupTypeOK
<1>5. Quiet BY <1>1, <1>2, <1>3 DEF Quiet, Camino, OfCompany
<1>6. SeriesStill BY <1>1, <1>2, <1>3 DEF SeriesStill
<1> QED BY <1>4, <1>5, <1>6

\* And then the route is turned, whatever came between.
LEMMA TurnOnKeeps ==
  ASSUME SetupInv, NEW t \in Solicitudes, TurnOn(t)
  PROVE  SetupTypes' /\ Quiet /\ SeriesStill
<1>0. SetupTypes BY DEF SetupInv
<1> USE Fields, <1>0
<1>1. /\ HiloTyped' /\ hilo[t].step = "turning" /\ hilo'[t].step = "idle"
      /\ \A u \in Solicitudes : u # t => hilo'[u] = hilo[u]
  BY Returning DEF TurnOn, Esta
<1>2. PICK w : w = TRUE OBVIOUS
<1>3. w \in BOOLEAN BY <1>2
<1>4. PICK c : c = [cfg EXCEPT !.enabled = w] OBVIOUS
<1>5. /\ cfg' = c /\ c \in IntegracionRows /\ c.enabled = w
      /\ c.ids = cfg.ids /\ c.key = cfg.key /\ c.hook = cfg.hook /\ c.series = cfg.series /\ c.env = cfg.env /\ c.status = cfg.status
  <2>1. c \in IntegracionRows /\ c.enabled = w BY <1>3, <1>4 DEF IntegracionRows
  <2>2. c.ids = cfg.ids /\ c.key = cfg.key /\ c.hook = cfg.hook /\ c.series = cfg.series /\ c.env = cfg.env /\ c.status = cfg.status
    BY <1>4 DEF IntegracionRows
  <2>3. cfg' = c BY <1>2, <1>4 DEF TurnOn
  <2> QED BY <2>1, <2>2, <2>3
<1>6. /\ ruc' = ruc /\ enBilling' = enBilling /\ serie' = serie /\ usados' = usados
      /\ trabajos' = trabajos /\ legado' = legado /\ archivos' = archivos /\ emisor' = emisor
      /\ fallas' = fallas /\ ("ruc" \notin viejas' => "ruc" \notin viejas) /\ ("juntos" \notin viejas' => "juntos" \notin viejas) /\ ("ahead" \notin viejas' => "ahead" \notin viejas)
  BY DEF TurnOn, direct, files, bounds
<1>7. SetupTypes' BY <1>1, <1>5, <1>6 DEF SetupTypes, SetupTypeOK, SunatConfigRows, Correlativos
<1>8. Quiet BY <1>1, <1>5, <1>6 DEF Quiet, Camino, OfCompany, OfPlatform
<1>9. SeriesStill BY <1>1, <1>5, <1>6 DEF SeriesStill, Camino
<1> QED BY <1>7, <1>8, <1>9

\* Electronic documents are turned off.
LEMMA DisableKeeps ==
  ASSUME SetupInv, NEW t \in Solicitudes, Disable(t)
  PROVE  SetupTypes' /\ Quiet /\ SeriesStill
<1>0. SetupTypes BY DEF SetupInv
<1> USE Fields, <1>0
<1>1. HiloTyped' /\ hilo' = hilo BY DEF HiloTyped, Disable
<1>2. PICK w : w = FALSE OBVIOUS
<1>3. w \in BOOLEAN BY <1>2
<1>4. PICK c : c = [cfg EXCEPT !.enabled = w] OBVIOUS
<1>5. /\ cfg' = c /\ c \in IntegracionRows /\ c.enabled = w
      /\ c.ids = cfg.ids /\ c.key = cfg.key /\ c.hook = cfg.hook /\ c.series = cfg.series /\ c.env = cfg.env /\ c.status = cfg.status
  <2>1. c \in IntegracionRows /\ c.enabled = w BY <1>3, <1>4 DEF IntegracionRows
  <2>2. c.ids = cfg.ids /\ c.key = cfg.key /\ c.hook = cfg.hook /\ c.series = cfg.series /\ c.env = cfg.env /\ c.status = cfg.status
    BY <1>4 DEF IntegracionRows
  <2>3. cfg' = c BY <1>2, <1>4 DEF Disable
  <2> QED BY <2>1, <2>2, <2>3
<1>6. /\ ruc' = ruc /\ enBilling' = enBilling /\ serie' = serie /\ usados' = usados
      /\ trabajos' = trabajos /\ legado' = legado /\ archivos' = archivos /\ viejas' = viejas
      /\ emisor' = emisor /\ fallas' = fallas
  BY DEF Disable, direct, files, bounds
<1>7. SetupTypes' BY <1>1, <1>5, <1>6 DEF SetupTypes, SetupTypeOK, SunatConfigRows, Correlativos
<1>8. Quiet BY <1>1, <1>5, <1>6 DEF Quiet, Camino, OfCompany, OfPlatform
<1>9. SeriesStill BY <1>1, <1>5, <1>6 DEF SeriesStill, Camino
<1> QED BY <1>7, <1>8, <1>9

\* A sale of the direct route takes a number.
LEMMA DirectSaleKeeps ==
  ASSUME SetupInv, NEW t \in Solicitudes, DirectSale(t)
  PROVE  SetupTypes' /\ Quiet /\ SeriesStill
<1>0. SetupTypes BY DEF SetupInv
<1> USE Fields, <1>0
<1>1. /\ HiloTyped' /\ hilo[t].step = "idle" /\ hilo'[t].step = "numbering"
      /\ \A u \in Solicitudes : u # t => hilo'[u] = hilo[u]
      /\ emisor' = emisor /\ fallas' = fallas
  <2>1. /\ "directo" \in Tasks /\ "numbering" \in Steps /\ 0 \in Nat /\ {} \in SUBSET Nat /\ "BETA" \in Ambientes
        /\ ("numbering" \in Camino <=> "directo" = "provision") /\ ("numbering" = "noting" => "directo" \in Todo)
    BY DEF Tasks, Steps, Camino, Ambientes
  <2>2. Starts(t, "directo", "numbering", "BETA", 0, {}) BY DEF DirectSale
  <2> QED BY <2>1, <2>2, Starting
<1>2. cfg' = cfg /\ cfg \in IntegracionRows BY DEF DirectSale, direct, files, bounds
<1>3. /\ ruc' = ruc /\ enBilling' = enBilling /\ serie' = serie /\ usados' = usados
      /\ trabajos' = trabajos /\ legado' = legado /\ archivos' = archivos /\ viejas' = viejas
  BY DEF DirectSale, direct, files, bounds
<1>4. SetupTypes' BY <1>1, <1>2, <1>3 DEF SetupTypes, SetupTypeOK, SunatConfigRows, Correlativos
<1>5. Quiet BY <1>1, <1>2, <1>3 DEF Quiet, Camino, OfCompany, OfPlatform
<1>6. SeriesStill BY <1>1, <1>2, <1>3 DEF SeriesStill, Camino
<1> QED BY <1>4, <1>5, <1>6

\* A file goes to the storage.
LEMMA UploadFileKeeps ==
  ASSUME SetupInv, NEW t \in Solicitudes, UploadFile(t)
  PROVE  SetupTypes' /\ Quiet /\ SeriesStill
<1>0. SetupTypes BY DEF SetupInv
<1> USE Fields, <1>0
<1>1. /\ HiloTyped' /\ hilo[t].step = "idle" /\ hilo'[t].step = "naming"
      /\ \A u \in Solicitudes : u # t => hilo'[u] = hilo[u]
      /\ emisor' = emisor /\ fallas' = fallas
  <2>1. /\ "sube" \in Tasks /\ "naming" \in Steps /\ NewFile \in Nat /\ {legado} \in SUBSET Nat /\ "BETA" \in Ambientes
        /\ ("naming" \in Camino <=> "sube" = "provision") /\ ("naming" = "noting" => "sube" \in Todo)
    BY FS_CardinalityType DEF NewFile, SetupTypes, Tasks, Steps, Camino, Ambientes
  <2>2. Starts(t, "sube", "naming", "BETA", NewFile, {legado}) BY DEF UploadFile
  <2> QED BY <2>1, <2>2, Starting
<1>2. cfg' = cfg /\ cfg \in IntegracionRows BY DEF UploadFile, direct, files, bounds
<1>3. /\ ruc' = ruc /\ enBilling' = enBilling /\ serie' = serie /\ usados' = usados
      /\ trabajos' = trabajos /\ legado' = legado /\ viejas' = viejas /\ archivos' \in [hechos : SUBSET Nat, hay : SUBSET Nat]
      /\ IsFiniteSet(archivos'.hechos)
  <2>1. NewFile \in Nat /\ IsFiniteSet(archivos.hechos \cup {NewFile})
    <3>1. IsFiniteSet(archivos.hechos) BY DEF SetupTypes
    <3>2. Cardinality(archivos.hechos) \in Nat BY <3>1, FS_CardinalityType
    <3>3. IsFiniteSet(archivos.hechos \cup {NewFile}) BY <3>1, FS_AddElement
    <3> QED BY <3>2, <3>3 DEF NewFile
  <2> QED BY <2>1 DEF UploadFile, direct, files, bounds
<1>4. SetupTypes' BY <1>1, <1>2, <1>3 DEF SetupTypes, SetupTypeOK, SunatConfigRows, Correlativos
<1>5. Quiet BY <1>1, <1>2, <1>3 DEF Quiet, Camino, OfCompany, OfPlatform
<1>6. SeriesStill BY <1>1, <1>2, <1>3 DEF SeriesStill, Camino
<1> QED BY <1>4, <1>5, <1>6

\* Then the row names it.
LEMMA NameFileKeeps ==
  ASSUME SetupInv, NEW t \in Solicitudes, NameFile(t)
  PROVE  SetupTypes' /\ Quiet /\ SeriesStill
<1>0. SetupTypes BY DEF SetupInv
<1> USE Fields, <1>0
<1>1. /\ HiloTyped' /\ hilo[t].step = "naming" /\ hilo'[t].step = "cleaning" /\ hilo'[t].n = hilo[t].n
      /\ hilo'[t].env = hilo[t].env /\ \A u \in Solicitudes : u # t => hilo'[u] = hilo[u]
  <2>1. /\ hilo[t].step = "naming" /\ "cleaning" \in Steps /\ hilo[t].n \in Nat
        /\ ("cleaning" \in Camino <=> hilo[t].step \in Camino) /\ "cleaning" # "noting"
    BY DEF Steps, Camino, Esta, NameFile
  <2>2. Goto(t, "cleaning", hilo[t].n) BY DEF NameFile
  <2> QED BY <2>1, <2>2, Going
<1>2. cfg' = cfg /\ cfg \in IntegracionRows BY DEF NameFile, direct, files, bounds
<1>3. /\ ruc' = ruc /\ enBilling' = enBilling /\ serie' = serie /\ usados' = usados
      /\ trabajos' = trabajos /\ archivos' = archivos /\ viejas' = viejas /\ emisor' = emisor
      /\ fallas' = fallas /\ legado' \in Nat
  BY DEF NameFile, direct, files, bounds
<1>4. SetupTypes' BY <1>1, <1>2, <1>3 DEF SetupTypes, SetupTypeOK, SunatConfigRows, Correlativos
<1>5. Quiet BY <1>1, <1>2, <1>3 DEF Quiet, Camino, OfCompany, OfPlatform
<1>6. SeriesStill BY <1>1, <1>2, <1>3 DEF SeriesStill, Camino
<1> QED BY <1>4, <1>5, <1>6

\* Or the row cannot be written.
LEMMA NameFailedKeeps ==
  ASSUME SetupInv, NEW t \in Solicitudes, NameFailed(t)
  PROVE  SetupTypes' /\ Quiet /\ SeriesStill
<1>0. SetupTypes BY DEF SetupInv
<1> USE Fields, <1>0
<1>1. /\ HiloTyped' /\ hilo[t].step \in {"naming", "cleaning"} /\ hilo'[t].step = "idle"
      /\ \A u \in Solicitudes : u # t => hilo'[u] = hilo[u]
  BY Returning DEF NameFailed, Esta
<1>2. cfg' = cfg /\ cfg \in IntegracionRows BY DEF NameFailed, direct, files, bounds
<1>3. /\ ruc' = ruc /\ enBilling' = enBilling /\ serie' = serie /\ usados' = usados
      /\ trabajos' = trabajos /\ legado' = legado /\ viejas' = viejas /\ emisor' = emisor
      /\ fallas' = fallas + 1 /\ archivos' \in [hechos : SUBSET Nat, hay : SUBSET Nat] /\ archivos'.hechos = archivos.hechos
  BY DEF NameFailed, direct, files, bounds
<1>4. SetupTypes' BY <1>1, <1>2, <1>3 DEF SetupTypes, SetupTypeOK, SunatConfigRows, Correlativos
<1>5. Quiet BY <1>1, <1>2, <1>3 DEF Quiet, Camino, OfCompany, OfPlatform
<1>6. SeriesStill BY <1>1, <1>2, <1>3 DEF SeriesStill, Camino
<1> QED BY <1>4, <1>5, <1>6

\* And the file is cleaned up.
LEMMA CleanFileKeeps ==
  ASSUME SetupInv, NEW t \in Solicitudes, CleanFile(t)
  PROVE  SetupTypes' /\ Quiet /\ SeriesStill
<1>0. SetupTypes BY DEF SetupInv
<1> USE Fields, <1>0
<1>1. /\ HiloTyped' /\ hilo[t].step = "cleaning" /\ hilo'[t].step = "idle"
      /\ \A u \in Solicitudes : u # t => hilo'[u] = hilo[u]
  BY Returning DEF CleanFile, Esta
<1>2. cfg' = cfg /\ cfg \in IntegracionRows BY DEF CleanFile, direct, files, bounds
<1>3. /\ ruc' = ruc /\ enBilling' = enBilling /\ serie' = serie /\ usados' = usados
      /\ trabajos' = trabajos /\ legado' = legado /\ viejas' = viejas /\ emisor' = emisor
      /\ fallas' = fallas /\ archivos' \in [hechos : SUBSET Nat, hay : SUBSET Nat] /\ archivos'.hechos = archivos.hechos
  BY DEF CleanFile, direct, files, bounds
<1>4. SetupTypes' BY <1>1, <1>2, <1>3 DEF SetupTypes, SetupTypeOK, SunatConfigRows, Correlativos
<1>5. Quiet BY <1>1, <1>2, <1>3 DEF Quiet, Camino, OfCompany, OfPlatform
<1>6. SeriesStill BY <1>1, <1>2, <1>3 DEF SeriesStill, Camino
<1> QED BY <1>4, <1>5, <1>6

\* A file is deleted from the storage.
LEMMA DeleteFileKeeps ==
  ASSUME SetupInv, NEW t \in Solicitudes, DeleteFile(t)
  PROVE  SetupTypes' /\ Quiet /\ SeriesStill
<1>0. SetupTypes BY DEF SetupInv
<1> USE Fields, <1>0
<1>1. /\ HiloTyped' /\ hilo[t].step = "idle" /\ hilo'[t].step = "clearing"
      /\ \A u \in Solicitudes : u # t => hilo'[u] = hilo[u]
      /\ emisor' = emisor /\ fallas' = fallas
  <2>1. /\ "borra" \in Tasks /\ "clearing" \in Steps /\ 0 \in Nat /\ {legado} \in SUBSET Nat /\ "BETA" \in Ambientes
        /\ ("clearing" \in Camino <=> "borra" = "provision") /\ ("clearing" = "noting" => "borra" \in Todo)
    BY DEF Tasks, Steps, Camino, Ambientes
  <2>2. Starts(t, "borra", "clearing", "BETA", 0, {legado}) BY DEF DeleteFile
  <2> QED BY <2>1, <2>2, Starting
<1>2. cfg' = cfg /\ cfg \in IntegracionRows BY DEF DeleteFile, direct, files, bounds
<1>3. /\ ruc' = ruc /\ enBilling' = enBilling /\ serie' = serie /\ usados' = usados
      /\ trabajos' = trabajos /\ legado' = legado /\ viejas' = viejas /\ archivos' \in [hechos : SUBSET Nat, hay : SUBSET Nat] /\ archivos'.hechos = archivos.hechos
  BY DEF DeleteFile, direct, files, bounds
<1>4. SetupTypes' BY <1>1, <1>2, <1>3 DEF SetupTypes, SetupTypeOK, SunatConfigRows, Correlativos
<1>5. Quiet BY <1>1, <1>2, <1>3 DEF Quiet, Camino, OfCompany, OfPlatform
<1>6. SeriesStill BY <1>1, <1>2, <1>3 DEF SeriesStill, Camino
<1> QED BY <1>4, <1>5, <1>6

\* Then the row forgets it.
LEMMA ClearNameKeeps ==
  ASSUME SetupInv, NEW t \in Solicitudes, ClearName(t)
  PROVE  SetupTypes' /\ Quiet /\ SeriesStill
<1>0. SetupTypes BY DEF SetupInv
<1> USE Fields, <1>0
<1>1. /\ HiloTyped' /\ hilo[t].step = "clearing" /\ hilo'[t].step = "idle"
      /\ \A u \in Solicitudes : u # t => hilo'[u] = hilo[u]
  BY Returning DEF ClearName, Esta
<1>2. cfg' = cfg /\ cfg \in IntegracionRows BY DEF ClearName, direct, files, bounds
<1>3. /\ ruc' = ruc /\ enBilling' = enBilling /\ serie' = serie /\ usados' = usados
      /\ trabajos' = trabajos /\ archivos' = archivos /\ viejas' = viejas /\ emisor' = emisor
      /\ fallas' = fallas /\ legado' = 0
  BY DEF ClearName, direct, files, bounds
<1>4. SetupTypes' BY <1>1, <1>2, <1>3 DEF SetupTypes, SetupTypeOK, SunatConfigRows, Correlativos
<1>5. Quiet BY <1>1, <1>2, <1>3 DEF Quiet, Camino, OfCompany, OfPlatform
<1>6. SeriesStill BY <1>1, <1>2, <1>3 DEF SeriesStill, Camino
<1> QED BY <1>4, <1>5, <1>6

\* A job of the direct route ends.
LEMMA JobDoneKeeps ==
  ASSUME SetupInv, JobDone
  PROVE  SetupTypes' /\ Quiet /\ SeriesStill
<1>14. SetupTypes BY DEF SetupInv
<1> USE Fields, <1>14
<1>15. /\ hilo' = hilo /\ cfg' = cfg /\ ruc' = ruc /\ enBilling' = enBilling /\ serie' = serie
      /\ usados' = usados /\ trabajos' \in Nat /\ legado' = legado /\ archivos' = archivos
      /\ viejas' = viejas /\ emisor' = emisor /\ fallas' = fallas
  BY DEF JobDone, files, bounds
<1>16. SetupTypes' BY <1>15 DEF SetupTypes, SetupTypeOK, HiloTyped
<1> QED BY <1>15, <1>16 DEF Quiet, SeriesStill, OfCompany

\* The issuer changes its RUC.
LEMMA ChangeRucKeeps ==
  ASSUME SetupInv, ChangeRuc
  PROVE  SetupTypes' /\ Quiet /\ SeriesStill
<1>14. SetupTypes BY DEF SetupInv
<1> USE Fields, <1>14
<1>15. /\ hilo' = hilo /\ cfg' = cfg /\ ruc' = 2 /\ enBilling' = enBilling /\ serie' = serie
      /\ usados' = usados /\ trabajos' = trabajos /\ legado' = legado /\ archivos' = archivos
      /\ viejas' = viejas \cup {"ruc"} /\ emisor' = emisor /\ fallas' = fallas
  BY DEF ChangeRuc, files, direct
<1>16. SetupTypes' BY <1>15 DEF SetupTypes, SetupTypeOK, HiloTyped
<1> QED BY <1>15, <1>16 DEF Quiet, SeriesStill, OfCompany

\* The configuration of the issuer is saved.
LEMMA UpdateIssuerConfigKeeps ==
  ASSUME SetupInv, UpdateIssuerConfig
  PROVE  SetupTypes' /\ Quiet /\ SeriesStill
<1>14. SetupTypes BY DEF SetupInv
<1> USE Fields, <1>14
<1>15. /\ hilo' = hilo /\ ruc' = ruc /\ enBilling' = enBilling /\ serie' = serie
      /\ usados' = usados /\ trabajos' = trabajos /\ legado' = legado /\ archivos' = archivos
      /\ viejas' = viejas /\ emisor' = emisor /\ fallas' = fallas /\ OfPlatform
  BY DEF UpdateIssuerConfig, files, direct
<1>16. PICK env \in Ambientes : cfg' = [cfg EXCEPT !.env = env] BY DEF UpdateIssuerConfig
<1>17. PICK c : c = [cfg EXCEPT !.env = env] OBVIOUS
<1>18. c \in IntegracionRows BY <1>17 DEF IntegracionRows
<1>19. c.ids = cfg.ids /\ c.key = cfg.key /\ c.hook = cfg.hook /\ c.series = cfg.series
  BY <1>17 DEF IntegracionRows
<1>20. SetupTypes' BY <1>15, <1>16, <1>17, <1>18 DEF SetupTypes, SetupTypeOK, HiloTyped
<1>21. ~OfCompany BY <1>15 DEF OfCompany, OfPlatform
<1> QED BY <1>15, <1>16, <1>17, <1>19, <1>20, <1>21 DEF Quiet, SeriesStill

\* A step of the walk fails.
LEMMA WalkFailsKeeps ==
  ASSUME SetupInv, NEW t \in Solicitudes, WalkFails(t)
  PROVE  SetupTypes' /\ Quiet /\ SeriesStill
<1>14. SetupTypes BY DEF SetupInv
<1> USE Fields, <1>14
<1>15. /\ HiloTyped' /\ hilo[t].step \in Camino /\ hilo'[t].step = "idle"
      /\ \A u \in Solicitudes : u # t => hilo'[u] = hilo[u]
  BY Returning DEF WalkFails, HiloTyped
<1>16. /\ ruc' = ruc /\ enBilling' = enBilling /\ serie' = serie /\ usados' = usados
      /\ trabajos' = trabajos /\ legado' = legado /\ archivos' = archivos /\ viejas' = viejas
      /\ emisor' = emisor /\ fallas' = fallas + 1
  BY DEF WalkFails, direct, files
<1>17. PICK c : c = [cfg EXCEPT !.status = "ERROR"] OBVIOUS
<1>18. c \in IntegracionRows /\ c.status = "ERROR" BY <1>17 DEF IntegracionRows
<1>19. c.ids = cfg.ids /\ c.key = cfg.key /\ c.hook = cfg.hook /\ c.series = cfg.series
  BY <1>17 DEF IntegracionRows
<1>20. cfg' = c BY <1>17 DEF WalkFails
<1>21. SetupTypes' BY <1>15, <1>16, <1>18, <1>20 DEF SetupTypes, SetupTypeOK
<1>22. fallas' # 0 BY <1>16
<1>23. Quiet BY <1>15, <1>16, <1>18, <1>19, <1>20, <1>22 DEF Quiet, Camino
<1>24. SeriesStill BY <1>15, <1>16, <1>19, <1>20 DEF SeriesStill, Camino
<1> QED BY <1>21, <1>23, <1>24

----------------------------------------
\* A step of a walk other than the making and the keeping of its secret.
SecretStill ==
  /\ \A u \in Solicitudes :
       /\ hilo'[u].step \in Camino => hilo[u].step \in Camino /\ hilo'[u].env = hilo[u].env
       /\ hilo'[u].step = "secret" \/ hilo[u].step = "secret" => hilo'[u] = hilo[u]
  /\ cfg'.hook = cfg.hook /\ enBilling'.secreto = enBilling.secreto
  /\ fallas' = fallas
  /\ "juntos" \notin viejas' => "juntos" \notin viejas

\* A secret that a request holds is the one stored, whatever the others do.
LEMMA SecretStays ==
  ASSUME SetupInv, SecretStill
  PROVE  SecretInHand'
<1> SUFFICES ASSUME "juntos" \notin viejas', fallas' = 0
             PROVE  /\ \A t, u \in Solicitudes :
                         hilo'[t].step \in Camino /\ hilo'[u].step \in Camino
                           /\ hilo'[t].env = hilo'[u].env => t = u
                    /\ \A t \in Solicitudes :
                         hilo'[t].step = "secret" => hilo'[t].n = enBilling'.secreto[hilo'[t].env]
                    /\ \A env \in Ambientes :
                         \/ cfg'.hook[env] = enBilling'.secreto[env]
                         \/ \E t \in Solicitudes : hilo'[t].step = "secret" /\ hilo'[t].env = env
  BY DEF SecretInHand
<1>0. /\ \A t, u \in Solicitudes :
           hilo[t].step \in Camino /\ hilo[u].step \in Camino /\ hilo[t].env = hilo[u].env => t = u
      /\ \A t \in Solicitudes : hilo[t].step = "secret" => hilo[t].n = enBilling.secreto[hilo[t].env]
      /\ \A env \in Ambientes :
           \/ cfg.hook[env] = enBilling.secreto[env]
           \/ \E t \in Solicitudes : hilo[t].step = "secret" /\ hilo[t].env = env
  BY DEF SetupInv, SecretInHand, SecretStill
<1> QED BY <1>0 DEF SecretStill

\* The walk stores the identifiers of the issuer at Billing.
LEMMA SaveIdsKeeps ==
  ASSUME SetupInv, NEW t \in Solicitudes, SaveIds(t)
  PROVE  SetupInv'
<1>0. SetupTypes BY DEF SetupInv
<1> USE Fields, <1>0
<1>1. /\ HiloTyped' /\ hilo[t].step = "ids" /\ hilo'[t].step = "key" /\ hilo'[t].n = hilo[t].n
      /\ hilo'[t].env = hilo[t].env /\ \A u \in Solicitudes : u # t => hilo'[u] = hilo[u]
  <2>1. /\ hilo[t].step = "ids" /\ "key" \in Steps /\ hilo[t].n \in Nat
        /\ ("key" \in Camino <=> hilo[t].step \in Camino) /\ "key" # "noting"
    BY DEF Steps, Camino, Esta, SaveIds
  <2>2. Goto(t, "key", hilo[t].n) BY DEF SaveIds
  <2> QED BY <2>1, <2>2, Going
<1>2. PICK w : w = ruc OBVIOUS
<1>3. w \in Nat BY <1>2
<1>4. PICK c : c = [cfg EXCEPT !.ids = w] OBVIOUS
<1>5. /\ cfg' = c /\ c \in IntegracionRows /\ c.ids = w
      /\ c.key = cfg.key /\ c.hook = cfg.hook /\ c.series = cfg.series /\ c.env = cfg.env /\ c.status = cfg.status
  <2>1. c \in IntegracionRows /\ c.ids = w BY <1>3, <1>4 DEF IntegracionRows
  <2>2. c.key = cfg.key /\ c.hook = cfg.hook /\ c.series = cfg.series /\ c.env = cfg.env /\ c.status = cfg.status
    BY <1>4 DEF IntegracionRows
  <2>3. cfg' = c BY <1>2, <1>4 DEF SaveIds, Tenant
  <2> QED BY <2>1, <2>2, <2>3
<1>6. /\ ruc' = ruc /\ enBilling' = enBilling /\ serie' = serie /\ usados' = usados
      /\ trabajos' = trabajos /\ legado' = legado /\ archivos' = archivos /\ viejas' = viejas
      /\ emisor' = emisor /\ fallas' = fallas
  BY DEF SaveIds, direct, files, bounds
<1>7. SetupTypes' BY <1>1, <1>5, <1>6 DEF SetupTypes, SetupTypeOK, SunatConfigRows, Correlativos
<1>8. OneTenant' BY <1>1, <1>5, <1>6, <1>2 DEF SetupInv, OneTenant, Camino, OfCompany
<1>9. WalkedSoFar' BY <1>1, <1>5, <1>6 DEF SetupInv, WalkedSoFar, Camino, OfCompany
<1>10. SecretStill BY <1>1, <1>5, <1>6 DEF SecretStill, Camino
<1>11. SeriesStill BY <1>1, <1>5, <1>6 DEF SeriesStill, Camino
<1> QED BY <1>7, <1>8, <1>9, <1>10, <1>11, SecretStays, StillKeeps DEF SetupInv

\* The walk makes sure there is an API key.
LEMMA EnsureApiKeyKeeps ==
  ASSUME SetupInv, NEW t \in Solicitudes, NEW step \in {"series", "keyMade"}, EnsureApiKey(t), step = IF cfg.key[hilo[t].env] # 0 THEN "series" ELSE "keyMade"
  PROVE  SetupInv'
<1>0. SetupTypes BY DEF SetupInv
<1> USE Fields, <1>0
<1>1. /\ HiloTyped' /\ hilo[t].step = "key" /\ hilo'[t].step = step /\ hilo'[t].n = hilo[t].n
      /\ hilo'[t].env = hilo[t].env /\ \A u \in Solicitudes : u # t => hilo'[u] = hilo[u]
  <2>1. /\ hilo[t].step = "key" /\ step \in Steps /\ hilo[t].n \in Nat
        /\ (step \in Camino <=> hilo[t].step \in Camino) /\ step # "noting"
    BY DEF Steps, Camino, Esta, EnsureApiKey, ApiKey
  <2>2. Goto(t, step, hilo[t].n) BY DEF EnsureApiKey, ApiKey
  <2> QED BY <2>1, <2>2, Going
<1>2. cfg' = cfg /\ cfg \in IntegracionRows BY DEF EnsureApiKey, direct, files, bounds
<1>3. /\ ruc' = ruc /\ enBilling' = enBilling /\ serie' = serie /\ usados' = usados
      /\ trabajos' = trabajos /\ legado' = legado /\ archivos' = archivos /\ viejas' = viejas
      /\ emisor' = emisor /\ fallas' = fallas
  BY DEF EnsureApiKey, ApiKey, direct, files, bounds
<1>4. SetupTypes' BY <1>1, <1>2, <1>3 DEF SetupTypes, SetupTypeOK, SunatConfigRows, Correlativos
<1>5. OneTenant' BY <1>1, <1>2, <1>3 DEF SetupInv, OneTenant, Camino, OfCompany
<1>6. WalkedSoFar' BY <1>1, <1>2, <1>3 DEF SetupInv, WalkedSoFar, Camino, OfCompany
<1>7. SecretStill BY <1>1, <1>2, <1>3 DEF SecretStill, Camino
<1>8. SeriesStill BY <1>1, <1>2, <1>3 DEF SeriesStill, Camino
<1> QED BY <1>4, <1>5, <1>6, <1>7, <1>8, SecretStays, StillKeeps DEF SetupInv

\* And stores it.
LEMMA SaveApiKeyKeeps ==
  ASSUME SetupInv, NEW t \in Solicitudes, SaveApiKey(t)
  PROVE  SetupInv'
<1>0. SetupTypes BY DEF SetupInv
<1> USE Fields, <1>0
<1>1. /\ HiloTyped' /\ hilo[t].step = "keyMade" /\ hilo'[t].step = "series" /\ hilo'[t].n = hilo[t].n
      /\ hilo'[t].env = hilo[t].env /\ \A u \in Solicitudes : u # t => hilo'[u] = hilo[u]
  <2>1. /\ hilo[t].step = "keyMade" /\ "series" \in Steps /\ hilo[t].n \in Nat
        /\ ("series" \in Camino <=> hilo[t].step \in Camino) /\ "series" # "noting"
    BY DEF Steps, Camino, Esta, SaveApiKey
  <2>2. Goto(t, "series", hilo[t].n) BY DEF SaveApiKey
  <2> QED BY <2>1, <2>2, Going
<1>2. PICK w : w = [cfg.key EXCEPT ![hilo[t].env] = cfg.ids] OBVIOUS
<1>3. w \in [Ambientes -> Nat] BY <1>2
<1>4. PICK c : c = [cfg EXCEPT !.key = w] OBVIOUS
<1>5. /\ cfg' = c /\ c \in IntegracionRows /\ c.key = w
      /\ c.ids = cfg.ids /\ c.hook = cfg.hook /\ c.series = cfg.series /\ c.env = cfg.env /\ c.status = cfg.status
  <2>1. c \in IntegracionRows /\ c.key = w BY <1>3, <1>4 DEF IntegracionRows
  <2>2. c.ids = cfg.ids /\ c.hook = cfg.hook /\ c.series = cfg.series /\ c.env = cfg.env /\ c.status = cfg.status
    BY <1>4 DEF IntegracionRows
  <2>3. cfg' = c BY <1>2, <1>4 DEF SaveApiKey
  <2> QED BY <2>1, <2>2, <2>3
<1>6. /\ ruc' = ruc /\ enBilling' = enBilling /\ serie' = serie /\ usados' = usados
      /\ trabajos' = trabajos /\ legado' = legado /\ archivos' = archivos /\ viejas' = viejas
      /\ emisor' = emisor /\ fallas' = fallas
  BY DEF SaveApiKey, direct, files, bounds
<1>7. SetupTypes' BY <1>1, <1>5, <1>6 DEF SetupTypes, SetupTypeOK, SunatConfigRows, Correlativos
<1>8. OneTenant' BY <1>1, <1>5, <1>6, <1>2 DEF SetupInv, OneTenant, Camino, OfCompany
<1>9. WalkedSoFar' BY <1>1, <1>5, <1>6 DEF SetupInv, WalkedSoFar, Camino, OfCompany
<1>10. SecretStill BY <1>1, <1>5, <1>6 DEF SecretStill, Camino
<1>11. SeriesStill BY <1>1, <1>5, <1>6 DEF SeriesStill, Camino
<1> QED BY <1>7, <1>8, <1>9, <1>10, <1>11, SecretStays, StillKeeps DEF SetupInv

\* The walk makes sure there is a webhook.
LEMMA EnsureWebhookKeeps ==
  ASSUME SetupInv, NEW t \in Solicitudes, EnsureWebhook(t)
  PROVE  SetupInv'
<1>0. SetupTypes BY DEF SetupInv
<1> USE Fields, <1>0
<1>1. /\ HiloTyped' /\ hilo[t].step = "hook" /\ hilo'[t].step = "secret" /\ hilo'[t].n = enBilling.hechos + 1
      /\ hilo'[t].env = hilo[t].env /\ \A u \in Solicitudes : u # t => hilo'[u] = hilo[u]
  <2>1. /\ hilo[t].step = "hook" /\ "secret" \in Steps /\ enBilling.hechos + 1 \in Nat
        /\ ("secret" \in Camino <=> hilo[t].step \in Camino) /\ "secret" # "noting"
    BY DEF Steps, Camino, Esta, EnsureWebhook
  <2>2. Goto(t, "secret", enBilling.hechos + 1) BY DEF EnsureWebhook
  <2> QED BY <2>1, <2>2, Going
<1>2. cfg' = cfg /\ cfg \in IntegracionRows BY DEF EnsureWebhook, direct, files, bounds
<1>3. PICK w : w = [enBilling.secreto EXCEPT ![hilo[t].env] = enBilling.hechos + 1] OBVIOUS
<1>4. w \in [Ambientes -> Nat] BY <1>3
<1>5. PICK b : b = [enBilling EXCEPT !.hechos = enBilling.hechos + 1, !.secreto = w] OBVIOUS
<1>6. b \in EstablecimientoRows /\ b.numero = enBilling.numero /\ b.secreto = w
  <2>1. enBilling.hechos + 1 \in Nat OBVIOUS
  <2>2. b \in EstablecimientoRows BY <2>1, <1>4, <1>5 DEF EstablecimientoRows
  <2>3. b.numero = enBilling.numero /\ b.secreto = w BY <1>5 DEF EstablecimientoRows
  <2> QED BY <2>2, <2>3
<1>7. enBilling' = b BY <1>3, <1>5 DEF EnsureWebhook
<1>8. /\ ruc' = ruc /\ serie' = serie /\ usados' = usados /\ trabajos' = trabajos
      /\ legado' = legado /\ archivos' = archivos /\ viejas' = viejas /\ emisor' = emisor
      /\ fallas' = fallas
  BY DEF EnsureWebhook, direct, files, bounds
<1>9. SetupTypes'
  BY <1>1, <1>2, <1>8, <1>6, <1>7 DEF SetupTypes, SetupTypeOK, SunatConfigRows, Correlativos
<1>10. OneTenant' BY <1>1, <1>2, <1>8 DEF SetupInv, OneTenant, Camino, OfCompany
<1>11. WalkedSoFar' BY <1>1, <1>2, <1>8 DEF SetupInv, WalkedSoFar, Camino, OfCompany
<1>12. SecretInHand'
  <2> SUFFICES ASSUME "juntos" \notin viejas', fallas' = 0
               PROVE  /\ \A v, u \in Solicitudes :
                           hilo'[v].step \in Camino /\ hilo'[u].step \in Camino
                             /\ hilo'[v].env = hilo'[u].env => v = u
                      /\ \A v \in Solicitudes :
                           hilo'[v].step = "secret" => hilo'[v].n = enBilling'.secreto[hilo'[v].env]
                      /\ \A env \in Ambientes :
                           \/ cfg'.hook[env] = enBilling'.secreto[env]
                           \/ \E v \in Solicitudes : hilo'[v].step = "secret" /\ hilo'[v].env = env
    BY DEF SecretInHand
  <2>1. /\ \A v, u \in Solicitudes :
             hilo[v].step \in Camino /\ hilo[u].step \in Camino /\ hilo[v].env = hilo[u].env => v = u
        /\ \A v \in Solicitudes : hilo[v].step = "secret" => hilo[v].n = enBilling.secreto[hilo[v].env]
        /\ \A env \in Ambientes :
             \/ cfg.hook[env] = enBilling.secreto[env]
             \/ \E v \in Solicitudes : hilo[v].step = "secret" /\ hilo[v].env = env
    BY <1>2, <1>8, <1>3, <1>6, <1>7 DEF SetupInv, SecretInHand
  <2>2. \A v, u \in Solicitudes :
           hilo'[v].step \in Camino /\ hilo'[u].step \in Camino /\ hilo'[v].env = hilo'[u].env => v = u
    BY <2>1, <1>1 DEF Camino
  <2>3. \A v \in Solicitudes :
           hilo'[v].step = "secret" => hilo'[v].n = enBilling'.secreto[hilo'[v].env]
    BY <2>1, <1>1, <1>2, <1>8, <1>3, <1>6, <1>7 DEF Camino
  <2>4. ASSUME NEW env \in Ambientes
        PROVE  \/ cfg'.hook[env] = enBilling'.secreto[env]
               \/ \E v \in Solicitudes : hilo'[v].step = "secret" /\ hilo'[v].env = env
    BY <2>1, <1>1, <1>2, <1>8, <1>3, <1>6, <1>7 DEF Camino
  <2> QED BY <2>2, <2>3, <2>4
<1>13. SeriesStill BY <1>1, <1>2, <1>8, <1>6, <1>7 DEF SeriesStill, Camino
<1> QED BY <1>9, <1>10, <1>11, <1>12, <1>13, StillKeeps DEF SetupInv

\* And stores its secret.
LEMMA SaveSecretKeeps ==
  ASSUME SetupInv, NEW t \in Solicitudes, SaveSecret(t)
  PROVE  SetupInv'
<1>0. SetupTypes BY DEF SetupInv
<1> USE Fields, <1>0
<1>1. /\ HiloTyped' /\ hilo[t].step = "secret" /\ hilo'[t].step = "ready" /\ hilo'[t].n = 0
      /\ hilo'[t].env = hilo[t].env /\ \A u \in Solicitudes : u # t => hilo'[u] = hilo[u]
  <2>1. /\ hilo[t].step = "secret" /\ "ready" \in Steps /\ 0 \in Nat
        /\ ("ready" \in Camino <=> hilo[t].step \in Camino) /\ "ready" # "noting"
    BY DEF Steps, Camino, Esta, SaveSecret, SaveSecretAs
  <2>2. Goto(t, "ready", 0) BY DEF SaveSecret, SaveSecretAs
  <2> QED BY <2>1, <2>2, Going
<1>2. PICK w : w = [cfg.hook EXCEPT ![hilo[t].env] = hilo[t].n] OBVIOUS
<1>3. w \in [Ambientes -> Nat] BY <1>2
<1>4. PICK c : c = [cfg EXCEPT !.hook = w] OBVIOUS
<1>5. /\ cfg' = c /\ c \in IntegracionRows /\ c.hook = w
      /\ c.ids = cfg.ids /\ c.key = cfg.key /\ c.series = cfg.series /\ c.env = cfg.env /\ c.status = cfg.status
  <2>1. c \in IntegracionRows /\ c.hook = w BY <1>3, <1>4 DEF IntegracionRows
  <2>2. c.ids = cfg.ids /\ c.key = cfg.key /\ c.series = cfg.series /\ c.env = cfg.env /\ c.status = cfg.status
    BY <1>4 DEF IntegracionRows
  <2>3. cfg' = c BY <1>2, <1>4 DEF SaveSecret, SaveSecretAs
  <2> QED BY <2>1, <2>2, <2>3
<1>6. /\ ruc' = ruc /\ enBilling' = enBilling /\ serie' = serie /\ usados' = usados
      /\ trabajos' = trabajos /\ legado' = legado /\ archivos' = archivos /\ viejas' = viejas
      /\ emisor' = emisor /\ fallas' = fallas
  BY DEF SaveSecret, SaveSecretAs, direct, files, bounds
<1>7. SetupTypes' BY <1>1, <1>5, <1>6 DEF SetupTypes, SetupTypeOK, SunatConfigRows, Correlativos
<1>8. OneTenant' BY <1>1, <1>5, <1>6 DEF SetupInv, OneTenant, Camino, OfCompany
<1>9. WalkedSoFar' BY <1>1, <1>5, <1>6, <1>2 DEF SetupInv, WalkedSoFar, Camino, OfCompany
<1>10. SecretInHand'
  <2> SUFFICES ASSUME "juntos" \notin viejas', fallas' = 0
               PROVE  /\ \A v, u \in Solicitudes :
                           hilo'[v].step \in Camino /\ hilo'[u].step \in Camino
                             /\ hilo'[v].env = hilo'[u].env => v = u
                      /\ \A v \in Solicitudes :
                           hilo'[v].step = "secret" => hilo'[v].n = enBilling'.secreto[hilo'[v].env]
                      /\ \A env \in Ambientes :
                           \/ cfg'.hook[env] = enBilling'.secreto[env]
                           \/ \E v \in Solicitudes : hilo'[v].step = "secret" /\ hilo'[v].env = env
    BY DEF SecretInHand
  <2>1. /\ \A v, u \in Solicitudes :
             hilo[v].step \in Camino /\ hilo[u].step \in Camino /\ hilo[v].env = hilo[u].env => v = u
        /\ \A v \in Solicitudes : hilo[v].step = "secret" => hilo[v].n = enBilling.secreto[hilo[v].env]
        /\ \A env \in Ambientes :
             \/ cfg.hook[env] = enBilling.secreto[env]
             \/ \E v \in Solicitudes : hilo[v].step = "secret" /\ hilo[v].env = env
    BY <1>5, <1>6, <1>2 DEF SetupInv, SecretInHand
  <2>2. \A v, u \in Solicitudes :
           hilo'[v].step \in Camino /\ hilo'[u].step \in Camino /\ hilo'[v].env = hilo'[u].env => v = u
    BY <2>1, <1>1 DEF Camino
  <2>3. \A v \in Solicitudes :
           hilo'[v].step = "secret" => hilo'[v].n = enBilling'.secreto[hilo'[v].env]
    BY <2>1, <1>1, <1>5, <1>6, <1>2 DEF Camino
  <2>4. ASSUME NEW env \in Ambientes
        PROVE  \/ cfg'.hook[env] = enBilling'.secreto[env]
               \/ \E v \in Solicitudes : hilo'[v].step = "secret" /\ hilo'[v].env = env
    BY <2>1, <1>1, <1>5, <1>6, <1>2 DEF Camino
  <2> QED BY <2>2, <2>3, <2>4
<1>11. SeriesStill BY <1>1, <1>5, <1>6 DEF SeriesStill, Camino
<1> QED BY <1>7, <1>8, <1>9, <1>10, <1>11, StillKeeps DEF SetupInv

\* The series at Billing is at, or past, the number the walk read here.
LEMMA SeriesKeeps ==
  ASSUME SetupInv, NEW t \in Solicitudes, NEW n \in Nat, Series(t, n), n = hilo[t].n \/ n = serie
  PROVE  SetupInv'
<1>0. SetupTypes BY DEF SetupInv
<1> USE Fields, <1>0
<1>1. /\ HiloTyped' /\ hilo[t].step = "series" /\ hilo'[t].step = "hook" /\ hilo'[t].n = 0
      /\ hilo'[t].env = hilo[t].env /\ \A u \in Solicitudes : u # t => hilo'[u] = hilo[u]
  <2>1. /\ hilo[t].step = "series" /\ "hook" \in Steps /\ 0 \in Nat
        /\ ("hook" \in Camino <=> hilo[t].step \in Camino) /\ "hook" # "noting"
    BY DEF Steps, Camino, Esta, Series
  <2>2. Goto(t, "hook", 0) BY DEF Series
  <2> QED BY <2>1, <2>2, Going
<1>2. PICK w : w = cfg.series \cup {hilo[t].env} OBVIOUS
<1>3. w \in SUBSET Ambientes BY <1>2
<1>4. PICK c : c = [cfg EXCEPT !.series = w] OBVIOUS
<1>5. c \in IntegracionRows /\ c.series = w BY <1>3, <1>4 DEF IntegracionRows
<1>6. c.ids = cfg.ids /\ c.key = cfg.key /\ c.hook = cfg.hook /\ c.env = cfg.env /\ c.status = cfg.status
  BY <1>4 DEF IntegracionRows
<1>7. cfg' = c BY <1>2, <1>4 DEF Series
<1>8. PICK m : m = SeriesNumber(enBilling.numero[hilo[t].env], n) OBVIOUS
<1>9. m \in Nat /\ m >= n /\ m >= enBilling.numero[hilo[t].env] BY <1>8 DEF SeriesNumber
<1>10. PICK x : x = [enBilling.numero EXCEPT ![hilo[t].env] = m] OBVIOUS
<1>11. x \in [Ambientes -> Nat] BY <1>9, <1>10
<1>12. PICK b : b = [enBilling EXCEPT !.numero = x] OBVIOUS
<1>13. b \in EstablecimientoRows /\ b.numero = x BY <1>11, <1>12 DEF EstablecimientoRows
<1>14. b.secreto = enBilling.secreto BY <1>12 DEF EstablecimientoRows
<1>15. enBilling' = b BY <1>8, <1>10, <1>12 DEF Series
<1>16. /\ ruc' = ruc /\ serie' = serie /\ usados' = usados /\ trabajos' = trabajos /\ legado' = legado
       /\ archivos' = archivos /\ emisor' = emisor /\ fallas' = fallas
       /\ viejas' = IF hilo[t].env = "PRODUCTION" /\ n = serie THEN viejas \ {"ahead"} ELSE viejas
  BY DEF Series, direct, files, bounds
<1>17. SetupTypes' BY <1>1, <1>5, <1>7, <1>13, <1>15, <1>16 DEF SetupTypes, SetupTypeOK
<1>18. OneTenant' BY <1>1, <1>6, <1>7, <1>16 DEF SetupInv, OneTenant, Camino, OfCompany
<1>19. WalkedSoFar'
  <2>1. cfg'.hook = cfg.hook /\ cfg'.env = cfg.env /\ cfg'.status = cfg.status BY <1>6, <1>7
  <2>2. cfg.series \subseteq cfg'.series /\ hilo[t].env \in cfg'.series BY <1>2, <1>5, <1>7
  <2>3. OfCompany' <=> OfCompany BY <1>16 DEF OfCompany
  <2> HIDE <1>0
  <2>4. \A u \in Solicitudes :
          /\ hilo'[u].step \in {"hook", "secret", "ready"} => hilo'[u].env \in cfg'.series
          /\ hilo'[u].step = "secret" => hilo'[u].n # 0
          /\ hilo'[u].step = "ready" => cfg'.hook[hilo'[u].env] # 0
    BY <2>1, <2>2, <1>1 DEF SetupInv, WalkedSoFar
  <2>5. OfCompany /\ cfg'.status = "READY" => cfg'.hook[cfg'.env] # 0 /\ cfg'.env \in cfg'.series
    BY <2>1, <2>2 DEF SetupInv, WalkedSoFar
  <2> QED BY <2>3, <2>4, <2>5 DEF WalkedSoFar
<1>20. SecretStill BY <1>1, <1>6, <1>7, <1>14, <1>15, <1>16 DEF SecretStill, Camino
<1>21. SeriesFollow'
  <2>1. \A d \in usados'.directo : d \in Nat /\ d <= serie' BY <1>16 DEF SetupInv, SeriesFollow
  <2>2. \A v \in usados'.billing :
          v <= serie' \/ \E u \in Solicitudes : hilo'[u].step = "noteNumber" /\ hilo'[u].n = v
    BY <1>16, <1>1 DEF SetupInv, SeriesFollow, Esta
  <2>3. \A u \in Solicitudes : hilo'[u].step = "posting" => "PRODUCTION" \in cfg'.series
    BY <1>1, <1>2, <1>5, <1>7 DEF SetupInv, SeriesFollow, Esta
  <2>4. ASSUME "ahead" \notin viejas', "PRODUCTION" \in cfg'.series, NEW d \in usados'.directo
        PROVE  d <= enBilling'.numero["PRODUCTION"]
    <3>1. d \in usados.directo /\ d \in Nat /\ d <= serie BY <1>16 DEF SetupInv, SeriesFollow
    <3>2. CASE hilo[t].env # "PRODUCTION"
      <4>1. "PRODUCTION" \in cfg.series /\ "ahead" \notin viejas
        BY <3>2, <2>4, <1>2, <1>5, <1>7, <1>16
      <4>2. enBilling'.numero["PRODUCTION"] = enBilling.numero["PRODUCTION"]
        BY <3>2, <1>10, <1>13, <1>15 DEF Ambientes
      <4> QED BY <4>1, <4>2, <3>1 DEF SetupInv, SeriesFollow
    <3>3. CASE hilo[t].env = "PRODUCTION"
      <4>1. enBilling'.numero["PRODUCTION"] = m BY <3>3, <1>10, <1>13, <1>15 DEF Ambientes
      <4>2. CASE n = serie BY <4>1, <4>2, <3>1, <1>9
      <4>3. CASE n # serie
        <5>1. "ahead" \notin viejas /\ n = hilo[t].n BY <4>3, <2>4, <1>16
        <5>2. CASE "PRODUCTION" \in cfg.series
          <6>1. d <= enBilling.numero["PRODUCTION"] BY <5>1, <5>2, <3>1 DEF SetupInv, SeriesFollow
          <6> QED BY <6>1, <4>1, <3>1, <3>3, <1>9
        <5>3. CASE "PRODUCTION" \notin cfg.series
          <6>1. d <= hilo[t].n BY <5>1, <5>3, <3>1, <3>3, <1>1 DEF SetupInv, SeriesFollow
          <6> QED BY <6>1, <5>1, <4>1, <3>1, <1>9
        <5> QED BY <5>2, <5>3
      <4> QED BY <4>2, <4>3
    <3> QED BY <3>2, <3>3
  <2>5. ASSUME "ahead" \notin viejas', "PRODUCTION" \notin cfg'.series, NEW u \in Solicitudes,
               hilo'[u].step \in {"ids", "key", "keyMade", "series"}, hilo'[u].env = "PRODUCTION",
               NEW d \in usados'.directo
        PROVE  d <= hilo'[u].n
    <3>1. "PRODUCTION" \notin cfg.series /\ "ahead" \notin viejas BY <2>5, <1>2, <1>5, <1>7, <1>16
    <3>2. u # t /\ hilo'[u] = hilo[u] BY <2>5, <1>1
    <3> QED BY <3>1, <3>2, <2>5, <1>16 DEF SetupInv, SeriesFollow
  <2> QED BY <2>1, <2>2, <2>3, <2>4, <2>5 DEF SeriesFollow, Esta
<1> QED BY <1>17, <1>18, <1>19, <1>20, <1>21, SecretStays DEF SetupInv

\* A company is READY in the environment of the walk that came to its end.
LEMMA FinishesKeeps ==
  ASSUME SetupInv, NEW t \in Solicitudes, NEW env \in Ambientes, Finishes(t, env),
         OfCompany => env = hilo[t].env
  PROVE  SetupInv'
<1>0. SetupTypes BY DEF SetupInv
<1> USE Fields, <1>0
<1>1. /\ HiloTyped' /\ hilo[t].step = "ready" /\ hilo'[t].step = "idle"
      /\ \A u \in Solicitudes : u # t => hilo'[u] = hilo[u]
  BY Returning DEF Finishes, Esta
<1>2. PICK c : c = [cfg EXCEPT !.status = "READY", !.env = env] OBVIOUS
<1>3. c \in IntegracionRows BY <1>2 DEF IntegracionRows
<1>4. c.ids = cfg.ids /\ c.key = cfg.key /\ c.hook = cfg.hook /\ c.series = cfg.series /\ c.env = env
  BY <1>2 DEF IntegracionRows
<1>5. cfg' = c BY <1>2 DEF Finishes
<1>6. /\ ruc' = ruc /\ enBilling' = enBilling /\ serie' = serie /\ usados' = usados
      /\ trabajos' = trabajos /\ legado' = legado /\ archivos' = archivos /\ viejas' = viejas
      /\ emisor' = emisor /\ fallas' = fallas
  BY DEF Finishes, direct, files, bounds
<1>7. SetupTypes' BY <1>1, <1>3, <1>5, <1>6 DEF SetupTypes, SetupTypeOK
<1>8. OneTenant' BY <1>1, <1>4, <1>5, <1>6 DEF SetupInv, OneTenant, Camino, OfCompany
<1>9. WalkedSoFar' BY <1>1, <1>4, <1>5, <1>6 DEF SetupInv, WalkedSoFar, Camino, OfCompany
<1>10. SecretStill BY <1>1, <1>4, <1>5, <1>6 DEF SecretStill, Camino
<1>11. SeriesStill BY <1>1, <1>4, <1>5, <1>6 DEF SeriesStill
<1> QED BY <1>7, <1>8, <1>9, <1>10, <1>11, SecretStays, StillKeeps DEF SetupInv

\* A walk that begins meets another of its environment, or it is the only one.
LEMMA BeginsKeeps ==
  ASSUME SetupInv, NEW t \in Solicitudes, NEW env \in Ambientes, Begins(t, env),
         \/ cfg' = [cfg EXCEPT !.status = "PENDING", !.env = env]
         \/ cfg' = [cfg EXCEPT !.status = "PENDING"]
  PROVE  SetupInv'
<1>0. SetupTypes BY DEF SetupInv
<1> USE Fields, <1>0
<1>1. /\ HiloTyped' /\ hilo[t].step = "idle" /\ hilo'[t].step = "ids"
      /\ hilo'[t].env = env /\ hilo'[t].n = serie
      /\ \A u \in Solicitudes : u # t => hilo'[u] = hilo[u]
      /\ emisor' = emisor /\ fallas' = fallas
  <2>1. /\ "provision" \in Tasks /\ "ids" \in Steps /\ serie \in Nat /\ {} \in SUBSET Nat
        /\ ("ids" \in Camino <=> "provision" = "provision")
        /\ ("ids" = "noting" => "provision" \in Todo)
    BY DEF Tasks, Steps, Camino
  <2>2. Starts(t, "provision", "ids", env, serie, {}) BY DEF Begins
  <2> QED BY ZenonT(40), <2>1, <2>2, Starting
<1>2. PICK e \in Ambientes : cfg' = [cfg EXCEPT !.status = "PENDING", !.env = e]
  <2>1. CASE cfg' = [cfg EXCEPT !.status = "PENDING", !.env = env] BY <2>1
  <2>2. CASE cfg' = [cfg EXCEPT !.status = "PENDING"]
    <3>1. PICK c : c = [cfg EXCEPT !.status = "PENDING", !.env = cfg.env] OBVIOUS
    <3>2. c = [cfg EXCEPT !.status = "PENDING"] BY <3>1 DEF IntegracionRows
    <3> QED BY <3>1, <3>2, <2>2
  <2> QED BY <2>1, <2>2
<1>3. PICK c : c = [cfg EXCEPT !.status = "PENDING", !.env = e] OBVIOUS
<1>4. c \in IntegracionRows BY <1>3 DEF IntegracionRows
<1>5. /\ c.ids = cfg.ids /\ c.key = cfg.key /\ c.hook = cfg.hook /\ c.series = cfg.series
      /\ c.status = "PENDING"
  BY <1>3 DEF IntegracionRows
<1>6. cfg' = c BY <1>2, <1>3
<1>7. /\ ruc' = ruc /\ enBilling' = enBilling /\ serie' = serie /\ usados' = usados
      /\ trabajos' = trabajos /\ legado' = legado /\ archivos' = archivos
      /\ viejas' = IF Provisions(env) # {} THEN viejas \cup {"juntos"} ELSE viejas
  BY DEF Begins, direct, files
<1>8. SetupTypes' BY <1>1, <1>4, <1>6, <1>7 DEF SetupTypes, SetupTypeOK
<1>9. OneTenant' BY <1>1, <1>5, <1>6, <1>7 DEF SetupInv, OneTenant, Camino, OfCompany
<1>10. WalkedSoFar' BY <1>1, <1>5, <1>6, <1>7 DEF SetupInv, WalkedSoFar, Camino, OfCompany
<1>11. SecretInHand'
  <2> SUFFICES ASSUME "juntos" \notin viejas', fallas' = 0
               PROVE  /\ \A v, u \in Solicitudes :
                           hilo'[v].step \in Camino /\ hilo'[u].step \in Camino
                             /\ hilo'[v].env = hilo'[u].env => v = u
                      /\ \A v \in Solicitudes :
                           hilo'[v].step = "secret" => hilo'[v].n = enBilling'.secreto[hilo'[v].env]
                      /\ \A a \in Ambientes :
                           \/ cfg'.hook[a] = enBilling'.secreto[a]
                           \/ \E v \in Solicitudes : hilo'[v].step = "secret" /\ hilo'[v].env = a
    BY DEF SecretInHand
  <2>1. "juntos" \notin viejas /\ fallas = 0 /\ Provisions(env) = {} BY <1>1, <1>7
  <2>2. \A u \in Solicitudes : hilo[u].step \in Camino => hilo[u].env # env
    BY <2>1 DEF Provisions, HiloTyped
  <2>3. /\ \A v, u \in Solicitudes :
             hilo[v].step \in Camino /\ hilo[u].step \in Camino /\ hilo[v].env = hilo[u].env => v = u
        /\ \A v \in Solicitudes : hilo[v].step = "secret" => hilo[v].n = enBilling.secreto[hilo[v].env]
        /\ \A a \in Ambientes :
             \/ cfg.hook[a] = enBilling.secreto[a]
             \/ \E v \in Solicitudes : hilo[v].step = "secret" /\ hilo[v].env = a
    BY <2>1 DEF SetupInv, SecretInHand
  <2>4. \A v, u \in Solicitudes :
           hilo'[v].step \in Camino /\ hilo'[u].step \in Camino /\ hilo'[v].env = hilo'[u].env => v = u
    BY <2>2, <2>3, <1>1
  <2>5. \A v \in Solicitudes :
           hilo'[v].step = "secret" => hilo'[v].n = enBilling'.secreto[hilo'[v].env]
    BY <2>3, <1>1, <1>7
  <2>6. \A a \in Ambientes :
          \/ cfg'.hook[a] = enBilling'.secreto[a]
          \/ \E v \in Solicitudes : hilo'[v].step = "secret" /\ hilo'[v].env = a
    BY <2>3, <1>1, <1>5, <1>6, <1>7
  <2> QED BY <2>4, <2>5, <2>6
<1>12. SeriesFollow'
  <2>1. \A d \in usados'.directo : d \in Nat /\ d <= serie' BY <1>7 DEF SetupInv, SeriesFollow
  <2>2. \A v \in usados'.billing :
          v <= serie' \/ \E u \in Solicitudes : hilo'[u].step = "noteNumber" /\ hilo'[u].n = v
    BY <1>7, <1>1 DEF SetupInv, SeriesFollow, Esta
  <2>3. \A u \in Solicitudes : hilo'[u].step = "posting" => "PRODUCTION" \in cfg'.series
    BY <1>1, <1>5, <1>6 DEF SetupInv, SeriesFollow, Esta
  <2>4. ASSUME "ahead" \notin viejas', "PRODUCTION" \in cfg'.series, NEW d \in usados'.directo
        PROVE  d <= enBilling'.numero["PRODUCTION"]
    BY <2>4, <1>5, <1>6, <1>7 DEF SetupInv, SeriesFollow
  <2>5. ASSUME "ahead" \notin viejas', "PRODUCTION" \notin cfg'.series, NEW u \in Solicitudes,
               hilo'[u].step \in {"ids", "key", "keyMade", "series"}, hilo'[u].env = "PRODUCTION",
               NEW d \in usados'.directo
        PROVE  d <= hilo'[u].n
    <3>1. CASE u = t BY <3>1, <1>1, <1>7 DEF SetupInv, SeriesFollow
    <3>2. CASE u # t BY <3>2, <2>5, <1>1, <1>5, <1>6, <1>7 DEF SetupInv, SeriesFollow
    <3> QED BY <3>1, <3>2
  <2> QED BY <2>1, <2>2, <2>3, <2>4, <2>5 DEF SeriesFollow, Esta
<1> QED BY <1>8, <1>9, <1>10, <1>11, <1>12 DEF SetupInv

----------------------------------------
(* The numbers of the series.                                              *)

\* The direct route takes the number after the last one known here.
LEMMA TakeNumberKeeps ==
  ASSUME SetupInv, NEW t \in Solicitudes, TakeNumber(t)
  PROVE  SetupTypes' /\ Quiet /\ SeriesFollow'
<1>0. SetupTypes BY DEF SetupInv
<1> USE Fields, <1>0
<1>1. /\ HiloTyped' /\ hilo[t].step = "numbering" /\ hilo'[t].step = "idle"
      /\ \A u \in Solicitudes : u # t => hilo'[u] = hilo[u]
  BY Returning DEF TakeNumber, Esta
<1>2. /\ cfg' = cfg /\ ruc' = ruc /\ enBilling' = enBilling /\ serie' = serie + 1
      /\ trabajos' = trabajos + 1 /\ legado' = legado /\ archivos' = archivos
      /\ viejas' = viejas \cup {"ahead"} /\ emisor' = emisor /\ fallas' = fallas
  BY DEF TakeNumber, files, bounds
<1>3. PICK v : v = [usados EXCEPT !.directo = @ \cup {serie + 1}] OBVIOUS
<1>4. v \in [directo : SUBSET Nat, billing : SUBSET Nat] BY <1>3
<1>5. v.directo = usados.directo \cup {serie + 1} /\ v.billing = usados.billing BY <1>3
<1>6. usados' = v BY <1>3 DEF TakeNumber
<1>7. SetupTypes' BY <1>1, <1>2, <1>4, <1>6 DEF SetupTypes, SetupTypeOK, Correlativos
<1>8. Quiet BY <1>1, <1>2 DEF Quiet, Camino
<1>9. \A d \in usados'.directo : d \in Nat /\ d <= serie'
  BY <1>2, <1>5, <1>6 DEF SetupInv, SeriesFollow
<1>10. ASSUME NEW b \in usados'.billing
       PROVE  b <= serie' \/ \E u \in Solicitudes : hilo'[u].step = "noteNumber" /\ hilo'[u].n = b
  <2>1. b \in usados.billing /\ b \in Nat BY <1>5, <1>6
  <2>2. b <= serie \/ \E u \in Solicitudes : hilo[u].step = "noteNumber" /\ hilo[u].n = b
    BY <2>1 DEF SetupInv, SeriesFollow, Esta
  <2> QED BY <2>1, <2>2, <1>1, <1>2
<1>11. \A u \in Solicitudes : hilo'[u].step = "posting" => "PRODUCTION" \in cfg'.series
  BY <1>1, <1>2 DEF SetupInv, SeriesFollow, Esta
<1>12. "ahead" \in viejas' BY <1>2
<1> QED BY <1>7, <1>8, <1>9, <1>10, <1>11, <1>12 DEF SeriesFollow, Esta

\* A sale goes to Billing when the series of production is there.
LEMMA BillingSaleKeeps ==
  ASSUME SetupInv, NEW t \in Solicitudes, BillingSale(t)
  PROVE  SetupTypes' /\ Quiet /\ SeriesFollow'
<1>0. SetupTypes BY DEF SetupInv
<1> USE Fields, <1>0
<1>1. /\ HiloTyped' /\ hilo[t].step = "idle" /\ hilo'[t].step = "posting"
      /\ \A u \in Solicitudes : u # t => hilo'[u] = hilo[u]
      /\ emisor' = emisor /\ fallas' = fallas
  <2>1. PICK e \in Ambientes : e = cfg.env OBVIOUS
  <2>2. /\ "billing" \in Tasks /\ "posting" \in Steps /\ 0 \in Nat /\ {} \in SUBSET Nat
        /\ ("posting" \in Camino <=> "billing" = "provision")
        /\ ("posting" = "noting" => "billing" \in Todo)
    BY DEF Tasks, Steps, Camino
  <2>3. Starts(t, "billing", "posting", e, 0, {}) BY <2>1 DEF BillingSale
  <2> QED BY <2>2, <2>3, Starting
<1>2. /\ cfg' = cfg /\ ruc' = ruc /\ enBilling' = enBilling /\ serie' = serie /\ usados' = usados
      /\ trabajos' = trabajos /\ legado' = legado /\ archivos' = archivos /\ viejas' = viejas
  BY DEF BillingSale, direct, files
<1>3. "PRODUCTION" \in cfg.series BY DEF BillingSale, SalePrerequisites
<1>4. SetupTypes' BY <1>1, <1>2 DEF SetupTypes, SetupTypeOK
<1>5. Quiet BY <1>1, <1>2 DEF Quiet, Camino, OfCompany
<1>6. \A d \in usados'.directo : d \in Nat /\ d <= serie' BY <1>2 DEF SetupInv, SeriesFollow
<1>7. \A b \in usados'.billing :
        b <= serie' \/ \E u \in Solicitudes : hilo'[u].step = "noteNumber" /\ hilo'[u].n = b
  BY <1>1, <1>2 DEF SetupInv, SeriesFollow, Esta
<1>8. \A u \in Solicitudes : hilo'[u].step = "posting" => "PRODUCTION" \in cfg'.series BY <1>2, <1>3
<1>9. "ahead" \notin viejas' => \A d \in usados'.directo : d <= enBilling'.numero["PRODUCTION"]
  BY <1>2, <1>3 DEF SetupInv, SeriesFollow
<1> QED BY <1>4, <1>5, <1>6, <1>7, <1>8, <1>9, <1>2, <1>3 DEF SeriesFollow, Esta

\* The document got the next number at Billing; that number is still to be noted here.
LEMMA PostSaleKeeps ==
  ASSUME SetupInv, NEW t \in Solicitudes, PostSale(t)
  PROVE  SetupTypes' /\ Quiet /\ SeriesFollow'
<1>0. SetupTypes BY DEF SetupInv
<1> USE Fields, <1>0
<1>1. PICK m : m = enBilling.numero["PRODUCTION"] + 1 OBVIOUS
<1>2. m \in Nat /\ "PRODUCTION" \in Ambientes BY <1>1 DEF Ambientes
<1>3. PICK x : x = [enBilling.numero EXCEPT !["PRODUCTION"] = m] OBVIOUS
<1>4. x \in [Ambientes -> Nat] /\ x["PRODUCTION"] = m BY <1>2, <1>3
<1>5. PICK e : e = [enBilling EXCEPT !.numero = x] OBVIOUS
<1>6. e \in EstablecimientoRows /\ e.numero = x BY <1>4, <1>5 DEF EstablecimientoRows
<1>7. e.secreto = enBilling.secreto BY <1>5 DEF EstablecimientoRows
<1>8. enBilling' = e BY <1>1, <1>3, <1>5 DEF PostSale
<1>9. enBilling'.numero["PRODUCTION"] = m BY <1>4, <1>6, <1>8
<1>10. /\ HiloTyped' /\ hilo[t].step = "posting" /\ hilo'[t].step = "noteNumber" /\ hilo'[t].n = m
       /\ \A u \in Solicitudes : u # t => hilo'[u] = hilo[u]
  <2>1. /\ hilo[t].step = "posting" /\ "noteNumber" \in Steps /\ "noteNumber" # "noting"
        /\ ("noteNumber" \in Camino <=> hilo[t].step \in Camino)
    BY DEF Steps, Camino, Esta, PostSale
  <2>2. Goto(t, "noteNumber", m) BY <1>9 DEF PostSale
  <2> QED BY <2>1, <2>2, <1>2, Going
<1>11. PICK v : v = [usados EXCEPT !.billing = @ \cup {m}] OBVIOUS
<1>12. v \in [directo : SUBSET Nat, billing : SUBSET Nat] BY <1>11, <1>2
<1>13. v.billing = usados.billing \cup {m} /\ v.directo = usados.directo BY <1>11
<1>14. usados' = v BY <1>9, <1>11 DEF PostSale
<1>15. /\ cfg' = cfg /\ ruc' = ruc /\ serie' = serie /\ trabajos' = trabajos /\ legado' = legado
       /\ archivos' = archivos /\ viejas' = viejas /\ emisor' = emisor /\ fallas' = fallas
  BY DEF PostSale, files, bounds
<1>16. SetupTypes' BY <1>6, <1>8, <1>10, <1>12, <1>14, <1>15 DEF SetupTypes, SetupTypeOK
<1>17. Quiet BY <1>7, <1>8, <1>10, <1>15 DEF Quiet, Camino, OfCompany
<1>18. \A d \in usados'.directo : d \in Nat /\ d <= serie'
  BY <1>13, <1>14, <1>15 DEF SetupInv, SeriesFollow
<1>19. ASSUME NEW b \in usados'.billing
       PROVE  b <= serie' \/ \E u \in Solicitudes : hilo'[u].step = "noteNumber" /\ hilo'[u].n = b
  <2>1. CASE b = m BY <2>1, <1>10
  <2>2. CASE b # m
    <3>1. b \in usados.billing BY <2>2, <1>13, <1>14
    <3>2. b <= serie \/ \E u \in Solicitudes : hilo[u].step = "noteNumber" /\ hilo[u].n = b
      BY <3>1 DEF SetupInv, SeriesFollow, Esta
    <3> QED BY <3>2, <1>10, <1>15
  <2> QED BY <2>1, <2>2
<1>20. \A u \in Solicitudes : hilo'[u].step = "posting" => "PRODUCTION" \in cfg'.series
  BY <1>10, <1>15 DEF SetupInv, SeriesFollow, Esta
<1>21. "PRODUCTION" \in cfg.series BY <1>10 DEF SetupInv, SeriesFollow, Esta
<1>22. ASSUME "ahead" \notin viejas', NEW d \in usados'.directo
       PROVE  d <= enBilling'.numero["PRODUCTION"]
  <2>1. d \in usados.directo /\ d \in Nat BY <1>13, <1>14
  <2>2. d <= enBilling.numero["PRODUCTION"] BY <2>1, <1>22, <1>15, <1>21 DEF SetupInv, SeriesFollow
  <2> QED BY <2>1, <2>2, <1>9, <1>1, <1>2
<1> QED BY <1>16, <1>17, <1>18, <1>19, <1>20, <1>21, <1>22, <1>15 DEF SeriesFollow, Esta

\* A number that a posting took is noted.
LEMMA NoteNumberKeeps ==
  ASSUME SetupInv, NEW t \in Solicitudes, NoteNumber(t)
  PROVE  SetupTypes' /\ Quiet /\ SeriesFollow'
<1>0. SetupTypes BY DEF SetupInv
<1> USE Fields, <1>0
<1>1. /\ HiloTyped' /\ hilo[t].step = "noteNumber" /\ hilo'[t].step = "idle"
      /\ \A u \in Solicitudes : u # t => hilo'[u] = hilo[u]
  BY Returning DEF NoteNumber, Esta
<1>2. /\ cfg' = cfg /\ ruc' = ruc /\ enBilling' = enBilling /\ usados' = usados
      /\ trabajos' = trabajos /\ legado' = legado /\ archivos' = archivos /\ viejas' = viejas
      /\ emisor' = emisor /\ fallas' = fallas
  BY DEF NoteNumber, files, bounds
<1>3. serie' \in Nat /\ serie' >= serie /\ serie' >= hilo[t].n BY DEF NoteNumber
<1>4. SetupTypes' BY <1>1, <1>2, <1>3 DEF SetupTypes, SetupTypeOK, Correlativos
<1>5. Quiet BY <1>1, <1>2 DEF Quiet, Camino, OfCompany
<1>6. \A d \in usados'.directo : d \in Nat /\ d <= serie' BY <1>2, <1>3 DEF SetupInv, SeriesFollow
<1>7. ASSUME NEW b \in usados'.billing
      PROVE  b <= serie' \/ \E u \in Solicitudes : hilo'[u].step = "noteNumber" /\ hilo'[u].n = b
  <2>1. b \in usados.billing /\ b \in Nat BY <1>2
  <2>2. b <= serie \/ \E u \in Solicitudes : hilo[u].step = "noteNumber" /\ hilo[u].n = b
    BY <2>1 DEF SetupInv, SeriesFollow, Esta
  <2>3. CASE b <= serie BY <2>1, <2>3, <1>3
  <2>4. ASSUME NEW u \in Solicitudes, hilo[u].step = "noteNumber", hilo[u].n = b
        PROVE  b <= serie' \/ \E v \in Solicitudes : hilo'[v].step = "noteNumber" /\ hilo'[v].n = b
    BY <2>1, <2>4, <1>1, <1>3
  <2> QED BY <2>2, <2>3, <2>4
<1>8. \A u \in Solicitudes : hilo'[u].step = "posting" => "PRODUCTION" \in cfg'.series
  BY <1>1, <1>2 DEF SetupInv, SeriesFollow, Esta
<1>9. ASSUME "ahead" \notin viejas'
      PROVE  IF "PRODUCTION" \in cfg'.series
               THEN \A d \in usados'.directo : d <= enBilling'.numero["PRODUCTION"]
               ELSE \A u \in Solicitudes :
                      hilo'[u].step \in {"ids", "key", "keyMade", "series"}
                        /\ hilo'[u].env = "PRODUCTION" => \A d \in usados'.directo : d <= hilo'[u].n
  BY <1>9, <1>1, <1>2 DEF SetupInv, SeriesFollow
<1> QED BY <1>4, <1>5, <1>6, <1>7, <1>8, <1>9 DEF SeriesFollow, Esta

----------------------------------------
\* An issuer that was just created satisfies the invariant.
LEMMA SetupBegins ==
  ASSUME SetupInit
  PROVE  SetupInv
<1>1. PICK listo \in {{}, {"BETA"}, Ambientes} :
        /\ cfg = [env |-> IF listo = Ambientes THEN "PRODUCTION" ELSE "BETA",
                  status |-> IF listo = {} THEN "PENDING" ELSE "READY", enabled |-> FALSE,
                  ids |-> IF listo = {} THEN 0 ELSE 1, key |-> Listo(listo, 1, 0),
                  hook |-> Listo(listo, 1, 0), series |-> listo,
                  puestos |-> Listo(listo, Todo, {})]
        /\ enBilling = [hechos |-> 1, secreto |-> cfg.hook, numero |-> Listo(listo, 1, 0),
                        puestos |-> cfg.puestos]
  BY DEF SetupInit
<1>2. listo \subseteq Ambientes /\ (listo # {} => "BETA" \in listo) BY DEF Ambientes
<1>3. PICK u : u = Listo(listo, 1, 0) OBVIOUS
<1>4. u \in [Ambientes -> Nat] /\ \A a \in Ambientes : u[a] = IF a \in listo THEN 1 ELSE 0
  BY <1>3 DEF Listo
<1>5. PICK p : p = Listo(listo, Todo, {}) OBVIOUS
<1>6. p \in [Ambientes -> SUBSET Todo] BY <1>5 DEF Listo
<1>7. /\ cfg.key = u /\ cfg.hook = u /\ cfg.series = listo /\ cfg.puestos = p
      /\ cfg.ids = (IF listo = {} THEN 0 ELSE 1)
      /\ cfg.env = (IF listo = Ambientes THEN "PRODUCTION" ELSE "BETA")
      /\ cfg.status = (IF listo = {} THEN "PENDING" ELSE "READY")
  BY <1>1, <1>3, <1>5
<1>8. cfg \in IntegracionRows BY <1>1, <1>2, <1>3, <1>4, <1>5, <1>6 DEF IntegracionRows, Ambientes
<1>9. enBilling.secreto = u /\ enBilling.numero = u BY <1>1, <1>3, <1>7
<1>10. enBilling \in EstablecimientoRows BY <1>1, <1>3, <1>4, <1>6, <1>7 DEF EstablecimientoRows
<1>11. /\ ruc = 1 /\ serie \in 1..2 /\ trabajos = 0 /\ legado = 0 /\ fallas = 0
       /\ usados = [directo |-> 1..serie, billing |-> {}]
       /\ archivos = [hechos |-> {}, hay |-> {}]
       /\ hilo = [t \in Solicitudes |-> SinPeticion]
       /\ viejas = IF serie = 1 THEN {} ELSE {"ahead"}
  BY DEF SetupInit
<1>12. \A t \in Solicitudes : hilo[t] = SinPeticion /\ hilo[t].step = "idle" /\ hilo[t].task = "none"
  BY <1>11 DEF SinPeticion
<1>13. HiloTyped
  <2>1. SinPeticion \in HiloRows BY DEF SinPeticion, HiloRows, Ambientes
  <2>2. hilo \in [Solicitudes -> HiloRows] BY <2>1, <1>11
  <2> QED BY <2>2, <1>12 DEF HiloTyped, Camino
<1>14. SetupTypes
  <2>1. usados \in [directo : SUBSET Nat, billing : SUBSET Nat] BY <1>11
  <2>2. archivos \in [hechos : SUBSET Nat, hay : SUBSET Nat] /\ archivos.hechos = {} BY <1>11
  <2>3. IsFiniteSet(archivos.hechos) BY <2>2, FS_EmptySet
  <2> QED BY <2>1, <2>2, <2>3, <1>8, <1>10, <1>11, <1>13
          DEF SetupTypes, SetupTypeOK, Correlativos, SunatConfigRows
<1>15. OneTenant BY <1>2, <1>4, <1>7, <1>11, <1>12 DEF OneTenant, Camino, Ambientes
<1>16. WalkedSoFar BY <1>2, <1>4, <1>7, <1>12 DEF WalkedSoFar, Ambientes
<1>17. SecretInHand BY <1>7, <1>9, <1>12 DEF SecretInHand, Camino
<1>18. SeriesFollow
  <2>1. usados.billing = {} /\ usados.directo = 1..serie BY <1>11
  <2>2. ASSUME "ahead" \notin viejas, "PRODUCTION" \in cfg.series, NEW d \in usados.directo
        PROVE  d <= enBilling.numero["PRODUCTION"]
    <3>1. serie = 1 BY <2>2, <1>11
    <3>2. enBilling.numero["PRODUCTION"] = 1 BY <2>2, <1>4, <1>7, <1>9 DEF Ambientes
    <3> QED BY <3>1, <3>2, <2>1
  <2> QED BY <2>1, <2>2, <1>11, <1>12 DEF SeriesFollow, Esta
<1> QED BY <1>14, <1>15, <1>16, <1>17, <1>18 DEF SetupInv

\* What a step that is quiet leaves is the invariant.
LEMMA QuietAndStill ==
  ASSUME SetupInv, SetupTypes', Quiet, SeriesStill
  PROVE  SetupInv'
BY QuietKeeps, StillKeeps DEF SetupInv

\* The steps of the walk keep the invariant.
LEMMA ProvisionKeeps ==
  ASSUME SetupInv, NEW t \in Solicitudes, Provision(t)
  PROVE  SetupInv'
<1>0. SetupTypes BY DEF SetupInv
<1> USE <1>0, Fields
<1>1. ASSUME NEW env \in Ambientes, ProvisionBegin(t, env)
      PROVE  SetupInv'
  BY <1>1, BeginsKeeps DEF ProvisionBegin
<1>2. ASSUME NEW env \in Ambientes, PlatformProvision(t, env)
      PROVE  SetupInv'
  BY <1>2, BeginsKeeps DEF PlatformProvision
<1>3. CASE SyncConfigured(t) BY <1>3, <1>1 DEF SyncConfigured
<1>4. CASE PlatformSync(t) BY <1>4, <1>2 DEF PlatformSync
<1>5. CASE SaveIds(t) BY <1>5, SaveIdsKeeps
<1>6. CASE EnsureApiKey(t)
  <2>1. PICK step \in {"series", "keyMade"} :
          step = IF cfg.key[hilo[t].env] # 0 THEN "series" ELSE "keyMade"
    OBVIOUS
  <2> QED BY <2>1, <1>6, EnsureApiKeyKeeps
<1>7. CASE SaveApiKey(t) BY <1>7, SaveApiKeyKeeps
<1>8. CASE EnsureWebhook(t) BY <1>8, EnsureWebhookKeeps
<1>9. CASE SaveSecret(t) BY <1>9, SaveSecretKeeps
<1>10. CASE EnsureFiscalSeries(t) BY <1>10, SeriesKeeps DEF EnsureFiscalSeries
<1>11. CASE PlatformSeries(t) BY <1>11, SeriesKeeps DEF PlatformSeries
<1>12. CASE Ready(t) BY <1>12, FinishesKeeps DEF Ready
<1>13. CASE PlatformReady(t)
  <2>1. Finishes(t, cfg.env) /\ ~OfCompany BY <1>13 DEF PlatformReady, OfPlatform, OfCompany
  <2> QED BY <2>1, FinishesKeeps
<1>14. CASE WalkFails(t) BY <1>14, WalkFailsKeeps, QuietAndStill
<1> QED BY <1>1, <1>2, <1>3, <1>4, <1>5, <1>6, <1>7, <1>8, <1>9, <1>10, <1>11, <1>12, <1>13, <1>14
        DEF Provision, PlatformIds, PlatformApiKey, PlatformWebhook, ProvisionFailed, PlatformFailed

\* So do those of the configuration.
LEMMA ConfigureKeeps ==
  ASSUME SetupInv, NEW t \in Solicitudes, Configure(t)
  PROVE  SetupInv'
<1>1. ASSUME NEW que \in Todo, NEW env \in Ambientes, Put(t, que, env)
      PROVE  SetupInv'
  BY <1>1, PutKeeps, QuietAndStill
<1>2. ASSUME NEW env \in Ambientes, TakeAway(t, env)
      PROVE  SetupInv'
  BY <1>2, TakeAwayKeeps, QuietAndStill
<1>3. CASE NotePut(t) BY <1>3, NotePutKeeps, QuietAndStill
<1>4. CASE NoteTaken(t) BY <1>4, NoteTakenKeeps, QuietAndStill
<1>5. ASSUME NEW step \in {"jobs", "turning"}, EnableIf(t, cfg.env, step)
      PROVE  SetupInv'
  BY <1>5, EnableKeeps, QuietAndStill
<1>6. CASE CountJobs(t) BY <1>6, CountJobsKeeps, QuietAndStill
<1>7. CASE TurnOn(t) BY <1>7, TurnOnKeeps, QuietAndStill
<1>8. CASE Disable(t) BY <1>8, DisableKeeps, QuietAndStill
<1>9. "sol" \in Todo /\ "certificado" \in Todo BY DEF Todo
<1> QED BY <1>1, <1>2, <1>3, <1>4, <1>5, <1>6, <1>7, <1>8, <1>9
        DEF Configure, UpdateCredentials, UploadCertificate, DeleteCertificate, PlatformCredentials,
            PlatformCertificate, PlatformDeleteCertificate, Enable, PlatformEnable

\* So do those of the documents.
LEMMA DocumentsKeep ==
  ASSUME SetupInv, NEW t \in Solicitudes, Documents(t)
  PROVE  SetupInv'
<1>1. CASE DirectSale(t) BY <1>1, DirectSaleKeeps, QuietAndStill
<1>2. CASE TakeNumber(t) BY <1>2, TakeNumberKeeps, QuietKeeps DEF SetupInv
<1>3. CASE BillingSale(t) BY <1>3, BillingSaleKeeps, QuietKeeps DEF SetupInv
<1>4. CASE PostSale(t) BY <1>4, PostSaleKeeps, QuietKeeps DEF SetupInv
<1>5. CASE NoteNumber(t) BY <1>5, NoteNumberKeeps, QuietKeeps DEF SetupInv
<1> QED BY <1>1, <1>2, <1>3, <1>4, <1>5 DEF Documents

\* So do those of the files.
LEMMA FilesKeep ==
  ASSUME SetupInv, NEW t \in Solicitudes, Files(t)
  PROVE  SetupInv'
<1>1. CASE UploadFile(t) BY <1>1, UploadFileKeeps, QuietAndStill
<1>2. CASE NameFile(t) BY <1>2, NameFileKeeps, QuietAndStill
<1>3. CASE NameFailed(t) BY <1>3, NameFailedKeeps, QuietAndStill
<1>4. CASE CleanFile(t) BY <1>4, CleanFileKeeps, QuietAndStill
<1>5. CASE DeleteFile(t) BY <1>5, DeleteFileKeeps, QuietAndStill
<1>6. CASE ClearName(t) BY <1>6, ClearNameKeeps, QuietAndStill
<1> QED BY <1>1, <1>2, <1>3, <1>4, <1>5, <1>6 DEF Files

\* Every step keeps the invariant.
LEMMA SetupStep ==
  ASSUME SetupInv, [SetupNext]_setupVars
  PROVE  SetupInv'
<1>1. CASE UNCHANGED setupVars
  BY <1>1 DEF setupVars, direct, files, bounds, SetupInv, SetupTypes, SetupTypeOK, HiloTyped,
              OneTenant, WalkedSoFar, SecretInHand, SeriesFollow, Esta, OfCompany
<1>2. ASSUME NEW t \in Solicitudes, Provision(t)
      PROVE  SetupInv'
  BY <1>2, ProvisionKeeps
<1>3. ASSUME NEW t \in Solicitudes, Configure(t)
      PROVE  SetupInv'
  BY <1>3, ConfigureKeeps
<1>4. ASSUME NEW t \in Solicitudes, Documents(t)
      PROVE  SetupInv'
  BY <1>4, DocumentsKeep
<1>5. ASSUME NEW t \in Solicitudes, Files(t)
      PROVE  SetupInv'
  BY <1>5, FilesKeep
<1>6. CASE ChangeRuc BY <1>6, ChangeRucKeeps, QuietAndStill
<1>7. CASE UpdateIssuerConfig BY <1>7, UpdateIssuerConfigKeeps, QuietAndStill
<1>8. CASE JobDone BY <1>8, JobDoneKeeps, QuietAndStill
<1> QED BY <1>1, <1>2, <1>3, <1>4, <1>5, <1>6, <1>7, <1>8
        DEF SetupNext, UpdateCompany, UpdateFiscal

\* For any number of requests, walks and failures: what is kept of Billing is what Billing has.
\* A READY company has a key of its own tenant, a webhook and its series in the environment it
\* issues in until its RUC changes, and the secret kept is the one Billing signs with while walks
\* did not meet and none failed (provision and setEnabled of BillingIntegrationService and of
\* PlatformBillingIntegrationService).
THEOREM SetupIsCurrentAlways == SetupSpec => []SetupIsCurrent
<1>1. SetupInit => SetupInv BY SetupBegins
<1>2. SetupInv /\ [SetupNext]_setupVars => SetupInv' BY SetupStep
<1>3. SetupInv => SetupIsCurrent
  <2> SUFFICES ASSUME SetupInv PROVE SetupIsCurrent OBVIOUS
  <2>0. SetupTypes BY DEF SetupInv
  <2>1. ReadyIsProvisioned
    BY <2>0, Fields DEF SetupInv, OneTenant, WalkedSoFar, ReadyIsProvisioned, OfCompany
  <2>2. SecretIsCurrent
    BY <2>0, Fields DEF SetupInv, SecretInHand, SecretIsCurrent, HiloTyped, Camino
  <2> QED BY <2>1, <2>2 DEF SetupIsCurrent
<1> QED BY <1>1, <1>2, <1>3, PTL DEF SetupSpec

\* Only these two steps issue a number.
LEMMA IssuedBy ==
  ASSUME [SetupNext]_setupVars
  PROVE  usados' = usados \/ \E t \in Solicitudes : TakeNumber(t) \/ PostSale(t)
<1> USE DEF direct
<1>1. CASE UNCHANGED setupVars BY <1>1 DEF setupVars
<1>2. ASSUME NEW t \in Solicitudes, Provision(t)
      PROVE  usados' = usados
  BY <1>2 DEF Provision, ProvisionBegin, PlatformProvision, SyncConfigured, PlatformSync, Begins,
       SaveIds, EnsureApiKey, SaveApiKey, EnsureWebhook, SaveSecret, SaveSecretAs,
       EnsureFiscalSeries, Series, Ready, Finishes, ProvisionFailed, PlatformFailed, WalkFails,
       PlatformIds, PlatformApiKey, PlatformSeries, PlatformWebhook, PlatformReady
<1>3. ASSUME NEW t \in Solicitudes, Configure(t)
      PROVE  usados' = usados
  BY <1>3 DEF Configure, UpdateCredentials, UploadCertificate, DeleteCertificate, Put, TakeAway,
       PlatformCredentials, PlatformCertificate, PlatformDeleteCertificate, NotePut, NoteTaken,
       Enable, PlatformEnable, EnableIf, CountJobs, TurnOn, Disable
<1>4. ASSUME NEW t \in Solicitudes, DirectSale(t) \/ BillingSale(t) \/ NoteNumber(t)
      PROVE  usados' = usados
  BY <1>4 DEF DirectSale, BillingSale, NoteNumber
<1>5. ASSUME NEW t \in Solicitudes, Files(t)
      PROVE  usados' = usados
  BY <1>5 DEF Files, UploadFile, NameFile, NameFailed, CleanFile, DeleteFile, ClearName
<1>6. ASSUME ChangeRuc \/ UpdateIssuerConfig \/ JobDone
      PROVE  usados' = usados
  BY <1>6 DEF ChangeRuc, UpdateIssuerConfig, JobDone
<1> QED BY <1>1, <1>2, <1>3, <1>4, <1>5, <1>6
        DEF SetupNext, Documents, UpdateCompany, UpdateFiscal

\* For any number of requests: a number of the series is issued by one of the two routes only,
\* unless the direct route took it after Billing was last told where the series stands, or before
\* a document of Billing was noted (enqueueSale and postDocument, and setEnabled between them).
THEOREM NumbersAreIssuedOnce == SetupSpec => NumbersIssuedOnce
<1> DEFINE Once ==
      /\ (usados'.billing \ usados.billing) \cap usados.directo # {} => "ahead" \in viejas
      /\ (usados'.directo \ usados.directo) \cap usados.billing # {}
           => \E t \in Solicitudes : Esta(t, "noteNumber")
<1>1. SetupInit => SetupInv BY SetupBegins
<1>2. SetupInv /\ [SetupNext]_setupVars => SetupInv' BY SetupStep
<1>3. SetupInv /\ [SetupNext]_setupVars => [Once]_setupVars
  <2> SUFFICES ASSUME SetupInv, [SetupNext]_setupVars PROVE Once OBVIOUS
  <2>0. SetupTypes BY DEF SetupInv
  <2> USE <2>0, Fields
  <2>1. CASE usados' = usados BY <2>1
  <2>2. ASSUME NEW t \in Solicitudes, TakeNumber(t)
        PROVE  Once
    <3>1. usados'.directo = usados.directo \cup {serie + 1} /\ usados'.billing = usados.billing
      BY <2>2 DEF TakeNumber
    <3>2. ASSUME (usados'.directo \ usados.directo) \cap usados.billing # {}
          PROVE  \E u \in Solicitudes : Esta(u, "noteNumber")
      <4>1. serie + 1 \in usados.billing BY <3>1, <3>2
      <4> QED BY <4>1 DEF SetupInv, SeriesFollow
    <3>3. usados'.billing \ usados.billing = {} BY <3>1
    <3> QED BY <3>2, <3>3
  <2>3. ASSUME NEW t \in Solicitudes, PostSale(t)
        PROVE  Once
    <3>1. PICK m : m = enBilling'.numero["PRODUCTION"] OBVIOUS
    <3>2. m = enBilling.numero["PRODUCTION"] + 1
      <4>1. enBilling' = [enBilling EXCEPT !.numero["PRODUCTION"] = @ + 1] BY <2>3 DEF PostSale
      <4> QED BY <4>1, <3>1 DEF EstablecimientoRows, Ambientes
    <3>3. usados'.billing = usados.billing \cup {m} /\ usados'.directo = usados.directo
      BY <2>3, <3>1 DEF PostSale
    <3>4. "PRODUCTION" \in cfg.series BY <2>3 DEF PostSale, SetupInv, SeriesFollow
    <3>5. ASSUME "ahead" \notin viejas, m \in usados.directo
          PROVE  FALSE
      <4>1. m <= enBilling.numero["PRODUCTION"] /\ enBilling.numero["PRODUCTION"] \in Nat
        BY <3>4, <3>5 DEF SetupInv, SeriesFollow, Ambientes
      <4> QED BY <4>1, <3>2
    <3> QED BY <3>3, <3>5
  <2> QED BY <2>1, <2>2, <2>3, IssuedBy
<1> QED BY <1>1, <1>2, <1>3, PTL DEF SetupSpec, NumbersIssuedOnce

----------------------------------------
(* What the platform sells: the invariant.                                 *)

PlanRows   == [codigo : Planes \cup {"prueba"}, inicio : Nat, fin : Nat]
AddonRows  == [activa : BOOLEAN, limite : Nat, fin : Nat]
PagoRows   == [anterior : PlanRows, resultante : PlanRows, estado : {"pagado", "anulado"}]
SuscRows   == [anterior : AddonRows, resultante : AddonRows, estado : {"activa", "cancelada"}]
ReceiptRows ==
  [tipo : Tipos, pago : Nat, asistencia : Nat, excedente : BOOLEAN, cobro : {"no", "pagado", "anulado"},
   baja : BOOLEAN, nota : BOOLEAN, reabierto : BOOLEAN,
   estado : {"pendiente", "aceptado", "rechazado", "error", "anulacion_pendiente", "anulado",
             "ninguno", "abierto", "fallido"}]
SalesTypes ==
  /\ mes \in Nat /\ ajustes \in Nat
  /\ empresa \in [plan : PlanRows, asistencia : AddonRows]
  /\ pagos \in Seq(PagoRows) /\ asistencias \in Seq(SuscRows)
  /\ comprobantes \in Seq(ReceiptRows)

\* Each payment that stands replaced what the one before it that stands had bought.
PlansChained ==
  /\ \A i \in DOMAIN pagos : pagos[i].resultante.codigo # "prueba"
  /\ \A i \in Pagados :
       /\ (\A j \in Pagados : i <= j) => pagos[i].anterior.codigo = "prueba"
       /\ \A j \in Pagados :
            j < i /\ (\A k \in Pagados : k < i => k <= j) => pagos[i].anterior = pagos[j].resultante
AddonsChained ==
  ajustes = 0 =>
    \A i \in Activas :
      /\ (\A j \in Activas : i <= j) => asistencias[i].anterior = SinAsistencia
      /\ \A j \in Activas :
           j < i /\ (\A k \in Activas : k < i => k <= j)
             => asistencias[i].anterior = asistencias[j].resultante
\* A receipt is for something, and no other receipt is for the same.
ReceiptsOwn ==
  /\ \A c \in DOMAIN comprobantes :
       LET r == comprobantes[c]
       IN  /\ r.pago <= Len(pagos) /\ r.asistencia <= Len(asistencias)
           /\ r.pago # 0 \/ r.asistencia # 0 \/ r.excedente \/ r.cobro # "no"
  /\ \A c, d \in DOMAIN comprobantes :
       c # d =>
         /\ comprobantes[c].pago # 0 => comprobantes[d].pago # comprobantes[c].pago
         /\ comprobantes[c].asistencia # 0 => comprobantes[d].asistencia # comprobantes[c].asistencia
         /\ ~(comprobantes[c].excedente /\ comprobantes[d].excedente)

SalesInv ==
  /\ SalesTypes /\ CompanyFollowsSales /\ PlansChained /\ AddonsChained
  /\ ReceiptsOwn /\ ReceiptsFollowSources

PlanFollows ==
  IF Pagados = {} THEN empresa.plan.codigo = "prueba"
  ELSE \A i \in Pagados : Ultimo(Pagados, i) => empresa.plan = pagos[i].resultante
AddonFollows ==
  ajustes = 0 =>
    IF Activas = {} THEN empresa.asistencia = SinAsistencia
    ELSE \A i \in Activas : Ultimo(Activas, i) => empresa.asistencia = asistencias[i].resultante
Stands(c) ==
  /\ comprobantes[c].pago # 0 => pagos[comprobantes[c].pago].estado = "pagado"
  /\ comprobantes[c].asistencia # 0 => asistencias[comprobantes[c].asistencia].estado = "activa"
  /\ comprobantes[c].excedente => excedente = "pagado"
  /\ comprobantes[c].cobro # "anulado"
Follows(c) ==
  /\ ~(comprobantes[c].pago # 0 /\ comprobantes[c].asistencia # 0) =>
        (comprobantes[c].estado = "anulado" => ~Stands(c))
  /\ comprobantes[c].asistencia = 0 /\ ~comprobantes[c].reabierto =>
        (~Stands(c) => comprobantes[c].estado = "anulado")

\* The two properties, part by part.
LEMMA SalesParts ==
  /\ CompanyFollowsSales <=> PlanFollows /\ AddonFollows
  /\ ReceiptsFollowSources <=> \A c \in DOMAIN comprobantes : Follows(c)
<1>1. CompanyFollowsSales <=> PlanFollows /\ AddonFollows
  BY DEF CompanyFollowsSales, PlanFollows, AddonFollows
<1>2. ReceiptsFollowSources <=> \A c \in DOMAIN comprobantes : Follows(c)
  BY DEF ReceiptsFollowSources, Follows, Stands, SourceStands
<1> QED BY <1>1, <1>2

----------------------------------------
\* A plan that is bought follows the last one that stands.
LEMMA PlanSold ==
  ASSUME SalesInv, NEW codigo \in Planes, SellPlan(codigo), empresa'.plan = Last(pagos').resultante
  PROVE  /\ pagos' \in Seq(PagoRows) /\ Len(pagos') = Len(pagos) + 1
         /\ \A i \in DOMAIN pagos : pagos'[i] = pagos[i]
         /\ pagos'[Len(pagos) + 1].estado = "pagado"
         /\ empresa'.plan \in PlanRows
         /\ PlansChained' /\ PlanFollows'
<1>1. /\ pagos \in Seq(PagoRows) /\ mes \in Nat
      /\ empresa.plan \in PlanRows /\ empresa.plan.inicio \in Nat /\ empresa.plan.fin \in Nat
  BY DEF SalesInv, SalesTypes, PlanRows
<1>2. PICK v : v = PlanResultante(codigo) OBVIOUS
<1>3. v \in PlanRows BY <1>1, <1>2 DEF PlanResultante, PlanRows
<1>4. v.codigo = codigo /\ codigo # "prueba" BY <1>2, SubscriptionsAssumption DEF PlanResultante
<1>5. PICK p : p = [anterior |-> empresa.plan, resultante |-> v, estado |-> "pagado"] OBVIOUS
<1>6. p \in PagoRows BY <1>1, <1>3, <1>5 DEF PagoRows
<1>7. p.anterior = empresa.plan /\ p.resultante = v /\ p.estado = "pagado" BY <1>5
<1>8. pagos' = Append(pagos, p) BY <1>2, <1>5 DEF SellPlan
<1>9. PICK n \in Nat : n = Len(pagos) + 1 BY <1>1
<1>10. /\ pagos' \in Seq(PagoRows) /\ Len(pagos') = n /\ DOMAIN pagos' = 1..n /\ DOMAIN pagos = 1..(n - 1)
       /\ pagos'[n] = p /\ \A i \in DOMAIN pagos : pagos'[i] = pagos[i]
  BY <1>1, <1>6, <1>8, <1>9
<1>11. empresa'.plan = v BY <1>7, <1>9, <1>10 DEF Last
<1>12. Pagados' = Pagados \cup {n} /\ \A i \in Pagados : i \in DOMAIN pagos /\ i \in Nat /\ i < n
  BY <1>7, <1>9, <1>10 DEF Pagados, Vigentes
<1>13. PlanFollows'
  <2>1. Pagados' # {} /\ n \in Pagados' BY <1>12
  <2>2. \A i \in Pagados' : Ultimo(Pagados', i) => i = n BY <1>12, <1>9 DEF Ultimo
  <2>3. \A i \in Pagados' : Ultimo(Pagados', i) => empresa'.plan = pagos'[i].resultante
    BY <2>2, <1>7, <1>10, <1>11
  <2> QED BY <2>1, <2>3 DEF PlanFollows, Ultimo
<1>14. \A i \in DOMAIN pagos' : pagos'[i].resultante.codigo # "prueba"
  BY <1>4, <1>7, <1>9, <1>10 DEF SalesInv, PlansChained
<1>15. ASSUME NEW i \in Pagados', \A j \in Pagados' : i <= j
       PROVE  pagos'[i].anterior.codigo = "prueba"
  <2>1. CASE i = n
    <3>1. ASSUME NEW k \in Pagados PROVE FALSE
      <4>1. k \in Pagados' /\ k \in Nat /\ k < n BY <3>1, <1>12
      <4>2. i <= k BY <4>1, <1>15
      <4> QED BY <4>1, <4>2, <2>1
    <3>2. Pagados = {} BY <3>1
    <3> QED BY <3>2, <2>1, <1>7, <1>10, SalesParts DEF SalesInv, PlanFollows
  <2>2. CASE i # n BY <2>2, <1>10, <1>12, <1>15 DEF SalesInv, PlansChained
  <2> QED BY <2>1, <2>2
<1>16. ASSUME NEW i \in Pagados', NEW j \in Pagados', j < i, \A k \in Pagados' : k < i => k <= j
       PROVE  pagos'[i].anterior = pagos'[j].resultante
  <2>1. CASE i = n
    <3>1. j \in Pagados /\ Ultimo(Pagados, j) /\ Pagados # {} BY <2>1, <1>12, <1>16, <1>9 DEF Ultimo
    <3>2. empresa.plan = pagos[j].resultante BY <3>1, SalesParts DEF SalesInv, PlanFollows
    <3> QED BY <3>1, <3>2, <2>1, <1>7, <1>10, <1>12
  <2>2. CASE i # n
    <3>1. i \in Pagados /\ j \in Pagados /\ \A k \in Pagados : k < i => k <= j
      BY <2>2, <1>12, <1>16, <1>9
    <3>2. pagos[i].anterior = pagos[j].resultante BY <3>1, <1>16 DEF SalesInv, PlansChained
    <3> QED BY <3>1, <3>2, <1>10, <1>12
  <2> QED BY <2>1, <2>2
<1>17. PlansChained' BY <1>14, <1>15, <1>16 DEF PlansChained
<1> QED BY <1>1, <1>3, <1>7, <1>9, <1>10, <1>11, <1>13, <1>17

\* What sells no plan and annuls none keeps the chain of the plans.
LEMMA PlanKept ==
  ASSUME SalesInv, pagos' = pagos, empresa'.plan = empresa.plan
  PROVE  PlansChained' /\ PlanFollows'
<1>1. Pagados' = Pagados BY DEF Pagados, Vigentes
<1>2. PlanFollows BY SalesParts DEF SalesInv
<1> QED BY <1>1, <1>2 DEF SalesInv, PlansChained, PlanFollows, Ultimo

\* The last payment that stands is annulled: what it replaced was bought by the one before.
LEMMA PlanAnnulled ==
  ASSUME SalesInv, NEW i \in DOMAIN pagos, Ultimo(Pagados, i), AnnulPayment(i),
         empresa'.plan = pagos[i].anterior
  PROVE  /\ pagos' \in Seq(PagoRows) /\ Len(pagos') = Len(pagos)
         /\ pagos'[i].estado = "anulado" /\ \A k \in DOMAIN pagos : k # i => pagos'[k] = pagos[k]
         /\ empresa'.plan \in PlanRows
         /\ PlansChained' /\ PlanFollows'
<1>1. pagos \in Seq(PagoRows) BY DEF SalesInv, SalesTypes
<1>2. pagos[i] \in PagoRows BY <1>1
<1>3. PICK p : p = [pagos[i] EXCEPT !.estado = "anulado"] OBVIOUS
<1>4. p \in PagoRows BY <1>2, <1>3 DEF PagoRows
<1>5. p.estado = "anulado" /\ p.anterior = pagos[i].anterior /\ p.resultante = pagos[i].resultante
  BY <1>2, <1>3 DEF PagoRows
<1>6. pagos' = [pagos EXCEPT ![i] = p] BY <1>3 DEF AnnulPayment
<1>7. /\ pagos' \in Seq(PagoRows) /\ Len(pagos') = Len(pagos) /\ DOMAIN pagos' = DOMAIN pagos
      /\ pagos'[i] = p /\ \A k \in DOMAIN pagos : k # i => pagos'[k] = pagos[k]
  BY <1>1, <1>4, <1>6
<1>8. Pagados' = Pagados \ {i} /\ \A k \in Pagados : k \in DOMAIN pagos /\ k \in Nat
  BY <1>1, <1>5, <1>7 DEF Pagados, Vigentes
<1>9. i \in Pagados /\ \A k \in Pagados : k <= i BY DEF Ultimo
<1>10. \A k \in DOMAIN pagos : /\ pagos'[k].anterior = pagos[k].anterior
                               /\ pagos'[k].resultante = pagos[k].resultante
  BY <1>5, <1>7
<1>11. PlanFollows'
  <2>1. CASE Pagados' = {}
    <3>1. \A j \in Pagados : i <= j BY <2>1, <1>8
    <3>2. pagos[i].anterior.codigo = "prueba" BY <3>1, <1>9 DEF SalesInv, PlansChained
    <3> QED BY <3>2, <2>1 DEF PlanFollows
  <2>2. CASE Pagados' # {}
    <3>1. ASSUME NEW j \in Pagados', \A k \in Pagados' : k <= j
          PROVE  empresa'.plan = pagos'[j].resultante
      <4>1. j \in Pagados /\ j < i /\ \A k \in Pagados : k < i => k <= j BY <3>1, <1>8, <1>9
      <4>2. pagos[i].anterior = pagos[j].resultante BY <4>1, <1>9 DEF SalesInv, PlansChained
      <4> QED BY <4>1, <4>2, <1>8, <1>10
    <3> QED BY <3>1, <2>2 DEF PlanFollows, Ultimo
  <2> QED BY <2>1, <2>2
<1>12. \A k \in DOMAIN pagos' : pagos'[k].resultante.codigo # "prueba"
  BY <1>7, <1>10 DEF SalesInv, PlansChained
<1>13. ASSUME NEW k \in Pagados', \A j \in Pagados' : k <= j
       PROVE  pagos'[k].anterior.codigo = "prueba"
  <2>1. k \in Pagados /\ \A j \in Pagados : k <= j BY <1>8, <1>9, <1>13
  <2> QED BY <2>1, <1>8, <1>10 DEF SalesInv, PlansChained
<1>14. ASSUME NEW k \in Pagados', NEW j \in Pagados', j < k, \A l \in Pagados' : l < k => l <= j
       PROVE  pagos'[k].anterior = pagos'[j].resultante
  <2>1. k \in Pagados /\ j \in Pagados /\ \A l \in Pagados : l < k => l <= j BY <1>8, <1>9, <1>14
  <2>2. pagos[k].anterior = pagos[j].resultante BY <2>1, <1>14 DEF SalesInv, PlansChained
  <2> QED BY <2>1, <2>2, <1>8, <1>10
<1>15. PlansChained' BY <1>12, <1>13, <1>14 DEF PlansChained
<1>16. empresa'.plan \in PlanRows BY <1>2 DEF PagoRows
<1> QED BY <1>5, <1>7, <1>11, <1>15, <1>16

----------------------------------------
\* A subscription of Asistencias likewise, as long as nobody changes it by hand.
LEMMA AddonSold ==
  ASSUME SalesInv, NEW limite \in Nat, SellAttendance(limite), ajustes' = ajustes,
         empresa'.asistencia = Last(asistencias').resultante
  PROVE  /\ asistencias' \in Seq(SuscRows) /\ Len(asistencias') = Len(asistencias) + 1
         /\ \A i \in DOMAIN asistencias : asistencias'[i] = asistencias[i]
         /\ asistencias'[Len(asistencias) + 1].estado = "activa"
         /\ empresa'.asistencia \in AddonRows
         /\ AddonsChained' /\ AddonFollows'
<1>1. asistencias \in Seq(SuscRows) /\ mes \in Nat /\ empresa.asistencia \in AddonRows
  BY DEF SalesInv, SalesTypes
<1>2. PICK v : v = [activa |-> TRUE, limite |-> limite, fin |-> mes + 1] OBVIOUS
<1>3. v \in AddonRows BY <1>1, <1>2 DEF AddonRows
<1>5. PICK p : p = [anterior |-> empresa.asistencia, resultante |-> v, estado |-> "activa"] OBVIOUS
<1>6. p \in SuscRows BY <1>1, <1>3, <1>5 DEF SuscRows
<1>7. p.anterior = empresa.asistencia /\ p.resultante = v /\ p.estado = "activa" BY <1>5
<1>8. asistencias' = Append(asistencias, p) BY <1>2, <1>5 DEF SellAttendance
<1>9. PICK n \in Nat : n = Len(asistencias) + 1 BY <1>1
<1>10. /\ asistencias' \in Seq(SuscRows) /\ Len(asistencias') = n
       /\ DOMAIN asistencias' = 1..n /\ DOMAIN asistencias = 1..(n - 1)
       /\ asistencias'[n] = p /\ \A i \in DOMAIN asistencias : asistencias'[i] = asistencias[i]
  BY <1>1, <1>6, <1>8, <1>9
<1>11. empresa'.asistencia = v BY <1>7, <1>9, <1>10 DEF Last
<1>12. Activas' = Activas \cup {n} /\ \A i \in Activas : i \in DOMAIN asistencias /\ i \in Nat /\ i < n
  BY <1>7, <1>9, <1>10 DEF Activas, Vigentes
<1>13. AddonFollows'
  <2>1. Activas' # {} /\ n \in Activas' BY <1>12
  <2>2. \A i \in Activas' : Ultimo(Activas', i) => i = n BY <1>12, <1>9 DEF Ultimo
  <2>3. \A i \in Activas' : Ultimo(Activas', i) => empresa'.asistencia = asistencias'[i].resultante
    BY <2>2, <1>7, <1>10, <1>11
  <2> QED BY <2>1, <2>3 DEF AddonFollows, Ultimo
<1>15. ASSUME ajustes' = 0, NEW i \in Activas', \A j \in Activas' : i <= j
       PROVE  asistencias'[i].anterior = SinAsistencia
  <2>1. CASE i = n
    <3>1. Activas = {} BY <2>1, <1>12, <1>15
    <3> QED BY <3>1, <2>1, <1>7, <1>10, <1>15, SalesParts DEF SalesInv, AddonFollows
  <2>2. CASE i # n BY <2>2, <1>10, <1>12, <1>15 DEF SalesInv, AddonsChained
  <2> QED BY <2>1, <2>2
<1>16. ASSUME ajustes' = 0, NEW i \in Activas', NEW j \in Activas', j < i,
              \A k \in Activas' : k < i => k <= j
       PROVE  asistencias'[i].anterior = asistencias'[j].resultante
  <2>1. CASE i = n
    <3>1. j \in Activas /\ Ultimo(Activas, j) /\ Activas # {} BY <2>1, <1>12, <1>16, <1>9 DEF Ultimo
    <3>2. empresa.asistencia = asistencias[j].resultante
      BY <3>1, <1>16, SalesParts DEF SalesInv, AddonFollows
    <3> QED BY <3>1, <3>2, <2>1, <1>7, <1>10, <1>12
  <2>2. CASE i # n
    <3>1. i \in Activas /\ j \in Activas /\ \A k \in Activas : k < i => k <= j
      BY <2>2, <1>12, <1>16, <1>9
    <3>2. asistencias[i].anterior = asistencias[j].resultante
      BY <3>1, <1>16 DEF SalesInv, AddonsChained
    <3> QED BY <3>1, <3>2, <1>10, <1>12
  <2> QED BY <2>1, <2>2
<1>17. AddonsChained' BY <1>15, <1>16 DEF AddonsChained
<1> QED BY <1>1, <1>3, <1>7, <1>9, <1>10, <1>11, <1>13, <1>17

\* What sells no Asistencias and annuls none keeps the chain of Asistencias.
LEMMA AddonKept ==
  ASSUME SalesInv, asistencias' = asistencias,
         ajustes' = 0 => ajustes = 0 /\ empresa'.asistencia = empresa.asistencia
  PROVE  AddonsChained' /\ AddonFollows'
<1>1. Activas' = Activas BY DEF Activas, Vigentes
<1>2. AddonFollows BY SalesParts DEF SalesInv
<1> QED BY <1>1, <1>2 DEF SalesInv, AddonsChained, AddonFollows, Ultimo

\* The last subscription that is active is cancelled.
LEMMA AddonAnnulled ==
  ASSUME SalesInv, NEW i \in DOMAIN asistencias, Ultimo(Activas, i), CancelAttendance(i),
         ajustes' = ajustes, empresa'.asistencia = asistencias[i].anterior
  PROVE  /\ asistencias' \in Seq(SuscRows) /\ Len(asistencias') = Len(asistencias)
         /\ asistencias'[i].estado = "cancelada"
         /\ \A k \in DOMAIN asistencias : k # i => asistencias'[k] = asistencias[k]
         /\ empresa'.asistencia \in AddonRows
         /\ AddonsChained' /\ AddonFollows'
<1>1. asistencias \in Seq(SuscRows) BY DEF SalesInv, SalesTypes
<1>2. asistencias[i] \in SuscRows BY <1>1
<1>3. PICK p : p = [asistencias[i] EXCEPT !.estado = "cancelada"] OBVIOUS
<1>4. p \in SuscRows BY <1>2, <1>3 DEF SuscRows
<1>5. p.estado = "cancelada" /\ p.anterior = asistencias[i].anterior /\ p.resultante = asistencias[i].resultante
  BY <1>2, <1>3 DEF SuscRows
<1>6. asistencias' = [asistencias EXCEPT ![i] = p] BY <1>3 DEF CancelAttendance
<1>7. /\ asistencias' \in Seq(SuscRows) /\ Len(asistencias') = Len(asistencias)
      /\ DOMAIN asistencias' = DOMAIN asistencias /\ asistencias'[i] = p
      /\ \A k \in DOMAIN asistencias : k # i => asistencias'[k] = asistencias[k]
  BY <1>1, <1>4, <1>6
<1>8. Activas' = Activas \ {i} /\ \A k \in Activas : k \in DOMAIN asistencias /\ k \in Nat
  BY <1>1, <1>5, <1>7 DEF Activas, Vigentes
<1>9. i \in Activas /\ \A k \in Activas : k <= i BY DEF Ultimo
<1>10. \A k \in DOMAIN asistencias : /\ asistencias'[k].anterior = asistencias[k].anterior
                                     /\ asistencias'[k].resultante = asistencias[k].resultante
  BY <1>5, <1>7
<1>11. AddonFollows'
  <2> SUFFICES ASSUME ajustes' = 0
               PROVE  IF Activas' = {} THEN empresa'.asistencia = SinAsistencia
                      ELSE \A j \in Activas' : (j \in Activas' /\ \A k \in Activas' : k <= j)
                             => empresa'.asistencia = asistencias'[j].resultante
    BY DEF AddonFollows, Ultimo, SinAsistencia
  <2>1. CASE Activas' = {}
    <3>1. \A j \in Activas : i <= j BY <2>1, <1>8
    <3>2. asistencias[i].anterior = SinAsistencia BY <3>1, <1>9 DEF SalesInv, AddonsChained
    <3> QED BY <3>2, <2>1
  <2>2. CASE Activas' # {}
    <3>1. ASSUME NEW j \in Activas', \A k \in Activas' : k <= j
          PROVE  empresa'.asistencia = asistencias'[j].resultante
      <4>1. j \in Activas /\ j < i /\ \A k \in Activas : k < i => k <= j BY <3>1, <1>8, <1>9
      <4>2. asistencias[i].anterior = asistencias[j].resultante
        BY <4>1, <1>9 DEF SalesInv, AddonsChained
      <4> QED BY <4>1, <4>2, <1>8, <1>10
    <3> QED BY <3>1, <2>2
  <2> QED BY <2>1, <2>2
<1>13. ASSUME ajustes' = 0, NEW k \in Activas', \A j \in Activas' : k <= j
       PROVE  asistencias'[k].anterior = SinAsistencia
  <2>1. k \in Activas /\ \A j \in Activas : k <= j BY <1>8, <1>9, <1>13
  <2> QED BY <2>1, <1>8, <1>10, <1>13 DEF SalesInv, AddonsChained
<1>14. ASSUME ajustes' = 0, NEW k \in Activas', NEW j \in Activas', j < k,
              \A l \in Activas' : l < k => l <= j
       PROVE  asistencias'[k].anterior = asistencias'[j].resultante
  <2>1. k \in Activas /\ j \in Activas /\ \A l \in Activas : l < k => l <= j BY <1>8, <1>9, <1>14
  <2>2. asistencias[k].anterior = asistencias[j].resultante
    BY <2>1, <1>14 DEF SalesInv, AddonsChained
  <2> QED BY <2>1, <2>2, <1>8, <1>10
<1>15. AddonsChained' BY <1>13, <1>14 DEF AddonsChained
<1>16. empresa'.asistencia \in AddonRows BY <1>2 DEF SuscRows
<1> QED BY <1>5, <1>7, <1>11, <1>15, <1>16

----------------------------------------
(* Receipts.                                                               *)

\* A new receipt, for what was just sold.
LEMMA ReceiptAdded ==
  ASSUME SalesInv, NEW r \in ReceiptRows, comprobantes' = Append(comprobantes, r),
         pagos' \in Seq(PagoRows), asistencias' \in Seq(SuscRows),
         Len(pagos') >= Len(pagos), \A i \in DOMAIN pagos : pagos'[i] = pagos[i],
         Len(asistencias') >= Len(asistencias),
         \A i \in DOMAIN asistencias : asistencias'[i] = asistencias[i],
         excedente' = excedente \/ \A c \in DOMAIN comprobantes : ~comprobantes[c].excedente,
         r.pago # 0 => r.pago = Len(pagos') /\ r.pago > Len(pagos) /\ pagos'[r.pago].estado = "pagado",
         r.asistencia # 0 => /\ r.asistencia = Len(asistencias') /\ r.asistencia > Len(asistencias)
                             /\ asistencias'[r.asistencia].estado = "activa",
         r.excedente => excedente' = "pagado" /\ \A c \in DOMAIN comprobantes : ~comprobantes[c].excedente,
         r.pago # 0 \/ r.asistencia # 0 \/ r.excedente \/ r.cobro # "no",
         r.cobro # "anulado", r.estado # "anulado"
  PROVE  comprobantes' \in Seq(ReceiptRows) /\ ReceiptsOwn' /\ ReceiptsFollowSources'
<1>1. /\ comprobantes \in Seq(ReceiptRows) /\ pagos \in Seq(PagoRows)
      /\ asistencias \in Seq(SuscRows)
  BY DEF SalesInv, SalesTypes
<1>2. PICK n \in Nat : n = Len(comprobantes) + 1 BY <1>1
<1>3. /\ comprobantes' \in Seq(ReceiptRows) /\ DOMAIN comprobantes' = 1..n
      /\ DOMAIN comprobantes = 1..(n - 1) /\ comprobantes'[n] = r
      /\ \A c \in DOMAIN comprobantes : comprobantes'[c] = comprobantes[c]
  BY <1>1, <1>2
<1>4. \A c \in DOMAIN comprobantes :
        /\ comprobantes[c] \in ReceiptRows
        /\ comprobantes[c].pago \in Nat /\ comprobantes[c].asistencia \in Nat
        /\ comprobantes[c].pago <= Len(pagos) /\ comprobantes[c].asistencia <= Len(asistencias)
  <2>1. \A c \in DOMAIN comprobantes : comprobantes[c] \in ReceiptRows BY <1>1
  <2> QED BY <2>1 DEF SalesInv, ReceiptsOwn, ReceiptRows
<1>5. r.pago \in Nat /\ r.asistencia \in Nat BY DEF ReceiptRows
<1>6. Len(pagos) \in Nat /\ Len(pagos') \in Nat /\ Len(asistencias) \in Nat /\ Len(asistencias') \in Nat
  BY <1>1
<1>7. ReceiptsOwn'
  <2>1. ASSUME NEW c \in DOMAIN comprobantes'
        PROVE  /\ comprobantes'[c].pago <= Len(pagos') /\ comprobantes'[c].asistencia <= Len(asistencias')
               /\ \/ comprobantes'[c].pago # 0 \/ comprobantes'[c].asistencia # 0
                  \/ comprobantes'[c].excedente \/ comprobantes'[c].cobro # "no"
    <3>1. CASE c = n BY <3>1, <1>3, <1>5, <1>6
    <3>2. CASE c # n
      <4>1. c \in DOMAIN comprobantes /\ comprobantes'[c] = comprobantes[c] BY <3>2, <1>2, <1>3
      <4> QED BY <4>1, <1>4, <1>6 DEF SalesInv, ReceiptsOwn
    <3> QED BY <3>1, <3>2
  <2>2. ASSUME NEW c \in DOMAIN comprobantes', NEW d \in DOMAIN comprobantes', c # d
        PROVE  /\ comprobantes'[c].pago # 0 => comprobantes'[d].pago # comprobantes'[c].pago
               /\ comprobantes'[c].asistencia # 0
                    => comprobantes'[d].asistencia # comprobantes'[c].asistencia
               /\ ~(comprobantes'[c].excedente /\ comprobantes'[d].excedente)
    <3>1. CASE c = n
      <4>1. d \in DOMAIN comprobantes /\ comprobantes'[d] = comprobantes[d]
        BY <3>1, <2>2, <1>2, <1>3
      <4> QED BY <4>1, <3>1, <1>3, <1>4, <1>5, <1>6
    <3>2. CASE d = n
      <4>1. c \in DOMAIN comprobantes /\ comprobantes'[c] = comprobantes[c]
        BY <3>2, <2>2, <1>2, <1>3
      <4> QED BY <4>1, <3>2, <1>3, <1>4, <1>5, <1>6
    <3>3. CASE c # n /\ d # n
      <4>1. /\ c \in DOMAIN comprobantes /\ comprobantes'[c] = comprobantes[c]
            /\ d \in DOMAIN comprobantes /\ comprobantes'[d] = comprobantes[d]
        BY <3>3, <1>2, <1>3
      <4> QED BY <4>1, <2>2 DEF SalesInv, ReceiptsOwn
    <3> QED BY <3>1, <3>2, <3>3
  <2> QED BY <2>1, <2>2 DEF ReceiptsOwn
<1>8. ASSUME NEW c \in DOMAIN comprobantes'
      PROVE  Follows(c)'
  <2>1. CASE c = n
    <3>1. Stands(c)' BY <2>1, <1>3 DEF Stands
    <3> QED BY <3>1, <2>1, <1>3 DEF Follows
  <2>2. CASE c # n
    <3>1. c \in DOMAIN comprobantes /\ comprobantes'[c] = comprobantes[c] BY <2>2, <1>2, <1>3
    <3>2. /\ comprobantes[c].pago # 0 => pagos'[comprobantes[c].pago] = pagos[comprobantes[c].pago]
          /\ comprobantes[c].asistencia # 0 =>
               asistencias'[comprobantes[c].asistencia] = asistencias[comprobantes[c].asistencia]
          /\ comprobantes[c].excedente => excedente' = excedente
      BY <3>1, <1>1, <1>4
    <3>3. Stands(c)' <=> Stands(c) BY <3>1, <3>2 DEF Stands
    <3>4. Follows(c) BY <3>1, SalesParts DEF SalesInv
    <3> QED BY <3>1, <3>3, <3>4 DEF Follows
  <2> QED BY <2>1, <2>2
<1>9. ReceiptsFollowSources' BY <1>8 DEF ReceiptsFollowSources, Follows, Stands, SourceStands
<1> QED BY <1>3, <1>7, <1>9

\* What makes no receipt and takes none away keeps whose they are.
LEMMA ReceiptsKept ==
  ASSUME SalesInv, comprobantes' = comprobantes, Len(pagos') >= Len(pagos),
         Len(asistencias') >= Len(asistencias),
         pagos' \in Seq(PagoRows), asistencias' \in Seq(SuscRows)
  PROVE  ReceiptsOwn'
<1>1. /\ comprobantes \in Seq(ReceiptRows) /\ pagos \in Seq(PagoRows)
      /\ asistencias \in Seq(SuscRows)
  BY DEF SalesInv, SalesTypes
<1>2. Len(pagos) \in Nat /\ Len(pagos') \in Nat /\ Len(asistencias) \in Nat /\ Len(asistencias') \in Nat
  BY <1>1
<1>3. \A c \in DOMAIN comprobantes : comprobantes[c].pago \in Nat /\ comprobantes[c].asistencia \in Nat
  <2>1. \A c \in DOMAIN comprobantes : comprobantes[c] \in ReceiptRows BY <1>1
  <2> QED BY <2>1 DEF ReceiptRows
<1> QED BY <1>2, <1>3 DEF SalesInv, ReceiptsOwn

\* A step that changes the state of receipts changes nothing of what they are for.
SameReceipts ==
  /\ comprobantes' \in Seq(ReceiptRows) /\ DOMAIN comprobantes' = DOMAIN comprobantes
  /\ Len(pagos') = Len(pagos) /\ Len(asistencias') = Len(asistencias)
  /\ \A c \in DOMAIN comprobantes :
       /\ comprobantes'[c].pago = comprobantes[c].pago
       /\ comprobantes'[c].asistencia = comprobantes[c].asistencia
       /\ comprobantes'[c].excedente = comprobantes[c].excedente
       /\ comprobantes'[c].cobro # "no" <=> comprobantes[c].cobro # "no"

\* So does what keeps what each receipt is for.
LEMMA SameReceiptsOwn ==
  ASSUME SalesInv, SameReceipts
  PROVE  ReceiptsOwn'
BY DEF SalesInv, ReceiptsOwn, SameReceipts

----------------------------------------
\* The types of the rows, as the other proofs use them.
LEMMA Rows ==
  ASSUME SalesInv
  PROVE  /\ mes \in Nat /\ ajustes \in Nat
         /\ empresa \in [plan : PlanRows, asistencia : AddonRows]
         /\ empresa.plan \in PlanRows /\ empresa.asistencia \in AddonRows
         /\ pagos \in Seq(PagoRows) /\ asistencias \in Seq(SuscRows)
         /\ comprobantes \in Seq(ReceiptRows)
         /\ Len(pagos) \in Nat /\ Len(asistencias) \in Nat
         /\ \A c \in DOMAIN comprobantes :
              /\ comprobantes[c] \in ReceiptRows
              /\ comprobantes[c].pago \in 0..Len(pagos)
              /\ comprobantes[c].asistencia \in 0..Len(asistencias)
              /\ Follows(c)
<1>1. /\ mes \in Nat /\ ajustes \in Nat
      /\ empresa \in [plan : PlanRows, asistencia : AddonRows]
      /\ pagos \in Seq(PagoRows) /\ asistencias \in Seq(SuscRows)
      /\ comprobantes \in Seq(ReceiptRows)
  BY DEF SalesInv, SalesTypes
<1>2. Len(pagos) \in Nat /\ Len(asistencias) \in Nat BY <1>1
<1>3. \A c \in DOMAIN comprobantes : comprobantes[c] \in ReceiptRows BY <1>1
<1>4. \A c \in DOMAIN comprobantes :
        /\ comprobantes[c].pago \in 0..Len(pagos)
        /\ comprobantes[c].asistencia \in 0..Len(asistencias)
  BY <1>2, <1>3 DEF SalesInv, ReceiptsOwn, ReceiptRows
<1>5. \A c \in DOMAIN comprobantes : Follows(c) BY SalesParts DEF SalesInv
<1> QED BY <1>1, <1>2, <1>3, <1>4, <1>5

\* The invariant is what the lemmas above give.
LEMMA SalesFromParts ==
  ASSUME mes' \in Nat, ajustes' \in Nat,
         empresa' \in [plan : PlanRows, asistencia : AddonRows],
         pagos' \in Seq(PagoRows), asistencias' \in Seq(SuscRows), comprobantes' \in Seq(ReceiptRows),
         PlansChained', PlanFollows', AddonsChained', AddonFollows', ReceiptsOwn',
         ReceiptsFollowSources'
  PROVE  SalesInv'
<1>1. CompanyFollowsSales' BY DEF CompanyFollowsSales, PlanFollows, AddonFollows
<1> QED BY <1>1 DEF SalesInv, SalesTypes

\* Receipts that follow their sources one by one all do.
LEMMA FollowAgain ==
  ASSUME \A c \in DOMAIN comprobantes' : Follows(c)'
  PROVE  ReceiptsFollowSources'
BY DEF ReceiptsFollowSources, Follows, Stands, SourceStands

\* A checkout, without the affiliate.
Checkout(pos, asiste, tipo) ==
  /\ pos # {} \/ asiste # {}
  /\ IF pos = {} THEN pagos' = pagos ELSE \E codigo \in pos : SellPlan(codigo)
  /\ IF asiste = {} THEN asistencias' = asistencias ELSE \E limite \in asiste : SellAttendance(limite)
  /\ empresa' = [plan |-> IF pos = {} THEN empresa.plan ELSE Last(pagos').resultante,
                 asistencia |-> IF asiste = {} THEN empresa.asistencia
                                ELSE Last(asistencias').resultante]
  /\ comprobantes' = Append(comprobantes,
       Comprobante(tipo, Part(pos # {}, pagos'), Part(asiste # {}, asistencias'), FALSE))
  /\ mes' = mes /\ excedente' = excedente /\ ajustes' = ajustes

\* A checkout of a plan, of Asistencias or of both.
LEMMA CheckoutKeeps ==
  ASSUME SalesInv, NEW pos \in SmallSets(Planes), NEW asiste \in SmallSets(Limites), NEW tipo \in Tipos,
         Checkout(pos, asiste, tipo)
  PROVE  SalesInv'
<1> USE Rows
<1>1. pos \subseteq Planes /\ asiste \subseteq Nat BY SubscriptionsAssumption DEF SmallSets
<1>2. /\ empresa'.plan = (IF pos = {} THEN empresa.plan ELSE Last(pagos').resultante)
      /\ empresa'.asistencia = (IF asiste = {} THEN empresa.asistencia ELSE Last(asistencias').resultante)
      /\ mes' = mes /\ excedente' = excedente /\ ajustes' = ajustes
  BY DEF Checkout
<1>3. PICK np \in Nat : np = Part(pos # {}, pagos')
  <2>1. CASE pos = {} BY <2>1 DEF Part
  <2>2. CASE pos # {}
    <3>1. PICK codigo \in Planes : SellPlan(codigo) BY <2>2, <1>1 DEF Checkout
    <3>2. empresa'.plan = Last(pagos').resultante BY <2>2, <1>2
    <3>3. Len(pagos') \in Nat BY <3>1, <3>2, PlanSold
    <3> QED BY <3>3, <2>2 DEF Part
  <2> QED BY <2>1, <2>2
<1>4. /\ pagos' \in Seq(PagoRows) /\ empresa'.plan \in PlanRows /\ PlansChained' /\ PlanFollows'
      /\ Len(pagos') >= Len(pagos) /\ \A i \in DOMAIN pagos : pagos'[i] = pagos[i]
      /\ np # 0 => np = Len(pagos') /\ np > Len(pagos) /\ pagos'[np].estado = "pagado"
      /\ pos # {} => np # 0
  <2>1. CASE pos = {}
    <3>1. pagos' = pagos /\ empresa'.plan = empresa.plan /\ np = 0
      BY <2>1, <1>2, <1>3 DEF Checkout, Part
    <3>2. PlansChained' /\ PlanFollows' BY <3>1, PlanKept
    <3> QED BY <3>1, <3>2, <2>1
  <2>2. CASE pos # {}
    <3>1. PICK codigo \in Planes : SellPlan(codigo) BY <2>2, <1>1 DEF Checkout
    <3>2. empresa'.plan = Last(pagos').resultante BY <2>2, <1>2
    <3>3. /\ pagos' \in Seq(PagoRows) /\ Len(pagos') = Len(pagos) + 1
          /\ \A i \in DOMAIN pagos : pagos'[i] = pagos[i]
          /\ pagos'[Len(pagos) + 1].estado = "pagado" /\ empresa'.plan \in PlanRows
          /\ PlansChained' /\ PlanFollows'
      BY <3>1, <3>2, PlanSold
    <3>4. np = Len(pagos) + 1 BY <3>3, <2>2, <1>3 DEF Part
    <3> QED BY <3>3, <3>4
  <2> QED BY <2>1, <2>2
<1>5. PICK na \in Nat : na = Part(asiste # {}, asistencias')
  <2>1. CASE asiste = {} BY <2>1 DEF Part
  <2>2. CASE asiste # {}
    <3>1. PICK limite \in Nat : SellAttendance(limite) BY <2>2, <1>1 DEF Checkout
    <3>2. empresa'.asistencia = Last(asistencias').resultante BY <2>2, <1>2
    <3>3. Len(asistencias') \in Nat BY <3>1, <3>2, <1>2, AddonSold
    <3> QED BY <3>3, <2>2 DEF Part
  <2> QED BY <2>1, <2>2
<1>6. /\ asistencias' \in Seq(SuscRows) /\ empresa'.asistencia \in AddonRows
      /\ AddonsChained' /\ AddonFollows'
      /\ Len(asistencias') >= Len(asistencias)
      /\ \A i \in DOMAIN asistencias : asistencias'[i] = asistencias[i]
      /\ na # 0 => na = Len(asistencias') /\ na > Len(asistencias) /\ asistencias'[na].estado = "activa"
      /\ asiste # {} => na # 0
  <2>1. CASE asiste = {}
    <3>1. asistencias' = asistencias /\ empresa'.asistencia = empresa.asistencia /\ na = 0
      BY <2>1, <1>2, <1>5 DEF Checkout, Part
    <3>2. AddonsChained' /\ AddonFollows' BY <3>1, <1>2, AddonKept
    <3> QED BY <3>1, <3>2, <2>1
  <2>2. CASE asiste # {}
    <3>1. PICK limite \in Nat : SellAttendance(limite) BY <2>2, <1>1 DEF Checkout
    <3>2. empresa'.asistencia = Last(asistencias').resultante BY <2>2, <1>2
    <3>3. /\ asistencias' \in Seq(SuscRows) /\ Len(asistencias') = Len(asistencias) + 1
          /\ \A i \in DOMAIN asistencias : asistencias'[i] = asistencias[i]
          /\ asistencias'[Len(asistencias) + 1].estado = "activa" /\ empresa'.asistencia \in AddonRows
          /\ AddonsChained' /\ AddonFollows'
      BY <3>1, <3>2, <1>2, AddonSold
    <3>4. na = Len(asistencias) + 1 BY <3>3, <2>2, <1>5 DEF Part
    <3> QED BY <3>3, <3>4
  <2> QED BY <2>1, <2>2
<1>7. PICK r : r = Comprobante(tipo, np, na, FALSE) OBVIOUS
<1>8. r \in ReceiptRows BY <1>7 DEF Comprobante, ReceiptRows
<1>9. /\ r.pago = np /\ r.asistencia = na /\ ~r.excedente /\ r.cobro = "no" /\ r.estado # "anulado"
  BY <1>7 DEF Comprobante
<1>10. comprobantes' = Append(comprobantes, r) BY <1>3, <1>5, <1>7 DEF Checkout
<1>11. np # 0 \/ na # 0 BY <1>4, <1>6 DEF Checkout
<1>12. comprobantes' \in Seq(ReceiptRows) /\ ReceiptsOwn' /\ ReceiptsFollowSources'
  BY <1>2, <1>4, <1>6, <1>8, <1>9, <1>10, <1>11, ReceiptAdded
<1>13. empresa' \in [plan : PlanRows, asistencia : AddonRows] BY <1>4, <1>6 DEF Checkout
<1> QED BY <1>2, <1>4, <1>6, <1>12, <1>13, SalesFromParts

\* Anything else that is charged for.
LEMMA ExtraChargeKeeps ==
  ASSUME SalesInv, NEW tipo \in Tipos, CreateExtraCharge(tipo)
  PROVE  SalesInv'
<1> USE Rows
<1>1. /\ mes' = mes /\ empresa' = empresa /\ pagos' = pagos /\ asistencias' = asistencias
      /\ excedente' = excedente /\ ajustes' = ajustes
  BY DEF CreateExtraCharge
<1>2. PICK r : r = [Comprobante(tipo, 0, 0, FALSE) EXCEPT !.cobro = "pagado"] OBVIOUS
<1>3. r \in ReceiptRows BY <1>2 DEF Comprobante, ReceiptRows
<1>4. r.pago = 0 /\ r.asistencia = 0 /\ ~r.excedente /\ r.cobro = "pagado" /\ r.estado # "anulado"
  BY <1>2 DEF Comprobante
<1>5. comprobantes' = Append(comprobantes, r) BY <1>2 DEF CreateExtraCharge
<1>6. comprobantes' \in Seq(ReceiptRows) /\ ReceiptsOwn' /\ ReceiptsFollowSources'
  BY <1>1, <1>3, <1>4, <1>5, ReceiptAdded
<1>7. PlansChained' /\ PlanFollows' /\ AddonsChained' /\ AddonFollows' BY <1>1, PlanKept, AddonKept
<1> QED BY <1>1, <1>6, <1>7, SalesFromParts

\* An overage is paid.
LEMMA PayOverageKeeps ==
  ASSUME SalesInv, NEW tipo \in Tipos, PayOverage(tipo)
  PROVE  SalesInv'
<1> USE Rows
<1>1. /\ mes' = mes /\ empresa' = empresa /\ pagos' = pagos /\ asistencias' = asistencias
      /\ excedente' = "pagado" /\ ajustes' = ajustes
      /\ \A c \in DOMAIN comprobantes : ~comprobantes[c].excedente
  BY DEF PayOverage, PayOverageIf, SinComprobante
<1>2. PICK r : r = Comprobante(tipo, 0, 0, TRUE) OBVIOUS
<1>3. r \in ReceiptRows BY <1>2 DEF Comprobante, ReceiptRows
<1>4. r.pago = 0 /\ r.asistencia = 0 /\ r.excedente /\ r.cobro = "no" /\ r.estado # "anulado"
  BY <1>2 DEF Comprobante
<1>5. comprobantes' = Append(comprobantes, r) BY <1>2 DEF PayOverage, PayOverageIf
<1>6. comprobantes' \in Seq(ReceiptRows) /\ ReceiptsOwn' /\ ReceiptsFollowSources'
  BY <1>1, <1>3, <1>4, <1>5, ReceiptAdded
<1>7. PlansChained' /\ PlanFollows' /\ AddonsChained' /\ AddonFollows' BY <1>1, PlanKept, AddonKept
<1> QED BY <1>1, <1>6, <1>7, SalesFromParts

\* Asistencias alone, with no receipt.
LEMMA AttendanceSaleKeeps ==
  ASSUME SalesInv, NEW limite \in Limites, CreateAttendanceSubscription(limite)
  PROVE  SalesInv'
<1> USE Rows
<1>1. /\ mes' = mes /\ pagos' = pagos /\ comprobantes' = comprobantes
      /\ excedente' = excedente /\ ajustes' = ajustes /\ SellAttendance(limite) /\ limite \in Nat
  BY SubscriptionsAssumption DEF CreateAttendanceSubscription
<1>2. PICK x : x = Last(asistencias').resultante OBVIOUS
<1>3. empresa' = [empresa EXCEPT !.asistencia = x] BY <1>2 DEF CreateAttendanceSubscription
<1>4. empresa'.plan = empresa.plan /\ empresa'.asistencia = x BY <1>3
<1>5. /\ asistencias' \in Seq(SuscRows) /\ Len(asistencias') = Len(asistencias) + 1
      /\ \A i \in DOMAIN asistencias : asistencias'[i] = asistencias[i]
      /\ empresa'.asistencia \in AddonRows /\ AddonsChained' /\ AddonFollows'
  BY <1>1, <1>2, <1>4, AddonSold
<1>6. empresa' \in [plan : PlanRows, asistencia : AddonRows] BY <1>3, <1>4, <1>5
<1>7. PlansChained' /\ PlanFollows' BY <1>1, <1>4, PlanKept
<1>8. ReceiptsOwn' BY <1>1, <1>5, ReceiptsKept
<1>9. ASSUME NEW c \in DOMAIN comprobantes'
      PROVE  Follows(c)'
  <2>1. c \in DOMAIN comprobantes /\ comprobantes'[c] = comprobantes[c] BY <1>1
  <2>2. comprobantes[c].asistencia # 0 => comprobantes[c].asistencia \in DOMAIN asistencias BY <2>1
  <2>3. Stands(c)' <=> Stands(c) BY <2>1, <2>2, <1>1, <1>5 DEF Stands
  <2> QED BY <2>1, <2>3 DEF Follows
<1> QED BY <1>1, <1>5, <1>6, <1>7, <1>8, <1>9, FollowAgain, SalesFromParts

\* A payment is annulled from the list of sales.
LEMMA CancelSaleKeeps ==
  ASSUME SalesInv, NEW i \in DOMAIN pagos, CancelSale(i)
  PROVE  SalesInv'
<1> USE Rows
<1>1. /\ mes' = mes /\ asistencias' = asistencias /\ excedente' = excedente /\ ajustes' = ajustes
      /\ Ultimo(Pagados, i) /\ AnnulPayment(i)
      /\ empresa' = [empresa EXCEPT !.plan = pagos[i].anterior]
      /\ comprobantes' = [c \in DOMAIN comprobantes |->
           IF c \in ReceiptOf(i) THEN [comprobantes[c] EXCEPT !.estado = "anulado"]
                                 ELSE comprobantes[c]]
  BY DEF CancelSale, CancelSaleIf, PlanRestored
<1>2. empresa'.plan = pagos[i].anterior /\ empresa'.asistencia = empresa.asistencia BY <1>1
<1>3. /\ pagos' \in Seq(PagoRows) /\ Len(pagos') = Len(pagos)
      /\ pagos'[i].estado = "anulado" /\ \A k \in DOMAIN pagos : k # i => pagos'[k] = pagos[k]
      /\ empresa'.plan \in PlanRows /\ PlansChained' /\ PlanFollows'
  BY <1>1, <1>2, PlanAnnulled
<1>4. AddonsChained' /\ AddonFollows' BY <1>1, <1>2, AddonKept
<1>5. empresa' \in [plan : PlanRows, asistencia : AddonRows] BY <1>1, <1>2, <1>3
<1>6. ASSUME NEW c \in DOMAIN comprobantes
      PROVE  /\ comprobantes'[c] \in ReceiptRows
             /\ comprobantes'[c].pago = comprobantes[c].pago
             /\ comprobantes'[c].asistencia = comprobantes[c].asistencia
             /\ comprobantes'[c].excedente = comprobantes[c].excedente
             /\ comprobantes'[c].cobro = comprobantes[c].cobro
             /\ comprobantes'[c].reabierto = comprobantes[c].reabierto
             /\ comprobantes[c].pago = i => comprobantes'[c].estado = "anulado"
             /\ comprobantes[c].pago # i => comprobantes'[c] = comprobantes[c]
  <2>1. CASE comprobantes[c].pago = i
    <3>1. PICK v : v = [comprobantes[c] EXCEPT !.estado = "anulado"] OBVIOUS
    <3>2. comprobantes'[c] = v BY <3>1, <2>1, <1>1 DEF ReceiptOf
    <3>3. v \in ReceiptRows BY <3>1 DEF ReceiptRows
    <3>4. /\ v.pago = comprobantes[c].pago /\ v.asistencia = comprobantes[c].asistencia
          /\ v.excedente = comprobantes[c].excedente /\ v.cobro = comprobantes[c].cobro
          /\ v.reabierto = comprobantes[c].reabierto /\ v.estado = "anulado"
      BY <3>1 DEF ReceiptRows
    <3> QED BY <3>2, <3>3, <3>4, <2>1
  <2>2. CASE comprobantes[c].pago # i
    <3>1. comprobantes'[c] = comprobantes[c] BY <2>2, <1>1 DEF ReceiptOf
    <3> QED BY <3>1, <2>2
  <2> QED BY <2>1, <2>2
<1>7. comprobantes' \in Seq(ReceiptRows) /\ DOMAIN comprobantes' = DOMAIN comprobantes
  <2>1. DOMAIN comprobantes' = DOMAIN comprobantes BY <1>1
  <2>2. PICK n \in Nat : DOMAIN comprobantes = 1..n OBVIOUS
  <2>3. comprobantes' \in [1..n -> ReceiptRows] BY <2>2, <1>1, <1>6
  <2> QED BY <2>1, <2>3
<1>8. ReceiptsOwn'
  <2>1. SameReceipts BY <1>1, <1>3, <1>6, <1>7 DEF SameReceipts
  <2> QED BY <2>1, SameReceiptsOwn
<1>9. ASSUME NEW c \in DOMAIN comprobantes'
      PROVE  Follows(c)'
  <2>0. c \in DOMAIN comprobantes /\ i # 0 BY <1>7
  <2>1. CASE comprobantes[c].pago = i
    <3>1. ~Stands(c)' BY <2>0, <2>1, <1>3, <1>6 DEF Stands
    <3> QED BY <3>1, <2>0, <2>1, <1>6 DEF Follows
  <2>2. CASE comprobantes[c].pago # i
    <3>1. comprobantes'[c] = comprobantes[c] BY <2>0, <2>2, <1>6
    <3>2. comprobantes[c].pago # 0 => comprobantes[c].pago \in DOMAIN pagos BY <2>0
    <3>3. Stands(c)' <=> Stands(c) BY <3>1, <3>2, <2>2, <1>1, <1>3 DEF Stands
    <3> QED BY <2>0, <3>1, <3>3 DEF Follows
  <2> QED BY <2>1, <2>2
<1> QED BY <1>1, <1>3, <1>4, <1>5, <1>7, <1>8, <1>9, FollowAgain, SalesFromParts

\* A subscription of Asistencias is annulled.
LEMMA CancelAttendanceKeeps ==
  ASSUME SalesInv, NEW i \in DOMAIN asistencias, CancelAttendanceSubscription(i)
  PROVE  SalesInv'
<1> USE Rows
<1>1. /\ mes' = mes /\ pagos' = pagos /\ excedente' = excedente /\ ajustes' = ajustes
      /\ comprobantes' = comprobantes /\ Ultimo(Activas, i) /\ CancelAttendance(i)
      /\ empresa' = [empresa EXCEPT !.asistencia = asistencias[i].anterior]
  BY DEF CancelAttendanceSubscription, AttendanceRestored
<1>2. empresa'.asistencia = asistencias[i].anterior /\ empresa'.plan = empresa.plan BY <1>1
<1>3. /\ asistencias' \in Seq(SuscRows) /\ Len(asistencias') = Len(asistencias)
      /\ asistencias'[i].estado = "cancelada"
      /\ \A k \in DOMAIN asistencias : k # i => asistencias'[k] = asistencias[k]
      /\ empresa'.asistencia \in AddonRows /\ AddonsChained' /\ AddonFollows'
  BY <1>1, <1>2, AddonAnnulled
<1>4. PlansChained' /\ PlanFollows' BY <1>1, <1>2, PlanKept
<1>5. empresa' \in [plan : PlanRows, asistencia : AddonRows] BY <1>1, <1>2, <1>3
<1>6. ReceiptsOwn' BY <1>1, <1>3, ReceiptsKept
<1>7. ASSUME NEW c \in DOMAIN comprobantes'
      PROVE  Follows(c)'
  <2>1. c \in DOMAIN comprobantes /\ comprobantes'[c] = comprobantes[c] /\ i # 0 BY <1>1
  <2>2. comprobantes[c].asistencia # 0 => comprobantes[c].asistencia \in DOMAIN asistencias BY <2>1
  <2>3. CASE comprobantes[c].asistencia = i
    <3>1. ~Stands(c)' BY <2>1, <2>3, <1>3 DEF Stands
    <3> QED BY <3>1, <2>1, <2>3 DEF Follows
  <2>4. CASE comprobantes[c].asistencia # i
    <3>1. Stands(c)' <=> Stands(c) BY <2>1, <2>2, <2>4, <1>1, <1>3 DEF Stands
    <3> QED BY <3>1, <2>1 DEF Follows
  <2> QED BY <2>3, <2>4
<1> QED BY <1>1, <1>3, <1>4, <1>5, <1>6, <1>7, FollowAgain, SalesFromParts

\* A receipt is annulled with each part of what it is for.
LEMMA ReverseSourceKeeps ==
  ASSUME SalesInv, NEW c \in DOMAIN comprobantes, ReverseSource(c)
  PROVE  SalesInv'
<1> USE Rows
<1>1. PICK r : r = comprobantes[c] OBVIOUS
<1>2. r \in ReceiptRows /\ r.pago \in 0..Len(pagos) /\ r.asistencia \in 0..Len(asistencias) BY <1>1
<1>3. /\ mes' = mes /\ ajustes' = ajustes
      /\ r.pago # 0 => Ultimo(Pagados, r.pago)
      /\ r.asistencia # 0 => Ultimo(Activas, r.asistencia)
      /\ IF r.pago # 0 THEN AnnulPayment(r.pago) ELSE pagos' = pagos
      /\ IF r.asistencia # 0 THEN CancelAttendance(r.asistencia) ELSE asistencias' = asistencias
      /\ empresa' = [plan |-> IF r.pago # 0 THEN pagos[r.pago].anterior ELSE empresa.plan,
                     asistencia |-> IF r.asistencia # 0 THEN asistencias[r.asistencia].anterior
                                    ELSE empresa.asistencia]
      /\ excedente' = IF r.excedente THEN "anulado" ELSE excedente
      /\ comprobantes' = [comprobantes EXCEPT ![c].estado = "anulado",
                                              ![c].cobro = IF @ = "no" THEN @ ELSE "anulado"]
  BY <1>1 DEF ReverseSource, Reversible
<1>4. /\ empresa'.plan = (IF r.pago # 0 THEN pagos[r.pago].anterior ELSE empresa.plan)
      /\ empresa'.asistencia = (IF r.asistencia # 0 THEN asistencias[r.asistencia].anterior
                                ELSE empresa.asistencia)
  BY <1>3
<1>5. /\ pagos' \in Seq(PagoRows) /\ Len(pagos') = Len(pagos)
      /\ \A k \in DOMAIN pagos : k # r.pago => pagos'[k] = pagos[k]
      /\ r.pago # 0 => pagos'[r.pago].estado = "anulado"
      /\ empresa'.plan \in PlanRows /\ PlansChained' /\ PlanFollows'
  <2>1. CASE r.pago = 0
    <3>1. pagos' = pagos /\ empresa'.plan = empresa.plan BY <2>1, <1>3, <1>4
    <3> QED BY <3>1, <2>1, PlanKept
  <2>2. CASE r.pago # 0
    <3>1. PICK i \in DOMAIN pagos : i = r.pago BY <2>2, <1>2
    <3>2. Ultimo(Pagados, i) /\ AnnulPayment(i) /\ empresa'.plan = pagos[i].anterior
      BY <2>2, <3>1, <1>3, <1>4
    <3> QED BY <3>1, <3>2, PlanAnnulled
  <2> QED BY <2>1, <2>2
<1>6. /\ asistencias' \in Seq(SuscRows) /\ Len(asistencias') = Len(asistencias)
      /\ \A k \in DOMAIN asistencias : k # r.asistencia => asistencias'[k] = asistencias[k]
      /\ r.asistencia # 0 => asistencias'[r.asistencia].estado = "cancelada"
      /\ empresa'.asistencia \in AddonRows /\ AddonsChained' /\ AddonFollows'
  <2>1. CASE r.asistencia = 0
    <3>1. asistencias' = asistencias /\ empresa'.asistencia = empresa.asistencia BY <2>1, <1>3, <1>4
    <3> QED BY <3>1, <2>1, <1>3, AddonKept
  <2>2. CASE r.asistencia # 0
    <3>1. PICK i \in DOMAIN asistencias : i = r.asistencia BY <2>2, <1>2
    <3>2. Ultimo(Activas, i) /\ CancelAttendance(i) /\ empresa'.asistencia = asistencias[i].anterior
      BY <2>2, <3>1, <1>3, <1>4
    <3> QED BY <3>1, <3>2, <1>3, AddonAnnulled
  <2> QED BY <2>1, <2>2
<1>7. empresa' \in [plan : PlanRows, asistencia : AddonRows] BY <1>3, <1>4, <1>5, <1>6
<1>8. PICK v : v = [r EXCEPT !.estado = "anulado", !.cobro = IF r.cobro = "no" THEN r.cobro ELSE "anulado"]
  OBVIOUS
<1>9. v \in ReceiptRows BY <1>2, <1>8 DEF ReceiptRows
<1>10. /\ v.pago = r.pago /\ v.asistencia = r.asistencia /\ v.excedente = r.excedente
       /\ v.estado = "anulado" /\ (v.cobro # "no" <=> r.cobro # "no")
       /\ v.cobro = IF r.cobro = "no" THEN "no" ELSE "anulado"
  BY <1>2, <1>8 DEF ReceiptRows
<1>11. comprobantes' = [comprobantes EXCEPT ![c] = v] BY <1>1, <1>3, <1>8
<1>12. /\ comprobantes' \in Seq(ReceiptRows) /\ DOMAIN comprobantes' = DOMAIN comprobantes
       /\ comprobantes'[c] = v
       /\ \A d \in DOMAIN comprobantes : d # c => comprobantes'[d] = comprobantes[d]
  BY <1>9, <1>11
<1>13. ReceiptsOwn'
  <2>1. SameReceipts BY <1>1, <1>5, <1>6, <1>10, <1>12 DEF SameReceipts
  <2> QED BY <2>1, SameReceiptsOwn
<1>14. ASSUME NEW d \in DOMAIN comprobantes'
       PROVE  Follows(d)'
  <2>0. d \in DOMAIN comprobantes BY <1>12
  <2>1. CASE d = c
    <3>1. r.pago # 0 \/ r.asistencia # 0 \/ r.excedente \/ r.cobro # "no"
      BY <1>1 DEF SalesInv, ReceiptsOwn
    <3>2. ~Stands(c)' BY <3>1, <1>3, <1>5, <1>6, <1>10, <1>12 DEF Stands
    <3> QED BY <3>2, <2>1, <1>10, <1>12 DEF Follows
  <2>2. CASE d # c
    <3>1. comprobantes'[d] = comprobantes[d] BY <2>0, <2>2, <1>12
    <3>2. /\ comprobantes[d].pago # 0 => comprobantes[d].pago \in DOMAIN pagos
          /\ comprobantes[d].asistencia # 0 => comprobantes[d].asistencia \in DOMAIN asistencias
      BY <2>0
    <3>3. /\ comprobantes[d].pago # 0 => comprobantes[d].pago # r.pago
          /\ comprobantes[d].asistencia # 0 => comprobantes[d].asistencia # r.asistencia
          /\ ~(comprobantes[d].excedente /\ r.excedente)
      BY <2>0, <2>2, <1>1 DEF SalesInv, ReceiptsOwn
    <3>4. Stands(d)' <=> Stands(d) BY ZenonT(40), <3>1, <3>2, <3>3, <1>3, <1>5, <1>6 DEF Stands
    <3> QED BY <2>0, <3>1, <3>4 DEF Follows
  <2> QED BY <2>1, <2>2
<1> QED BY <1>3, <1>5, <1>6, <1>7, <1>12, <1>13, <1>14, FollowAgain, SalesFromParts

\* What is asked of SUNAT, and what it says, changes no sale.
LEMMA ReceiptChanges ==
  ASSUME SalesInv, NEW c \in DOMAIN comprobantes, NEW v \in ReceiptRows,
         comprobantes' = [comprobantes EXCEPT ![c] = v],
         /\ v.pago = comprobantes[c].pago /\ v.asistencia = comprobantes[c].asistencia
         /\ v.excedente = comprobantes[c].excedente /\ v.cobro = comprobantes[c].cobro,
         v.estado = "anulado" <=> comprobantes[c].estado = "anulado" /\ ~v.reabierto,
         comprobantes[c].reabierto => v.reabierto,
         UNCHANGED <<mes, empresa, pagos, asistencias, excedente, ajustes>>
  PROVE  SalesInv'
<1> USE Rows
<1>1. /\ comprobantes' \in Seq(ReceiptRows) /\ DOMAIN comprobantes' = DOMAIN comprobantes
      /\ comprobantes'[c] = v
      /\ \A d \in DOMAIN comprobantes : d # c => comprobantes'[d] = comprobantes[d]
  OBVIOUS
<1>2. SameReceipts BY <1>1 DEF SameReceipts
<1>3. ReceiptsOwn' BY <1>2, SameReceiptsOwn
<1>4. PlansChained' /\ PlanFollows' /\ AddonsChained' /\ AddonFollows' BY PlanKept, AddonKept
<1>5. ASSUME NEW d \in DOMAIN comprobantes'
      PROVE  Follows(d)'
  <2>0. d \in DOMAIN comprobantes BY <1>1
  <2>1. Stands(d)' <=> Stands(d) BY SMTT(20), <2>0, <1>1 DEF Stands
  <2>2. CASE d = c BY <2>1, <2>2, <1>1 DEF Follows
  <2>3. CASE d # c BY <2>0, <2>1, <2>3, <1>1 DEF Follows
  <2> QED BY <2>2, <2>3
<1> QED BY <1>1, <1>3, <1>4, <1>5, FollowAgain, SalesFromParts

\* An annulment is asked for through the receipt.
LEMMA RequestKeeps ==
  ASSUME SalesInv, NEW c \in DOMAIN comprobantes, RequestCancellation(c)
  PROVE  SalesInv'
<1> USE Rows
<1>1. CASE ReverseSource(c) BY <1>1, ReverseSourceKeeps
<1>2. CASE ~ReverseSource(c)
  <2>1. PICK v : v = [comprobantes[c] EXCEPT !.estado = "anulacion_pendiente", !.baja = TRUE]
    OBVIOUS
  <2>2. v \in ReceiptRows BY <2>1 DEF ReceiptRows
  <2>3. /\ v.pago = comprobantes[c].pago /\ v.asistencia = comprobantes[c].asistencia
        /\ v.excedente = comprobantes[c].excedente /\ v.cobro = comprobantes[c].cobro
        /\ v.estado = "anulacion_pendiente" /\ v.reabierto = comprobantes[c].reabierto
    BY <2>1 DEF ReceiptRows
  <2>4. /\ comprobantes[c].estado = "aceptado" /\ comprobantes' = [comprobantes EXCEPT ![c] = v]
        /\ UNCHANGED <<mes, empresa, pagos, asistencias, excedente, ajustes>>
    BY <1>2, <2>1 DEF RequestCancellation
  <2> QED BY <2>2, <2>3, <2>4, ReceiptChanges
<1> QED BY <1>1, <1>2

\* A credit note is asked for.
LEMMA CreditNoteKeeps ==
  ASSUME SalesInv, NEW c \in DOMAIN comprobantes, CreateCreditNote(c)
  PROVE  SalesInv'
<1> USE Rows
<1>1. PICK v : v = [comprobantes[c] EXCEPT !.nota = TRUE] OBVIOUS
<1>2. v \in ReceiptRows BY <1>1 DEF ReceiptRows
<1>3. /\ v.pago = comprobantes[c].pago /\ v.asistencia = comprobantes[c].asistencia
      /\ v.excedente = comprobantes[c].excedente /\ v.cobro = comprobantes[c].cobro
      /\ v.estado = comprobantes[c].estado /\ v.reabierto = comprobantes[c].reabierto
  BY <1>1 DEF ReceiptRows
<1>4. /\ comprobantes[c].estado = "aceptado" /\ comprobantes' = [comprobantes EXCEPT ![c] = v]
      /\ UNCHANGED <<mes, empresa, pagos, asistencias, excedente, ajustes>>
  BY <1>1 DEF CreateCreditNote
<1> QED BY <1>2, <1>3, <1>4, ReceiptChanges

\* What the row of an electronic receipt may be set to on its way.
OnTheWay == {"pendiente", "aceptado", "rechazado", "error", "anulacion_pendiente",
             "ninguno", "abierto", "fallido"}

\* The row of an electronic receipt gets a state.
LEMMA ProcessedKeeps ==
  ASSUME SalesInv, NEW c \in DOMAIN comprobantes, NEW estado \in OnTheWay, Processed(c, estado)
  PROVE  SalesInv'
<1> USE Rows
<1>1. PICK x \in BOOLEAN : x <=> comprobantes[c].reabierto \/ comprobantes[c].estado = "anulado"
  OBVIOUS
<1>2. PICK v : v = [comprobantes[c] EXCEPT !.estado = estado, !.reabierto = x] OBVIOUS
<1>3. v \in ReceiptRows BY <1>1, <1>2 DEF ReceiptRows, OnTheWay
<1>4. /\ v.pago = comprobantes[c].pago /\ v.asistencia = comprobantes[c].asistencia
      /\ v.excedente = comprobantes[c].excedente /\ v.cobro = comprobantes[c].cobro
      /\ v.estado = estado /\ v.reabierto = x
  BY <1>2 DEF ReceiptRows
<1>5. comprobantes[c].reabierto \in BOOLEAN BY DEF ReceiptRows
<1>6. x = (comprobantes[c].reabierto \/ comprobantes[c].estado = "anulado") BY <1>1, <1>5
<1>7. /\ comprobantes' = [comprobantes EXCEPT ![c] = v]
      /\ UNCHANGED <<mes, empresa, pagos, asistencias, excedente, ajustes>>
  BY <1>2, <1>6 DEF Processed
<1>8. estado # "anulado" BY DEF OnTheWay
<1> QED BY <1>1, <1>3, <1>4, <1>7, <1>8, ReceiptChanges

\* By hand: the end of a trial, or Asistencias.
LEMMA ByHandKeeps ==
  ASSUME SalesInv, NEW nueva, ByHand(nueva), nueva \in [plan : PlanRows, asistencia : AddonRows],
         \/ nueva.plan = empresa.plan
         \/ empresa.plan.codigo = "prueba" /\ nueva.plan.codigo = "prueba"
  PROVE  SalesInv'
<1> USE Rows
<1>1. /\ ajustes' = ajustes + 1 /\ empresa' = nueva /\ pagos' = pagos /\ asistencias' = asistencias
      /\ mes' = mes /\ excedente' = excedente /\ comprobantes' = comprobantes
  BY DEF ByHand
<1>2. AddonsChained' /\ AddonFollows' BY <1>1, AddonKept
<1>3. Pagados' = Pagados BY <1>1 DEF Pagados, Vigentes
<1>4. PlansChained' BY <1>1, <1>3 DEF SalesInv, PlansChained
<1>5. PlanFollows'
  <2>1. PlanFollows BY SalesParts DEF SalesInv
  <2>2. CASE nueva.plan = empresa.plan BY <2>1, <2>2, <1>1, <1>3 DEF PlanFollows, Ultimo
  <2>3. CASE empresa.plan.codigo = "prueba" /\ nueva.plan.codigo = "prueba"
    <3>1. ASSUME NEW i \in Pagados, Ultimo(Pagados, i)
          PROVE  FALSE
      <4>1. empresa.plan = pagos[i].resultante /\ i \in DOMAIN pagos
        BY <2>1, <3>1 DEF PlanFollows, Pagados, Vigentes
      <4> QED BY <4>1, <2>3 DEF SalesInv, PlansChained
    <3> QED BY <3>1, <2>1, <2>3, <1>1, <1>3 DEF PlanFollows, Ultimo
  <2> QED BY <2>2, <2>3
<1>6. ReceiptsOwn' /\ ReceiptsFollowSources'
  BY <1>1 DEF SalesInv, ReceiptsOwn, ReceiptsFollowSources, SourceStands
<1> QED BY <1>1, <1>2, <1>4, <1>5, <1>6, SalesFromParts

\* Changes by hand.
LEMMA AdministerKeeps ==
  ASSUME SalesInv, Administer
  PROVE  SalesInv'
<1> USE Rows, SubscriptionsAssumption
<1>1. ASSUME NEW fin \in 0..MaxMes, UpdateCompanyTrial(fin)
      PROVE  SalesInv'
  <2>1. PICK p : p = [empresa.plan EXCEPT !.fin = fin] OBVIOUS
  <2>7. fin \in Nat /\ empresa.plan \in PlanRows BY <1>1 DEF PlanRows
  <2>2. p \in PlanRows BY <2>1, <2>7 DEF PlanRows
  <2>3. p.codigo = empresa.plan.codigo BY <2>1 DEF PlanRows
  <2>4. PICK n : n = [empresa EXCEPT !.plan = p] OBVIOUS
  <2>5. n \in [plan : PlanRows, asistencia : AddonRows] /\ n.plan = p BY <2>2, <2>4
  <2>6. ByHand(n) /\ empresa.plan.codigo = "prueba" BY <1>1, <2>1, <2>4 DEF UpdateCompanyTrial
  <2> QED BY <2>3, <2>5, <2>6, ByHandKeeps
<1>2. ASSUME NEW a \in AddonRows, ByHand([empresa EXCEPT !.asistencia = a])
      PROVE  SalesInv'
  <2>1. PICK n : n = [empresa EXCEPT !.asistencia = a] OBVIOUS
  <2>2. n \in [plan : PlanRows, asistencia : AddonRows] /\ n.plan = empresa.plan BY <2>1
  <2> QED BY <2>1, <2>2, <1>2, ByHandKeeps
<1>3. ASSUME NEW limite \in Limites, UpdateAttendanceAddon(limite, mes + 1)
      PROVE  SalesInv'
  <2>1. PICK a : a = [activa |-> TRUE, limite |-> limite, fin |-> mes + 1] OBVIOUS
  <2>2. a \in AddonRows BY <2>1 DEF AddonRows
  <2> QED BY <2>1, <2>2, <1>3, <1>2 DEF UpdateAttendanceAddon
<1>4. ASSUME NEW limite \in Limites, UpdateAttendanceCapacity(limite)
      PROVE  SalesInv'
  <2>1. PICK a : a = [empresa.asistencia EXCEPT !.limite = limite] OBVIOUS
  <2>2. a \in AddonRows BY <2>1 DEF AddonRows
  <2>3. ByHand([empresa EXCEPT !.asistencia = a]) BY <2>1, <1>4 DEF UpdateAttendanceCapacity
  <2> QED BY <2>2, <2>3, <1>2
<1>5. CASE DropAttendanceAddon
  <2>1. SinAsistencia \in AddonRows BY DEF SinAsistencia, AddonRows
  <2> QED BY <2>1, <1>5, <1>2 DEF DropAttendanceAddon
<1> QED BY <1>1, <1>3, <1>4, <1>5 DEF Administer

\* The month, the affiliates and the closing of an overage are no sale.
LEMMA UnmovedKeeps ==
  ASSUME SalesInv, mes' \in Nat,
         empresa' = empresa, pagos' = pagos, asistencias' = asistencias,
         comprobantes' = comprobantes, ajustes' = ajustes,
         (excedente' = "pagado") <=> (excedente = "pagado")
  PROVE  SalesInv'
<1> USE Rows
<1>1. PlansChained' /\ PlanFollows' /\ AddonsChained' /\ AddonFollows' BY PlanKept, AddonKept
<1>2. ReceiptsOwn' BY ReceiptsKept
<1>3. ASSUME NEW c \in DOMAIN comprobantes'
      PROVE  Follows(c)'
  <2>1. c \in DOMAIN comprobantes OBVIOUS
  <2>2. Stands(c)' <=> Stands(c) BY <2>1 DEF Stands
  <2> QED BY <2>1, <2>2 DEF Follows
<1> QED BY <1>1, <1>2, <1>3, FollowAgain, SalesFromParts

\* Every operation of the sales keeps the invariant.
LEMMA CommerceKeeps ==
  ASSUME SalesInv, Commerce
  PROVE  SalesInv'
<1> USE Rows
<1>1. CASE Sell
  <2>1. PICK tipo \in Tipos :
          \/ CreateExtraCharge(tipo)
          \/ \E pos \in SmallSets(Planes), asiste \in SmallSets(Limites) : Checkout(pos, asiste, tipo)
    <3>1. \A codigo \in Planes : {codigo} \in SmallSets(Planes) BY DEF SmallSets
    <3>2. {} \in SmallSets(Limites) BY DEF SmallSets
    <3> QED BY <1>1, <3>1, <3>2, ZenonT(40) DEF Sell, CreateSale, CreateCheckout, Checkout
  <2> QED BY <2>1, ExtraChargeKeeps, CheckoutKeeps
<1>2. CASE Annul
  BY <1>2, CancelSaleKeeps, CancelAttendanceKeeps, RequestKeeps, CreditNoteKeeps DEF Annul
<1>3. CASE Settle
  <2>1. ASSUME NEW periodo, CloseSettlement(periodo)
        PROVE  SalesInv'
    <3>1. /\ mes' = mes /\ excedente' = excedente
          /\ empresa' = empresa /\ pagos' = pagos /\ asistencias' = asistencias
          /\ comprobantes' = comprobantes /\ ajustes' = ajustes
      BY <2>1 DEF CloseSettlement
    <3>2. mes' \in Nat /\ ((excedente' = "pagado") <=> (excedente = "pagado")) BY <3>1
    <3> QED BY <3>1, <3>2, UnmovedKeeps
  <2>2. ASSUME NEW l, PaySettlement(l)
        PROVE  SalesInv'
    <3>1. /\ mes' = mes /\ excedente' = excedente
          /\ empresa' = empresa /\ pagos' = pagos /\ asistencias' = asistencias
          /\ comprobantes' = comprobantes /\ ajustes' = ajustes
      BY <2>2 DEF PaySettlement
    <3>2. mes' \in Nat /\ ((excedente' = "pagado") <=> (excedente = "pagado")) BY <3>1
    <3> QED BY <3>1, <3>2, UnmovedKeeps
  <2>3. CASE CloseOverage BY <2>3, UnmovedKeeps DEF CloseOverage
  <2> QED BY <1>3, <2>1, <2>2, <2>3, PayOverageKeeps DEF Settle
<1>4. CASE Administer BY <1>4, AdministerKeeps
<1>5. CASE MonthPasses
  <2>1. /\ mes' = mes + 1 /\ excedente' = excedente
        /\ empresa' = empresa /\ pagos' = pagos /\ asistencias' = asistencias
        /\ comprobantes' = comprobantes /\ ajustes' = ajustes
    BY <1>5 DEF MonthPasses
  <2>2. mes' \in Nat /\ ((excedente' = "pagado") <=> (excedente = "pagado")) BY <2>1
  <2> QED BY <2>1, <2>2, UnmovedKeeps
<1>6. ASSUME NEW limite \in Limites, CreateAttendanceSubscription(limite)
      PROVE  SalesInv'
  BY <1>6, AttendanceSaleKeeps
<1> QED BY <1>1, <1>2, <1>3, <1>4, <1>5, <1>6 DEF Commerce

\* Every step that touches the sales of the platform, whoever takes it.
SaleNext ==
  \/ Commerce
  \/ \E c \in DOMAIN comprobantes :
       FinalizeAccepted(c) \/ \E estado \in OnTheWay : Processed(c, estado)

\* So does every step that touches them.
LEMMA SaleStep ==
  ASSUME SalesInv, SaleNext \/ UNCHANGED vars
  PROVE  SalesInv'
<1> USE Rows
<1>1. CASE UNCHANGED vars
  <2>1. /\ mes' = mes /\ excedente' = excedente
        /\ empresa' = empresa /\ pagos' = pagos /\ asistencias' = asistencias
        /\ comprobantes' = comprobantes /\ ajustes' = ajustes
    BY <1>1 DEF vars
  <2>2. mes' \in Nat /\ ((excedente' = "pagado") <=> (excedente = "pagado")) BY <2>1
  <2> QED BY <2>1, <2>2, UnmovedKeeps
<1>2. CASE Commerce BY <1>2, CommerceKeeps
<1>3. ASSUME NEW c \in DOMAIN comprobantes, FinalizeAccepted(c)
      PROVE  SalesInv'
  BY <1>3, ReverseSourceKeeps DEF FinalizeAccepted
<1>4. ASSUME NEW c \in DOMAIN comprobantes, NEW estado \in OnTheWay, Processed(c, estado)
      PROVE  SalesInv'
  BY <1>4, ProcessedKeeps
<1> QED BY <1>1, <1>2, <1>3, <1>4 DEF SaleNext

\* A company that bought nothing satisfies the invariant.
LEMMA SalesBegin ==
  ASSUME Init
  PROVE  SalesInv
<1>1. /\ mes = 0 /\ empresa = [plan |-> Prueba, asistencia |-> SinAsistencia]
      /\ pagos = <<>> /\ asistencias = <<>> /\ comprobantes = <<>> /\ ajustes = 0
  BY DEF Init
<1>2. Prueba \in PlanRows /\ SinAsistencia \in AddonRows /\ Prueba.codigo = "prueba"
  BY DEF Prueba, SinAsistencia, PlanRows, AddonRows
<1>3. SalesTypes BY <1>1, <1>2 DEF SalesTypes
<1>4. Pagados = {} /\ Activas = {} BY <1>1 DEF Pagados, Activas, Vigentes
<1>5. CompanyFollowsSales BY <1>1, <1>2, <1>4 DEF CompanyFollowsSales
<1>6. PlansChained /\ AddonsChained BY <1>1, <1>4 DEF PlansChained, AddonsChained
<1>7. ReceiptsOwn /\ ReceiptsFollowSources BY <1>1 DEF ReceiptsOwn, ReceiptsFollowSources
<1> QED BY <1>3, <1>5, <1>6, <1>7 DEF SalesInv

----------------------------------------
(* The receipt of a sale on its way: the invariant.                        *)

EstadosRemotos == {"ninguno", "abierto", "aceptado", "rechazado", "fallido"}
Fotos  == [estado : EstadosRemotos, at : Nat]
Avisos == [op : Operaciones, foto : Fotos]
Tareas == [estado : {"ninguna", "pendiente", "procesando", "finalizada", "muerta"}, intentos : Nat]
ThreadRows ==
  [paso : {"libre", "enviar", "aplicar", "escribir", "finalizar", "registrar", "cerrar", "fallar",
            "rechazada"},
   op : Operaciones, quien : {"cola", "aviso", "conciliacion"}, foto : Fotos]
PipeTypes ==
  /\ ruta \in {"billing", "sunat", "ninguna"} /\ hora \in Nat
  /\ remoto \in [Operaciones -> Fotos] /\ tarea \in [Operaciones -> Tareas]
  /\ avisos \subseteq Avisos /\ hilos \in [Hilos -> ThreadRows]

\* There is one boleta at most, and none without a way to SUNAT.
OneBoleta ==
  /\ \A c, d \in Boletas : c = d
  /\ ruta = "ninguna" => Boletas = {}
\* What a thread or a webhook carries as accepted was accepted, and only an
\* acceptance of a void or of a note leads to the reversal of the sale.
Carries(h) ==
  /\ hilos[h].foto.estado = "aceptado" => Accepted(hilos[h].op) /\ hilos[h].paso # "libre"
  /\ hilos[h].paso = "finalizar" => hilos[h].op # "emision" /\ hilos[h].foto.estado = "aceptado"
Tells(a) == a.foto.estado = "aceptado" => Accepted(a.op)
CarriesTruth ==
  /\ \A h \in Hilos : Carries(h)
  /\ \A a \in avisos : Tells(a)
\* Only Billing tells anything afterwards.
OnlyBillingTells ==
  ruta # "billing" =>
    /\ avisos = {}
    /\ \A h \in Hilos : hilos[h].quien = "cola" /\ hilos[h].paso \notin {"aplicar", "escribir", "cerrar"}
\* The job of an operation waits or runs.
InHand(o) ==
  tarea[o].estado = "pendiente" \/ \E h \in Hilos : hilos[h].paso # "libre" /\ hilos[h].op = o
\* Directly, jobs run one at a time; while the emission is in hand the boleta is
\* not accepted and nobody asked for its void, and while its void is in hand it
\* is not accepted either: a void is asked for, and forgets the one before, when
\* neither is.
OneAtATime ==
  ruta = "sunat" =>
    /\ \A h, k \in Hilos : hilos[h].paso # "libre" /\ hilos[k].paso # "libre" => h = k
    /\ \A c \in Boletas :
         /\ InHand("emision") => comprobantes[c].estado # "aceptado" /\ ~comprobantes[c].baja
         /\ InHand("baja")    => comprobantes[c].estado # "aceptado" /\ comprobantes[c].baja
    /\ Boletas = {} => \A o \in Operaciones : ~InHand(o)

PipeInv ==
  /\ PipeTypes /\ OneBoleta /\ CarriesTruth /\ OnlyBillingTells /\ OneAtATime
  /\ AnnulledWasAccepted

----------------------------------------
\* What was accepted stays accepted.
StaysAccepted == \A o \in Operaciones : Accepted(o) => Accepted(o)'

\* A thread goes on with what it has, or ends.
Onward(h) ==
  /\ hilos' \in [Hilos -> ThreadRows]
  /\ \A k \in Hilos : k # h => hilos'[k] = hilos[k]
  /\ \/ hilos'[h] = Libre
     \/ /\ hilos[h].paso # "libre" /\ hilos'[h].paso # "libre"
        /\ hilos'[h].op = hilos[h].op /\ hilos'[h].foto = hilos[h].foto
        /\ hilos'[h].quien = hilos[h].quien
        /\ hilos'[h].paso = "finalizar" => hilos[h].op # "emision" /\ hilos[h].foto.estado = "aceptado"
        /\ hilos'[h].paso \in {"aplicar", "escribir", "cerrar"} => ruta = "billing"

\* A thread at rest has its type and carries nothing.
LEMMA LibreIsOne ==
  /\ Libre \in ThreadRows /\ Libre.paso = "libre" /\ Libre.op = "emision"
  /\ Libre.quien = "cola" /\ Libre.foto.estado = "ninguno" /\ Libre.foto \in Fotos
BY DEF Libre, SinRemoto, ThreadRows, Fotos, EstadosRemotos, Operaciones

\* The types of what is not in the rows, as the other proofs use them.
LEMMA Threads ==
  ASSUME PipeInv
  PROVE  /\ hilos \in [Hilos -> ThreadRows]
         /\ remoto \in [Operaciones -> Fotos] /\ tarea \in [Operaciones -> Tareas]
         /\ hora \in Nat /\ avisos \subseteq Avisos
         /\ \A h \in Hilos : /\ hilos[h] \in ThreadRows /\ hilos[h].op \in Operaciones
                             /\ hilos[h].foto \in Fotos /\ Carries(h)
         /\ \A o \in Operaciones : remoto[o] \in Fotos /\ tarea[o] \in Tareas
         /\ ruta \in {"billing", "sunat", "ninguna"}
<1>1. /\ hilos \in [Hilos -> ThreadRows]
      /\ remoto \in [Operaciones -> Fotos] /\ tarea \in [Operaciones -> Tareas]
      /\ hora \in Nat /\ avisos \subseteq Avisos /\ ruta \in {"billing", "sunat", "ninguna"}
  BY DEF PipeInv, PipeTypes
<1>2. \A h \in Hilos : hilos[h] \in ThreadRows BY <1>1
<1>3. \A h \in Hilos : hilos[h].op \in Operaciones /\ hilos[h].foto \in Fotos BY <1>2 DEF ThreadRows
<1> QED BY <1>1, <1>2, <1>3 DEF PipeInv, CarriesTruth

\* A thread takes its next step.
LEMMA ThreadGoes ==
  ASSUME PipeInv, NEW h \in Hilos,
         NEW paso \in {"aplicar", "escribir", "finalizar", "registrar", "cerrar", "fallar", "rechazada"},
         Go(h, paso), hilos[h].paso # "libre",
         paso = "finalizar" => hilos[h].op # "emision" /\ hilos[h].foto.estado = "aceptado",
         paso \in {"aplicar", "escribir", "cerrar"} => ruta = "billing"
  PROVE  Onward(h) /\ hilos'[h].paso = paso
<1> USE Threads
<1>1. PICK t : t = [hilos[h] EXCEPT !.paso = paso] OBVIOUS
<1>2. t \in ThreadRows BY <1>1 DEF ThreadRows
<1>3. t.paso = paso /\ t.op = hilos[h].op /\ t.foto = hilos[h].foto /\ t.quien = hilos[h].quien
  BY <1>1 DEF ThreadRows
<1>4. hilos' = [hilos EXCEPT ![h] = t] BY <1>1 DEF Go
<1>5. hilos' \in [Hilos -> ThreadRows] /\ hilos'[h] = t /\ \A k \in Hilos : k # h => hilos'[k] = hilos[k]
  BY <1>2, <1>4
<1> QED BY <1>3, <1>5 DEF Onward

\* A thread ends.
LEMMA ThreadStops ==
  ASSUME PipeInv, NEW h \in Hilos, Stop(h)
  PROVE  Onward(h) /\ hilos'[h] = Libre
<1>1. hilos' \in [Hilos -> ThreadRows] /\ hilos'[h] = Libre /\ \A k \in Hilos : k # h => hilos'[k] = hilos[k]
  BY Threads, LibreIsOne DEF Stop
<1> QED BY <1>1 DEF Onward

\* A thread takes up something.
LEMMA ThreadStarts ==
  ASSUME PipeInv, NEW h \in Hilos, NEW t \in ThreadRows, hilos' = [hilos EXCEPT ![h] = t]
  PROVE  /\ hilos' \in [Hilos -> ThreadRows] /\ hilos'[h] = t
         /\ \A k \in Hilos : k # h => hilos'[k] = hilos[k]
BY Threads

\* A thread whose work is over.
LEMMA ThreadIsDone ==
  ASSUME PipeInv, NEW h \in Hilos, Done(h), hilos[h].paso # "libre", ruta = "billing"
  PROVE  Onward(h) /\ avisos' = avisos
<1>1. CASE hilos[h].quien = "cola"
  <2>1. Go(h, "cerrar") /\ avisos' = avisos BY <1>1 DEF Done
  <2> QED BY <2>1, ThreadGoes
<1>2. CASE hilos[h].quien # "cola"
  <2>1. Stop(h) /\ avisos' = avisos BY <1>2 DEF Done
  <2> QED BY <2>1, ThreadStops
<1> QED BY <1>1, <1>2

\* A thread that throws; its webhook is delivered again.
LEMMA ThreadThrows ==
  ASSUME PipeInv, NEW h \in Hilos, Throws(h), hilos[h].paso # "libre"
  PROVE  /\ Onward(h) /\ avisos' \subseteq Avisos
         /\ \A a \in avisos' : a \in avisos \/ (Tells(a) /\ ruta = "billing")
<1>1. Onward(h)
  <2>1. CASE hilos[h].quien = "cola"
    <3>1. Go(h, "fallar") BY <2>1 DEF Throws
    <3> QED BY <3>1, ThreadGoes
  <2>2. CASE hilos[h].quien # "cola"
    <3>1. Stop(h) BY <2>2 DEF Throws
    <3> QED BY <3>1, ThreadStops
  <2> QED BY <2>1, <2>2
<1>2. CASE hilos[h].quien = "aviso"
  <2>1. PICK a : a = [op |-> hilos[h].op, foto |-> hilos[h].foto] OBVIOUS
  <2>2. a \in Avisos /\ Tells(a) BY <2>1, Threads DEF Avisos, Tells, Carries
  <2>3. avisos' = avisos \cup {a} BY <1>2, <2>1 DEF Throws
  <2>4. ruta = "billing" BY <1>2 DEF PipeInv, OnlyBillingTells
  <2> QED BY <1>1, <2>2, <2>3, <2>4, Threads
<1>3. CASE hilos[h].quien # "aviso"
  <2>1. avisos' = avisos BY <1>3 DEF Throws
  <2>2. avisos \subseteq Avisos BY Threads
  <2>3. avisos' \subseteq Avisos BY <2>1, <2>2
  <2>4. \A a \in avisos' : a \in avisos BY <2>1
  <2> QED BY <1>1, <2>3, <2>4
<1> QED BY <1>2, <1>3

----------------------------------------
\* What is not about the receipt itself, and a step of the threads that keeps it.
ThreadInv == PipeTypes /\ CarriesTruth /\ OnlyBillingTells
News == avisos' \subseteq Avisos /\ \A a \in avisos' : a \in avisos \/ (Tells(a)' /\ ruta = "billing")
Own  == ruta' = ruta /\ hora' \in Nat /\ remoto' \in [Operaciones -> Fotos] /\ tarea' \in [Operaciones -> Tareas]
\* A thread that took something up.
Plain(h) == hilos[h].quien = "cola" /\ hilos[h].paso \notin {"aplicar", "escribir", "cerrar"}
Taken(h) ==
  /\ hilos' \in [Hilos -> ThreadRows] /\ \A k \in Hilos : k # h => hilos'[k] = hilos[k]
  /\ Carries(h)' /\ (ruta # "billing" => Plain(h)')

\* A thread that takes up the truth, or an end, keeps what threads carry.
LEMMA TakenKeeps ==
  ASSUME PipeInv, NEW h \in Hilos, Taken(h), Own, News, StaysAccepted
  PROVE  ThreadInv'
<1> USE Threads
<1>1. PipeTypes' BY DEF Taken, Own, News, PipeTypes
<1>2. \A k \in Hilos : Carries(k)'
  <2>1. ASSUME NEW k \in Hilos, k # h
        PROVE  Carries(k)'
    <3>1. hilos'[k] = hilos[k] /\ hilos[k].op \in Operaciones /\ Carries(k) BY <2>1 DEF Taken
    <3>2. Accepted(hilos[k].op) => remoto'[hilos[k].op].estado = "aceptado"
      BY <3>1 DEF StaysAccepted, Accepted
    <3> QED BY <3>1, <3>2 DEF Carries, Accepted
  <2> QED BY <2>1 DEF Taken
<1>3. \A a \in avisos' : Tells(a)'
  <2>1. ASSUME NEW a \in avisos
        PROVE  Tells(a)'
    <3>1. a.op \in Operaciones /\ Tells(a) BY DEF Avisos, PipeInv, CarriesTruth
    <3> QED BY <3>1 DEF StaysAccepted, Accepted, Tells
  <2> QED BY <2>1 DEF News
<1>4. OnlyBillingTells'
  <2>1. ASSUME ruta # "billing"
        PROVE  avisos' = {} /\ \A k \in Hilos : Plain(k)'
    <3>1. avisos = {} /\ \A k \in Hilos : Plain(k) BY <2>1 DEF PipeInv, OnlyBillingTells, Plain
    <3>2. avisos' = {} BY <2>1, <3>1 DEF News
    <3>3. \A k \in Hilos : Plain(k)' BY <2>1, <3>1 DEF Taken, Plain
    <3> QED BY <3>2, <3>3
  <2> QED BY <2>1 DEF Own, OnlyBillingTells, Plain
<1>5. CarriesTruth' BY <1>2, <1>3 DEF CarriesTruth
<1> QED BY <1>1, <1>4, <1>5 DEF ThreadInv

\* A thread that goes on carries what it carried.
LEMMA OnwardIsTaken ==
  ASSUME PipeInv, NEW h \in Hilos, Onward(h), StaysAccepted
  PROVE  Taken(h)
<1> USE Threads
<1>1. CASE hilos'[h] = Libre
  <2>1. Carries(h)' /\ Plain(h)' BY <1>1, LibreIsOne DEF Carries, Plain
  <2> QED BY <2>1 DEF Taken, Onward
<1>2. CASE hilos'[h] # Libre
  <2>1. /\ hilos'[h].paso # "libre"
        /\ hilos'[h].op = hilos[h].op /\ hilos'[h].foto = hilos[h].foto
        /\ hilos'[h].quien = hilos[h].quien
        /\ hilos'[h].paso = "finalizar" => hilos[h].op # "emision" /\ hilos[h].foto.estado = "aceptado"
        /\ hilos'[h].paso \in {"aplicar", "escribir", "cerrar"} => ruta = "billing"
    BY <1>2 DEF Onward
  <2>2. Carries(h)'
    <3>1. Carries(h) /\ (Accepted(hilos[h].op) => remoto'[hilos[h].op].estado = "aceptado")
      BY DEF StaysAccepted, Accepted
    <3> QED BY <2>1, <3>1 DEF Carries, Accepted
  <2>3. ruta # "billing" => Plain(h)'
    <3>1. ruta # "billing" => hilos[h].quien = "cola" BY DEF PipeInv, OnlyBillingTells
    <3> QED BY <2>1, <3>1 DEF Plain
  <2> QED BY <2>2, <2>3 DEF Taken, Onward
<1> QED BY <1>1, <1>2

\* So it keeps what threads carry.
LEMMA OnwardKeeps ==
  ASSUME PipeInv, NEW h \in Hilos, Onward(h), Own, News, StaysAccepted
  PROVE  ThreadInv'
BY OnwardIsTaken, TakenKeeps

\* So does a step that moves no thread.
LEMMA StillThreads ==
  ASSUME PipeInv, hilos' = hilos, Own, News, StaysAccepted
  PROVE  ThreadInv'
<1> USE Threads
<1>1. PipeTypes' BY DEF Own, News, PipeTypes
<1>2. \A k \in Hilos : Carries(k)'
  <2>1. ASSUME NEW k \in Hilos
        PROVE  Carries(k)'
    <3>1. hilos'[k] = hilos[k] /\ hilos[k].op \in Operaciones /\ Carries(k) OBVIOUS
    <3>2. Accepted(hilos[k].op) => remoto'[hilos[k].op].estado = "aceptado"
      BY <3>1 DEF StaysAccepted, Accepted
    <3> QED BY <3>1, <3>2 DEF Carries, Accepted
  <2> QED BY <2>1
<1>3. \A a \in avisos' : Tells(a)'
  <2>1. ASSUME NEW a \in avisos
        PROVE  Tells(a)'
    <3>1. a.op \in Operaciones /\ Tells(a) BY DEF Avisos, PipeInv, CarriesTruth
    <3> QED BY <3>1 DEF StaysAccepted, Accepted, Tells
  <2> QED BY <2>1 DEF News
<1>4. OnlyBillingTells'
  <2>1. ruta # "billing" => avisos' = {} BY DEF News, PipeInv, OnlyBillingTells
  <2> QED BY <2>1 DEF Own, PipeInv, OnlyBillingTells
<1>5. CarriesTruth' BY <1>2, <1>3 DEF CarriesTruth
<1> QED BY <1>1, <1>4, <1>5 DEF ThreadInv

\* A step that writes nothing of its own forgets nothing.
LEMMA NothingSent ==
  ASSUME PipeInv
  PROVE  /\ UNCHANGED remoto => StaysAccepted
         /\ avisos' \subseteq avisos => News
         /\ (UNCHANGED <<ruta, hora, remoto, tarea>>) => Own
<1>1. UNCHANGED remoto => StaysAccepted BY DEF StaysAccepted, Accepted
<1>2. ASSUME avisos' \subseteq avisos
      PROVE  News
  <2>1. avisos \subseteq Avisos BY Threads
  <2>2. avisos' \subseteq Avisos /\ \A a \in avisos' : a \in avisos BY <1>2, <2>1
  <2> QED BY <2>2 DEF News
<1>3. (UNCHANGED <<ruta, hora, remoto, tarea>>) => Own BY Threads DEF Own
<1> QED BY <1>1, <1>2, <1>3

----------------------------------------
(* The threads, action by action.                                          *)

\* The clock stays an instant.
LEMMA NowGoesOn ==
  ASSUME PipeInv, Now
  PROVE  hora' \in Nat
BY Threads DEF Now

\* Billing takes a request and forgets no acceptance.
LEMMA BillingTakesKeeps ==
  ASSUME PipeInv, NEW o \in Operaciones, BillingTakes(o)
  PROVE  /\ StaysAccepted /\ hora' \in Nat /\ remoto' \in [Operaciones -> Fotos]
<1> USE Threads
<1>1. CASE UNCHANGED <<remoto, hora>> BY <1>1, NothingSent
<1>2. CASE /\ remoto[o].estado \in {"ninguno", "fallido"} /\ Now
           /\ Set(o, [estado |-> "abierto", at |-> hora'])
  <2>1. hora' \in Nat BY <1>2, NowGoesOn
  <2>2. PICK f : f = [estado |-> "abierto", at |-> hora'] OBVIOUS
  <2>3. f \in Fotos BY <2>1, <2>2 DEF Fotos, EstadosRemotos
  <2>4. remoto' = [remoto EXCEPT ![o] = f] BY <1>2, <2>2 DEF Set
  <2>5. remoto' \in [Operaciones -> Fotos] /\ \A x \in Operaciones : x # o => remoto'[x] = remoto[x]
    BY <2>3, <2>4
  <2>6. StaysAccepted BY <1>2, <2>5 DEF StaysAccepted, Accepted
  <2> QED BY <2>1, <2>5, <2>6
<1> QED BY <1>1, <1>2 DEF BillingTakes

\* What is written of an operation keeps the types.
LEMMA RemotoIsSet ==
  ASSUME PipeInv, NEW o \in Operaciones, NEW f \in Fotos, Set(o, f), Accepted(o) => f.estado = "aceptado"
  PROVE  /\ remoto' \in [Operaciones -> Fotos] /\ remoto'[o] = f
         /\ \A x \in Operaciones : x # o => remoto'[x] = remoto[x]
         /\ StaysAccepted
<1>1. /\ remoto' \in [Operaciones -> Fotos] /\ remoto'[o] = f
      /\ \A x \in Operaciones : x # o => remoto'[x] = remoto[x]
  BY Threads DEF Set
<1> QED BY <1>1 DEF StaysAccepted, Accepted

\* A new job, and no job, have their type.
LEMMA NuevaIsOne ==
  /\ Nueva \in Tareas /\ SinTarea \in Tareas /\ Nueva.estado = "pendiente" /\ SinTarea.estado = "ninguna"
BY DEF Nueva, SinTarea, Tareas

\* The state of one job is written.
LEMMA JobIsSet ==
  ASSUME PipeInv, NEW o \in Operaciones,
         NEW estado \in {"pendiente", "finalizada", "muerta"}, Job(o, estado)
  PROVE  /\ tarea' \in [Operaciones -> Tareas] /\ tarea'[o].estado = estado
         /\ \A x \in Operaciones : x # o => tarea'[x] = tarea[x]
<1>1. PICK t : t = [tarea[o] EXCEPT !.estado = estado] OBVIOUS
<1>2. t \in Tareas BY <1>1, Threads DEF Tareas
<1>3. t.estado = estado BY <1>1, Threads DEF Tareas
<1>4. tarea' = [tarea EXCEPT ![o] = t] BY <1>1 DEF Job
<1> QED BY <1>2, <1>3, <1>4, Threads

\* A job is claimed.
LEMMA ClaimTaken ==
  ASSUME PipeInv, NEW h \in Hilos, NEW o \in Operaciones, Claim(h, o)
  PROVE  /\ ThreadInv'
         /\ hilos'[h].op = o /\ \A k \in Hilos : k # h => hilos'[k] = hilos[k]
         /\ tarea'[o].estado = "procesando" /\ \A x \in Operaciones : x # o => tarea'[x] = tarea[x]
<1> USE Threads
<1>1. PICK t : t = [Libre EXCEPT !.paso = "enviar", !.op = o] OBVIOUS
<1>2. t \in ThreadRows BY <1>1, LibreIsOne DEF ThreadRows
<1>3. t.paso = "enviar" /\ t.op = o /\ t.quien = "cola" /\ t.foto.estado = "ninguno"
  BY <1>1, LibreIsOne DEF ThreadRows
<1>4. hilos' = [hilos EXCEPT ![h] = t] BY <1>1 DEF Claim
<1>5. hilos' \in [Hilos -> ThreadRows] /\ hilos'[h] = t /\ \A k \in Hilos : k # h => hilos'[k] = hilos[k]
  BY <1>2, <1>4, ThreadStarts
<1>6. PICK n : n = IF tarea[o].intentos < MaxIntentos THEN tarea[o].intentos + 1 ELSE MaxIntentos
  OBVIOUS
<1>7. tarea[o].intentos \in Nat /\ MaxIntentos \in Nat BY PlatformReceiptsAssumption DEF Tareas
<1>8. n \in Nat BY <1>6, <1>7
<1>9. PICK u : u = [estado |-> "procesando", intentos |-> n] OBVIOUS
<1>10. u \in Tareas BY <1>8, <1>9 DEF Tareas
<1>11. tarea' = [tarea EXCEPT ![o] = u] BY <1>6, <1>9 DEF Claim
<1>12. /\ tarea' \in [Operaciones -> Tareas] /\ tarea'[o].estado = "procesando"
       /\ \A x \in Operaciones : x # o => tarea'[x] = tarea[x]
  BY <1>9, <1>10, <1>11
<1>13. Carries(h)' /\ Plain(h)' BY <1>3, <1>5 DEF Carries, Plain
<1>14. Taken(h) BY <1>5, <1>13 DEF Taken
<1>15. UNCHANGED <<ruta, remoto, avisos, hora>> BY DEF Claim
<1>16. Own /\ News /\ StaysAccepted BY <1>12, <1>15, NothingSent DEF Own
<1> QED BY <1>3, <1>5, <1>12, <1>14, <1>16, TakenKeeps

\* A write fails.
LEMMA StepFailsThreads ==
  ASSUME PipeInv, NEW h \in Hilos, StepFails(h)
  PROVE  ThreadInv' /\ Onward(h) /\ UNCHANGED <<tarea, ruta, remoto>>
<1>1. /\ hilos[h].paso # "libre" /\ Throws(h)
      /\ ruta' = ruta /\ remoto' = remoto /\ tarea' = tarea /\ hora' = hora
  BY DEF StepFails
<1>2. Own /\ StaysAccepted BY <1>1, NothingSent
<1>3. Onward(h) /\ avisos' \subseteq Avisos /\ \A a \in avisos' : a \in avisos \/ (Tells(a) /\ ruta = "billing")
  BY <1>1, ThreadThrows
<1>4. News BY <1>1, <1>3 DEF News, Tells, Accepted
<1> QED BY <1>1, <1>2, <1>3, <1>4, OnwardKeeps

\* The process dies.
LEMMA DieThreads ==
  ASSUME PipeInv, Die
  PROVE  ThreadInv' /\ (\A h \in Hilos : hilos'[h] = Libre) /\ UNCHANGED <<tarea, ruta, remoto>>
<1>1. /\ hilos' = [h \in Hilos |-> Libre]
      /\ ruta' = ruta /\ remoto' = remoto /\ tarea' = tarea /\ hora' = hora /\ avisos' = avisos
  BY DEF Die
<1>2. hilos' \in [Hilos -> ThreadRows] /\ \A h \in Hilos : hilos'[h] = Libre BY <1>1, LibreIsOne
<1>3. PipeTypes' BY <1>1, <1>2 DEF PipeInv, PipeTypes
<1>4. CarriesTruth'
  <2>1. \A h \in Hilos : Carries(h)' BY <1>2, LibreIsOne DEF Carries
  <2>2. \A a \in avisos' : Tells(a)' BY <1>1 DEF PipeInv, CarriesTruth, Tells, Accepted
  <2> QED BY <2>1, <2>2 DEF CarriesTruth
<1>5. OnlyBillingTells' BY <1>1, <1>2, LibreIsOne DEF PipeInv, OnlyBillingTells
<1> QED BY <1>1, <1>2, <1>3, <1>4, <1>5 DEF ThreadInv

\* A document, or a void, is sent to Billing.
LEMMA SendThreads ==
  ASSUME PipeInv, NEW h \in Hilos, Send(h)
  PROVE  ThreadInv' /\ ruta = "billing" /\ ruta' = ruta /\ StaysAccepted
<1> USE Threads
<1>1. PICK o \in Operaciones : o = hilos[h].op OBVIOUS
<1>2. /\ BillingTakes(o) /\ ruta = "billing" /\ ruta' = ruta /\ tarea' = tarea /\ avisos' = avisos
      /\ hilos' = [hilos EXCEPT ![h].paso = "aplicar", ![h].foto = remoto'[o]]
  BY <1>1 DEF Send
<1>3. StaysAccepted /\ hora' \in Nat /\ remoto' \in [Operaciones -> Fotos]
  BY <1>2, BillingTakesKeeps
<1>4. Own /\ News BY <1>2, <1>3, NothingSent DEF Own
<1>5. PICK f \in Fotos : f = remoto'[o] BY <1>3
<1>6. PICK t : t = [hilos[h] EXCEPT !.paso = "aplicar", !.foto = f] OBVIOUS
<1>7. t \in ThreadRows BY <1>6 DEF ThreadRows
<1>8. t.paso = "aplicar" /\ t.foto = f /\ t.op = o BY <1>1, <1>6 DEF ThreadRows
<1>9. hilos' = [hilos EXCEPT ![h] = t] BY <1>2, <1>5, <1>6
<1>10. hilos' \in [Hilos -> ThreadRows] /\ hilos'[h] = t /\ \A k \in Hilos : k # h => hilos'[k] = hilos[k]
  BY <1>7, <1>9, ThreadStarts
<1>11. Carries(h)' BY <1>5, <1>8, <1>10 DEF Carries, Accepted
<1>12. Taken(h) BY <1>2, <1>10, <1>11 DEF Taken
<1> QED BY <1>2, <1>3, <1>4, <1>12, TakenKeeps

\* The call is lost.
LEMMA SendLostThreads ==
  ASSUME PipeInv, NEW h \in Hilos, SendLost(h)
  PROVE  ThreadInv' /\ ruta = "billing" /\ ruta' = ruta /\ StaysAccepted
<1> USE Threads
<1>1. PICK o \in Operaciones : o = hilos[h].op OBVIOUS
<1>2. /\ ruta = "billing" /\ ruta' = ruta /\ tarea' = tarea /\ avisos' = avisos
      /\ hilos[h].paso # "libre" /\ (Go(h, "fallar") \/ Go(h, "rechazada"))
  BY DEF SendLost, At
<1>3. UNCHANGED <<remoto, hora>> \/ BillingTakes(o) BY <1>1 DEF SendLost
<1>4. StaysAccepted /\ hora' \in Nat /\ remoto' \in [Operaciones -> Fotos]
  BY <1>3, BillingTakesKeeps, NothingSent
<1>5. Own /\ News BY <1>2, <1>4, NothingSent DEF Own
<1>6. Onward(h) BY <1>2, ThreadGoes
<1> QED BY <1>2, <1>4, <1>5, <1>6, OnwardKeeps

\* A status is compared with the stamp of the row.
LEMMA ApplyThreads ==
  ASSUME PipeInv, NEW h \in Hilos, Apply(h)
  PROVE  ThreadInv' /\ ruta = "billing" /\ UNCHANGED <<tarea, ruta, remoto>>
<1>1. /\ hilos[h].paso = "aplicar"
      /\ ruta' = ruta /\ remoto' = remoto /\ tarea' = tarea /\ hora' = hora
      /\ Done(h) \/ (Go(h, "escribir") /\ avisos' = avisos)
  BY DEF Apply, At
<1>2. ruta = "billing" BY <1>1 DEF PipeInv, OnlyBillingTells
<1>3. Onward(h) /\ avisos' = avisos BY <1>1, <1>2, ThreadIsDone, ThreadGoes
<1>4. Own /\ StaysAccepted /\ News BY <1>1, <1>3, NothingSent
<1> QED BY <1>1, <1>2, <1>3, <1>4, OnwardKeeps

\* And written.
LEMMA WriteThreads ==
  ASSUME PipeInv, NEW h \in Hilos, Write(h)
  PROVE  ThreadInv' /\ ruta = "billing" /\ UNCHANGED <<tarea, ruta, remoto>>
<1>1. /\ hilos[h].paso = "escribir"
      /\ ruta' = ruta /\ remoto' = remoto /\ tarea' = tarea /\ hora' = hora
      /\ \/ /\ hilos[h].op # "emision" /\ hilos[h].foto.estado = "aceptado"
            /\ Go(h, "finalizar") /\ avisos' = avisos
         \/ Done(h)
  BY DEF Write, WriteIf, At
<1>2. ruta = "billing" BY <1>1 DEF PipeInv, OnlyBillingTells
<1>3. Onward(h) /\ avisos' = avisos BY <1>1, <1>2, ThreadIsDone, ThreadGoes
<1>4. Own /\ StaysAccepted /\ News BY <1>1, <1>3, NothingSent
<1> QED BY <1>1, <1>2, <1>3, <1>4, OnwardKeeps

\* The job ends.
LEMMA CloseThreads ==
  ASSUME PipeInv, NEW h \in Hilos, Close(h)
  PROVE  ThreadInv' /\ ruta = "billing" /\ UNCHANGED <<ruta, remoto>>
<1>1. PICK o \in Operaciones : o = hilos[h].op BY Threads
<1>2. /\ hilos[h].paso = "cerrar" /\ Stop(h) /\ Job(o, "finalizada")
      /\ ruta' = ruta /\ remoto' = remoto /\ hora' = hora /\ avisos' = avisos
  BY <1>1 DEF Close, At
<1>3. ruta = "billing" BY <1>2 DEF PipeInv, OnlyBillingTells
<1>4. Onward(h) BY <1>2, ThreadStops
<1>5. tarea' \in [Operaciones -> Tareas] BY <1>2, JobIsSet
<1>6. Own /\ StaysAccepted /\ News BY <1>2, <1>5, NothingSent, Threads DEF Own
<1> QED BY <1>2, <1>3, <1>4, <1>6, OnwardKeeps

\* The job fails.
LEMMA FailThreads ==
  ASSUME PipeInv, NEW h \in Hilos, Fail(h)
  PROVE  ThreadInv' /\ ruta = "billing" /\ UNCHANGED <<ruta, remoto>>
<1>1. PICK o \in Operaciones : o = hilos[h].op BY Threads
<1>2. /\ ruta = "billing" /\ Stop(h) /\ Now /\ ruta' = ruta /\ remoto' = remoto /\ avisos' = avisos
      /\ Job(o, "muerta") \/ Job(o, "pendiente")
  BY <1>1 DEF Fail
<1>3. Onward(h) BY <1>2, ThreadStops
<1>4. tarea' \in [Operaciones -> Tareas] BY <1>2, JobIsSet
<1>5. hora' \in Nat BY <1>2, NowGoesOn
<1>6. Own /\ StaysAccepted /\ News BY <1>2, <1>4, <1>5, NothingSent, Threads DEF Own
<1> QED BY <1>2, <1>3, <1>6, OnwardKeeps

\* The sale is reversed, was reversed, or cannot be.
LEMMA FinalizeThreads ==
  ASSUME PipeInv, NEW h \in Hilos, Finalize(h), ruta \in {"billing", "sunat"}
  PROVE  /\ ThreadInv' /\ Onward(h) /\ UNCHANGED <<tarea, ruta, remoto>>
         /\ hilos[h].paso = "finalizar"
<1>1. /\ hilos[h].paso = "finalizar"
      /\ ruta' = ruta /\ remoto' = remoto /\ tarea' = tarea /\ hora' = hora
      /\ Finalized(h) \/ Throws(h)
  BY DEF Finalize, At
<1>2. Own /\ StaysAccepted BY <1>1, NothingSent
<1>3. CASE Throws(h)
  <2>1. Onward(h) /\ avisos' \subseteq Avisos /\ \A a \in avisos' : a \in avisos \/ (Tells(a) /\ ruta = "billing")
    BY <1>1, <1>3, ThreadThrows
  <2>2. News BY <1>1, <2>1 DEF News, Tells, Accepted
  <2> QED BY <1>1, <1>2, <2>1, <2>2, OnwardKeeps
<1>4. CASE Finalized(h)
  <2>1. CASE ruta = "billing"
    <3>1. Done(h) BY <1>4, <2>1 DEF Finalized
    <3>2. Onward(h) /\ avisos' = avisos BY <1>1, <2>1, <3>1, ThreadIsDone
    <3>3. News BY <3>2, NothingSent
    <3> QED BY <1>1, <1>2, <3>2, <3>3, OnwardKeeps
  <2>2. CASE ruta # "billing"
    <3>1. Go(h, "registrar") /\ avisos' = avisos BY <1>4, <2>2 DEF Finalized, ToRegister
    <3>2. Onward(h) BY <1>1, <3>1, ThreadGoes
    <3>3. News BY <3>1, NothingSent
    <3> QED BY <1>1, <1>2, <3>2, <3>3, OnwardKeeps
  <2> QED BY <2>1, <2>2
<1> QED BY <1>1, <1>3, <1>4

\* Billing learns the verdict and sends a webhook.
LEMMA BillingDecidesThreads ==
  ASSUME PipeInv, NEW o \in Operaciones, NEW estado \in {"aceptado", "rechazado", "fallido"},
         BillingDecides(o, estado)
  PROVE  ThreadInv' /\ ruta = "billing" /\ ruta' = ruta /\ StaysAccepted
<1> USE Threads
<1>1. /\ ruta = "billing" /\ ruta' = ruta /\ tarea' = tarea /\ hilos' = hilos
      /\ remoto[o].estado = "abierto" /\ Now
  BY DEF BillingDecides
<1>2. hora' \in Nat BY <1>1, NowGoesOn
<1>3. PICK f : f = [estado |-> estado, at |-> hora'] OBVIOUS
<1>4. f \in Fotos /\ f.estado = estado BY <1>2, <1>3 DEF Fotos, EstadosRemotos
<1>5. Set(o, f) BY <1>3 DEF BillingDecides
<1>6. /\ remoto' \in [Operaciones -> Fotos] /\ remoto'[o] = f /\ StaysAccepted
  BY <1>1, <1>4, <1>5, RemotoIsSet DEF Accepted
<1>7. PICK a : a = [op |-> o, foto |-> f] OBVIOUS
<1>8. a \in Avisos /\ a.op = o /\ a.foto = f BY <1>4, <1>7 DEF Avisos
<1>9. avisos' = avisos \cup {a} BY <1>6, <1>7 DEF BillingDecides
<1>10. Tells(a)' BY <1>6, <1>8 DEF Tells, Accepted
<1>11. News BY <1>1, <1>8, <1>9, <1>10 DEF News
<1>12. Own BY <1>1, <1>2, <1>6 DEF Own
<1> QED BY <1>1, <1>6, <1>11, <1>12, StillThreads

\* A webhook is delivered.
LEMMA WebhookThreads ==
  ASSUME PipeInv, NEW h \in Hilos, NEW a \in avisos, Webhook(h, a)
  PROVE  ThreadInv' /\ ruta = "billing" /\ UNCHANGED <<tarea, ruta, remoto>>
<1> USE Threads
<1>1. /\ ruta' = ruta /\ remoto' = remoto /\ tarea' = tarea /\ hora' = hora
      /\ avisos' \subseteq avisos
  BY DEF Webhook
<1>2. ruta = "billing" BY DEF PipeInv, OnlyBillingTells
<1>3. a \in Avisos /\ a.op \in Operaciones /\ a.foto \in Fotos /\ Tells(a)
  BY DEF Avisos, PipeInv, CarriesTruth
<1>4. PICK t : t = [paso |-> "aplicar", op |-> a.op, quien |-> "aviso", foto |-> a.foto] OBVIOUS
<1>5. t \in ThreadRows BY <1>3, <1>4 DEF ThreadRows
<1>6. hilos' = [hilos EXCEPT ![h] = t] BY <1>4 DEF Webhook
<1>7. hilos' \in [Hilos -> ThreadRows] /\ hilos'[h] = t /\ \A k \in Hilos : k # h => hilos'[k] = hilos[k]
  BY <1>5, <1>6, ThreadStarts
<1>8. Own /\ News /\ StaysAccepted BY <1>1, NothingSent
<1>9. Carries(h)' BY <1>1, <1>3, <1>4, <1>7 DEF Carries, Tells, Accepted
<1>10. Taken(h) BY <1>2, <1>7, <1>9 DEF Taken
<1> QED BY <1>1, <1>2, <1>8, <1>10, TakenKeeps

\* The reconciliation reads what Billing has.
LEMMA ReconcileThreads ==
  ASSUME PipeInv, NEW h \in Hilos, NEW o \in Operaciones, Reconcile(h, o)
  PROVE  ThreadInv' /\ ruta = "billing" /\ UNCHANGED <<tarea, ruta, remoto>>
<1> USE Threads
<1>1. /\ ruta' = ruta /\ remoto' = remoto /\ tarea' = tarea /\ hora' = hora
      /\ avisos' = avisos /\ ruta = "billing"
  BY DEF Reconcile
<1>2. PICK f \in Fotos : f = remoto[o] OBVIOUS
<1>3. PICK t : t = [paso |-> "aplicar", op |-> o, quien |-> "conciliacion", foto |-> f] OBVIOUS
<1>4. t \in ThreadRows BY <1>3 DEF ThreadRows
<1>5. hilos' = [hilos EXCEPT ![h] = t] BY <1>2, <1>3 DEF Reconcile
<1>6. hilos' \in [Hilos -> ThreadRows] /\ hilos'[h] = t /\ \A k \in Hilos : k # h => hilos'[k] = hilos[k]
  BY <1>4, <1>5, ThreadStarts
<1>7. Own /\ News /\ StaysAccepted BY <1>1, NothingSent
<1>8. Carries(h)' BY <1>1, <1>2, <1>3, <1>6 DEF Carries, Accepted
<1>9. Taken(h) BY <1>1, <1>6, <1>8 DEF Taken
<1> QED BY <1>1, <1>7, <1>9, TakenKeeps

\* SUNAT decides on a void.
LEMMA SunatDecidesThreads ==
  ASSUME PipeInv, NEW estado \in Verdicts, SunatDecides(estado)
  PROVE  ThreadInv' /\ ruta = "sunat" /\ UNCHANGED <<tarea, ruta, hilos>> /\ StaysAccepted
<1>1. /\ ruta = "sunat" /\ ruta' = ruta /\ tarea' = tarea /\ hora' = hora /\ avisos' = avisos
      /\ hilos' = hilos /\ remoto["baja"].estado = "abierto"
  BY DEF SunatDecides
<1>2. PICK f : f = [estado |-> estado, at |-> 0] OBVIOUS
<1>3. f \in Fotos BY <1>2 DEF Fotos, EstadosRemotos, Verdicts
<1>4. Set("baja", f) /\ "baja" \in Operaciones BY <1>2 DEF SunatDecides, Operaciones
<1>5. ~Accepted("baja") BY <1>1 DEF Accepted
<1>6. remoto' \in [Operaciones -> Fotos] /\ StaysAccepted BY <1>3, <1>4, <1>5, RemotoIsSet
<1>7. Own /\ News BY <1>1, <1>6, Threads, NothingSent DEF Own
<1> QED BY <1>1, <1>6, <1>7, StillThreads

\* A thread keeps its operation in hand, or puts it down.
SameHand(h) ==
  /\ \A k \in Hilos : k # h => hilos'[k] = hilos[k]
  /\ hilos'[h].paso # "libre" => hilos[h].paso # "libre" /\ hilos'[h].op = hilos[h].op
\* Nothing comes into hand.
Fewer ==
  /\ \A k \in Hilos : hilos'[k].paso # "libre" => hilos[k].paso # "libre"
  /\ \A o \in Operaciones : InHand(o)' => InHand(o)

\* A thread that goes on keeps its operation in hand, or puts it down.
LEMMA OnwardSameHand ==
  ASSUME NEW h \in Hilos, Onward(h)
  PROVE  SameHand(h)
BY LibreIsOne DEF Onward, SameHand

\* If it makes no other job wait, nothing comes into hand.
LEMMA SameHandFewer ==
  ASSUME NEW h \in Hilos, SameHand(h),
         \A o \in Operaciones : tarea'[o].estado = "pendiente" => InHand(o)
  PROVE  Fewer
<1>1. \A k \in Hilos : hilos'[k].paso # "libre" => hilos[k].paso # "libre" /\ hilos'[k].op = hilos[k].op
  BY DEF SameHand
<1> QED BY <1>1 DEF Fewer, InHand

\* What SUNAT answered, in the hand of the thread.
LEMMA AnsweredTaken ==
  ASSUME PipeInv, NEW h \in Hilos, NEW o \in Operaciones, NEW r \in Fotos, o = hilos[h].op,
         Answered(h, o, r), hilos[h].paso # "libre", ruta = "sunat",
         (r.estado = "aceptado" => Accepted(o))'
  PROVE  Taken(h) /\ SameHand(h)
<1> USE Threads
<1>1. PICK p \in {"finalizar", "registrar"} :
         p = IF o # "emision" /\ r.estado = "aceptado" THEN "finalizar" ELSE "registrar"
  OBVIOUS
<1>2. PICK t : t = [hilos[h] EXCEPT !.foto = r, !.paso = p] OBVIOUS
<1>3. t \in ThreadRows BY <1>2 DEF ThreadRows
<1>4. t.paso = p /\ t.op = o /\ t.foto = r /\ t.quien = hilos[h].quien BY <1>2 DEF ThreadRows
<1>5. hilos' = [hilos EXCEPT ![h] = t] BY <1>1, <1>2 DEF Answered
<1>6. hilos' \in [Hilos -> ThreadRows] /\ hilos'[h] = t /\ \A k \in Hilos : k # h => hilos'[k] = hilos[k]
  BY <1>3, <1>5, ThreadStarts
<1>7. Carries(h)' BY <1>1, <1>4, <1>6 DEF Carries, Accepted
<1>8. Plain(h)'
  <2>1. hilos[h].quien = "cola" BY DEF PipeInv, OnlyBillingTells
  <2> QED BY <1>1, <1>4, <1>6, <2>1 DEF Plain
<1>9. SameHand(h) BY <1>4, <1>6 DEF SameHand
<1> QED BY <1>6, <1>7, <1>8, <1>9 DEF Taken

\* A boleta or a note is sent to SUNAT.
LEMMA SendBillThreads ==
  ASSUME PipeInv, NEW h \in Hilos, NEW estado \in Verdicts, SendBill(h, estado)
  PROVE  ThreadInv' /\ ruta = "sunat" /\ UNCHANGED <<tarea, ruta>> /\ StaysAccepted /\ SameHand(h)
<1> USE Threads
<1>1. PICK o \in Operaciones : o = hilos[h].op OBVIOUS
<1>2. /\ hilos[h].paso # "libre" /\ ruta = "sunat"
      /\ ruta' = ruta /\ tarea' = tarea /\ hora' = hora /\ avisos' = avisos
      /\ Answered(h, o, remoto'[o]) \/ Go(h, "fallar")
  BY <1>1 DEF SendBill, At
<1>3. PICK e \in EstadosRemotos : e = IF remoto[o] = SinRemoto THEN estado ELSE remoto[o].estado
  BY DEF Fotos, EstadosRemotos, Verdicts
<1>4. PICK f : f = [estado |-> e, at |-> 0] OBVIOUS
<1>5. f \in Fotos /\ f.estado = e BY <1>4 DEF Fotos
<1>6. Set(o, f) BY <1>1, <1>3, <1>4 DEF SendBill
<1>7. Accepted(o) => f.estado = "aceptado" BY <1>3, <1>5 DEF Accepted, SinRemoto
<1>8. remoto' \in [Operaciones -> Fotos] /\ remoto'[o] = f /\ StaysAccepted
  BY <1>5, <1>6, <1>7, RemotoIsSet
<1>9. Own /\ News BY <1>2, <1>8, NothingSent DEF Own
<1>10. CASE Answered(h, o, remoto'[o])
  <2>1. Answered(h, o, f) BY <1>8, <1>10 DEF Answered
  <2>2. (f.estado = "aceptado" => Accepted(o))' BY <1>8 DEF Accepted
  <2>3. Taken(h) /\ SameHand(h) BY <1>1, <1>2, <1>5, <2>1, <2>2, AnsweredTaken
  <2> QED BY <1>2, <1>8, <1>9, <2>3, TakenKeeps
<1>11. CASE Go(h, "fallar")
  <2>1. Onward(h) BY <1>2, <1>11, ThreadGoes
  <2> QED BY <1>2, <1>8, <1>9, <2>1, OnwardKeeps, OnwardSameHand
<1> QED BY <1>2, <1>10, <1>11

\* A void is sent to SUNAT.
LEMMA SendSummaryThreads ==
  ASSUME PipeInv, NEW h \in Hilos, SendSummary(h)
  PROVE  /\ ThreadInv' /\ ruta = "sunat" /\ ruta' = ruta /\ StaysAccepted /\ SameHand(h)
         /\ hilos[h].op = "baja" /\ hilos[h].paso # "libre"
         /\ \A o \in Operaciones : o # "baja" => tarea'[o] = tarea[o]
<1> USE Threads
<1>1. /\ hilos[h].paso # "libre" /\ ruta = "sunat" /\ hilos[h].op = "baja" /\ "baja" \in Operaciones
      /\ ruta' = ruta /\ hora' = hora /\ avisos' = avisos
      /\ \/ tarea' = [tarea EXCEPT !["baja"] = Nueva] /\ Stop(h)
         \/ tarea' = tarea /\ Go(h, "fallar")
  BY DEF SendSummary, At, Operaciones
<1>2. PICK f : f = IF remoto["baja"] = SinRemoto THEN [estado |-> "abierto", at |-> 0] ELSE remoto["baja"]
  OBVIOUS
<1>3. f \in Fotos /\ Set("baja", f) BY <1>1, <1>2 DEF Fotos, EstadosRemotos, SendSummary
<1>4. Accepted("baja") => f.estado = "aceptado" BY <1>2 DEF Accepted, SinRemoto
<1>5. remoto' \in [Operaciones -> Fotos] /\ StaysAccepted BY <1>1, <1>3, <1>4, RemotoIsSet
<1>6. /\ tarea' \in [Operaciones -> Tareas]
      /\ \A o \in Operaciones : o # "baja" => tarea'[o] = tarea[o]
  BY <1>1, NuevaIsOne
<1>7. Own /\ News BY <1>1, <1>5, <1>6, NothingSent DEF Own
<1>8. Onward(h) BY <1>1, ThreadGoes, ThreadStops
<1> QED BY <1>1, <1>5, <1>6, <1>7, <1>8, OnwardKeeps, OnwardSameHand

\* And asked about.
LEMMA GetStatusThreads ==
  ASSUME PipeInv, NEW h \in Hilos, GetStatus(h)
  PROVE  /\ ThreadInv' /\ ruta = "sunat" /\ UNCHANGED <<ruta, remoto>> /\ SameHand(h)
         /\ hilos[h].op = "baja" /\ hilos[h].paso # "libre"
         /\ \A o \in Operaciones : o # "baja" => tarea'[o] = tarea[o]
<1> USE Threads
<1>1. /\ hilos[h].paso # "libre" /\ ruta = "sunat" /\ hilos[h].op = "baja" /\ "baja" \in Operaciones
      /\ ruta' = ruta /\ remoto' = remoto /\ hora' = hora /\ avisos' = avisos
      /\ \/ Job("baja", "pendiente") /\ Stop(h)
         \/ Answered(h, "baja", remoto["baja"]) /\ tarea' = tarea
         \/ Go(h, "fallar") /\ tarea' = tarea
  BY DEF GetStatus, At, Operaciones
<1>2. /\ tarea' \in [Operaciones -> Tareas]
      /\ \A o \in Operaciones : o # "baja" => tarea'[o] = tarea[o]
  BY <1>1, JobIsSet
<1>3. Own /\ News /\ StaysAccepted BY <1>1, <1>2, NothingSent DEF Own
<1>4. CASE Answered(h, "baja", remoto["baja"])
  <2>1. PICK r \in Fotos : r = remoto["baja"] BY <1>1
  <2>2. (r.estado = "aceptado" => Accepted("baja"))' BY <1>1, <2>1 DEF Accepted
  <2>3. Answered(h, "baja", r) BY <1>4, <2>1
  <2>4. Taken(h) /\ SameHand(h) BY <1>1, <2>2, <2>3, AnsweredTaken
  <2> QED BY <1>1, <1>2, <1>3, <2>4, TakenKeeps
<1>5. CASE Stop(h) \/ Go(h, "fallar")
  <2>1. Onward(h) BY <1>1, <1>5, ThreadGoes, ThreadStops
  <2> QED BY <1>1, <1>2, <1>3, <2>1, OnwardKeeps, OnwardSameHand
<1> QED BY <1>1, <1>4, <1>5

\* An answer is registered with the job.
LEMMA RegisterThreads ==
  ASSUME PipeInv, NEW h \in Hilos, Register(h)
  PROVE  /\ ThreadInv' /\ UNCHANGED <<ruta, remoto>> /\ SameHand(h) /\ hilos'[h] = Libre
         /\ hilos[h].paso # "libre" /\ tarea'[hilos[h].op].estado = "finalizada"
         /\ \A o \in Operaciones : o # hilos[h].op => tarea'[o] = tarea[o]
<1> USE Threads
<1>1. PICK o \in Operaciones : o = hilos[h].op OBVIOUS
<1>2. /\ hilos[h].paso # "libre" /\ Stop(h) /\ Job(o, "finalizada")
      /\ ruta' = ruta /\ remoto' = remoto /\ hora' = hora /\ avisos' = avisos
  BY <1>1 DEF Register, At
<1>3. /\ tarea' \in [Operaciones -> Tareas] /\ tarea'[o].estado = "finalizada"
      /\ \A x \in Operaciones : x # o => tarea'[x] = tarea[x]
  BY <1>2, JobIsSet
<1>4. Onward(h) /\ hilos'[h] = Libre BY <1>2, ThreadStops
<1>5. Own /\ News /\ StaysAccepted BY <1>2, <1>3, NothingSent DEF Own
<1> QED BY <1>1, <1>2, <1>3, <1>4, <1>5, OnwardKeeps, OnwardSameHand

\* A failure is registered with the job.
LEMMA RegisterFailureThreads ==
  ASSUME PipeInv, NEW h \in Hilos, RegisterFailure(h)
  PROVE  /\ ThreadInv' /\ ruta = "sunat" /\ UNCHANGED <<ruta, remoto>> /\ SameHand(h) /\ hilos'[h] = Libre
         /\ hilos[h].paso # "libre"
         /\ tarea[hilos[h].op].intentos >= MaxIntentos => tarea'[hilos[h].op].estado = "muerta"
         /\ \A o \in Operaciones : o # hilos[h].op => tarea'[o] = tarea[o]
<1> USE Threads
<1>1. PICK o \in Operaciones : o = hilos[h].op OBVIOUS
<1>2. PICK e \in {"pendiente", "muerta"} : e = IF tarea[o].intentos < MaxIntentos THEN "pendiente" ELSE "muerta"
  OBVIOUS
<1>3. /\ hilos[h].paso # "libre" /\ Stop(h) /\ Job(o, e) /\ ruta = "sunat"
      /\ ruta' = ruta /\ remoto' = remoto /\ hora' = hora /\ avisos' = avisos
  BY <1>1, <1>2 DEF RegisterFailure, At
<1>4. /\ tarea' \in [Operaciones -> Tareas] /\ tarea'[o].estado = e
      /\ \A x \in Operaciones : x # o => tarea'[x] = tarea[x]
  BY <1>3, JobIsSet
<1>5. tarea[o].intentos >= MaxIntentos => e = "muerta"
  <2>1. tarea[o].intentos \in Nat /\ MaxIntentos \in Nat BY PlatformReceiptsAssumption DEF Tareas
  <2> QED BY <1>2, <2>1
<1>6. Onward(h) /\ hilos'[h] = Libre BY <1>3, ThreadStops
<1>7. Own /\ News /\ StaysAccepted BY <1>3, <1>4, NothingSent DEF Own
<1> QED BY <1>1, <1>3, <1>4, <1>5, <1>6, <1>7, OnwardKeeps, OnwardSameHand

\* An administrator retries an operation.
LEMMA RetryThreads ==
  ASSUME PipeInv, NEW o \in Operaciones, Retry(o)
  PROVE  /\ ThreadInv' /\ UNCHANGED <<ruta, remoto, hilos>>
         /\ \A x \in Operaciones : x # o => tarea'[x] = tarea[x]
<1> USE Threads
<1>1. /\ Now /\ tarea' = [tarea EXCEPT ![o] = Nueva]
      /\ ruta' = ruta /\ remoto' = remoto /\ hilos' = hilos /\ avisos' = avisos
  BY DEF Retry
<1>2. hora' \in Nat BY <1>1, NowGoesOn
<1>3. tarea' \in [Operaciones -> Tareas] /\ \A x \in Operaciones : x # o => tarea'[x] = tarea[x]
  BY <1>1, NuevaIsOne
<1>4. Own /\ News /\ StaysAccepted BY <1>1, <1>2, <1>3, NothingSent DEF Own
<1> QED BY <1>1, <1>3, <1>4, StillThreads

\* A job is queued.
LEMMA QueueThreads ==
  ASSUME PipeInv, NEW o \in Operaciones, Queue(o), UNCHANGED <<ruta, avisos, hilos>>
  PROVE  /\ ThreadInv' /\ UNCHANGED remoto /\ tarea'[o] = Nueva
         /\ \A x \in Operaciones : x # o => tarea'[x] = tarea[x]
<1> USE Threads
<1>1. (UNCHANGED hora \/ Now) /\ tarea' = [tarea EXCEPT ![o] = Nueva] /\ remoto' = remoto
  BY DEF Queue
<1>2. hora' \in Nat BY <1>1, NowGoesOn
<1>3. /\ tarea' \in [Operaciones -> Tareas] /\ tarea'[o] = Nueva
      /\ \A x \in Operaciones : x # o => tarea'[x] = tarea[x]
  BY <1>1, NuevaIsOne
<1>4. Own /\ News /\ StaysAccepted BY <1>1, <1>2, <1>3, NothingSent DEF Own
<1> QED BY <1>1, <1>3, <1>4, StillThreads

\* A sale without a job.
LEMMA NoJobThreads ==
  ASSUME PipeInv, NoJob, UNCHANGED <<ruta, avisos, hilos>>
  PROVE  ThreadInv' /\ UNCHANGED <<remoto, tarea>>
<1>1. /\ hora' = hora /\ tarea' = tarea /\ remoto' = remoto BY DEF NoJob
<1>2. Own /\ News /\ StaysAccepted BY <1>1, NothingSent
<1> QED BY <1>1, <1>2, StillThreads

\* A void is asked for when no answer to an earlier one is on its way.
LEMMA QueueVoidThreads ==
  ASSUME PipeInv, QueueVoid, UNCHANGED <<ruta, avisos, hilos>>, ruta = "sunat" => ~InHand("baja")
  PROVE  /\ ThreadInv'
         /\ \A x \in {"nota", "emision"} : remoto'[x] = remoto[x]
         /\ ruta = "billing" => UNCHANGED remoto
         /\ ruta = "sunat" => /\ tarea'["emision"] = SinTarea
                              /\ tarea'["nota"] = tarea["nota"]
<1> USE Threads
<1>1. Now /\ ruta' = ruta /\ avisos' = avisos /\ hilos' = hilos /\ "baja" \in Operaciones /\ "emision" \in Operaciones
      /\ "nota" \in Operaciones
  BY DEF QueueVoid, Operaciones
<1>2. hora' \in Nat BY <1>1, NowGoesOn
<1>3. CASE ruta = "billing" /\ tarea' = [tarea EXCEPT !["baja"] = Nueva] /\ remoto' = remoto
  <2>1. tarea' \in [Operaciones -> Tareas] BY <1>3, <1>1, NuevaIsOne
  <2>2. Own /\ News /\ StaysAccepted BY <1>1, <1>2, <1>3, <2>1, NothingSent DEF Own
  <2> QED BY <1>1, <1>3, <2>2, StillThreads
<1>4. CASE /\ ruta = "sunat" /\ tarea' = [tarea EXCEPT !["emision"] = SinTarea, !["baja"] = Nueva]
           /\ Set("baja", SinRemoto)
  <2>1. /\ tarea' \in [Operaciones -> Tareas]
        /\ tarea'["emision"] = SinTarea /\ tarea'["nota"] = tarea["nota"]
    BY <1>4, <1>1, NuevaIsOne
  <2>2. SinRemoto \in Fotos BY DEF SinRemoto, Fotos, EstadosRemotos
  <2>3. /\ remoto' \in [Operaciones -> Fotos]
        /\ \A x \in Operaciones : x # "baja" => remoto'[x] = remoto[x]
    BY <1>4, <1>1, <2>2 DEF Set
  <2>4. PipeTypes' BY <1>1, <1>2, <2>1, <2>3 DEF PipeTypes
  <2>5. \A k \in Hilos : Carries(k)'
    <3>1. ASSUME NEW k \in Hilos
          PROVE  Carries(k)'
      <4>1. hilos[k].paso # "libre" => hilos[k].op # "baja" BY <1>4 DEF InHand
      <4>2. Carries(k) /\ hilos'[k] = hilos[k] /\ hilos[k].op \in Operaciones BY <1>1
      <4> QED BY <2>3, <4>1, <4>2 DEF Carries, Accepted
    <3> QED BY <3>1
  <2>6. avisos' = {} BY <1>1, <1>4 DEF PipeInv, OnlyBillingTells
  <2>7. CarriesTruth' BY <2>5, <2>6 DEF CarriesTruth
  <2>8. OnlyBillingTells' BY <1>1 DEF PipeInv, OnlyBillingTells
  <2> QED BY <1>1, <1>4, <2>1, <2>3, <2>4, <2>7, <2>8 DEF ThreadInv
<1> QED BY <1>3, <1>4 DEF QueueVoid

----------------------------------------
(* The boleta, action by action.                                           *)

BoletasStay ==
  /\ Boletas' = Boletas
  /\ \A c \in Boletas : /\ comprobantes'[c].estado = comprobantes[c].estado
                        /\ comprobantes'[c].baja = comprobantes[c].baja
BoletasSet(estado) ==
  /\ Boletas' = Boletas
  /\ \A c \in Boletas : /\ comprobantes'[c].estado = estado
                        /\ comprobantes'[c].baja = comprobantes[c].baja

\* Without a step of the sales no boleta changes.
LEMMA VarsStay ==
  ASSUME UNCHANGED vars
  PROVE  BoletasStay
BY DEF vars, BoletasStay, Boletas

\* One receipt changes, and keeps its kind.
LEMMA RowChanges ==
  ASSUME SalesInv, NEW c \in DOMAIN comprobantes, NEW v \in ReceiptRows,
         comprobantes' = [comprobantes EXCEPT ![c] = v], v.tipo = comprobantes[c].tipo
  PROVE  /\ Boletas' = Boletas /\ comprobantes'[c] = v
         /\ \A d \in Boletas : d # c => comprobantes'[d] = comprobantes[d]
<1>1. comprobantes \in Seq(ReceiptRows) BY Rows
<1>2. DOMAIN comprobantes' = DOMAIN comprobantes /\ comprobantes'[c] = v
      /\ \A d \in DOMAIN comprobantes : d # c => comprobantes'[d] = comprobantes[d]
  BY <1>1
<1> QED BY <1>2 DEF Boletas

\* The boleta gets a state.
LEMMA ProcessedSets ==
  ASSUME SalesInv, OneBoleta, NEW c \in Boletas, NEW estado \in OnTheWay, Processed(c, estado)
  PROVE  BoletasSet(estado)
<1>1. c \in DOMAIN comprobantes /\ \A d \in Boletas : d = c BY DEF Boletas, OneBoleta
<1>2. comprobantes[c] \in ReceiptRows BY <1>1, Rows
<1>3. PICK x \in BOOLEAN : x <=> (comprobantes[c].reabierto \/ comprobantes[c].estado = "anulado")
  OBVIOUS
<1>4. PICK v : v = [comprobantes[c] EXCEPT !.estado = estado, !.reabierto = x] OBVIOUS
<1>5. v \in ReceiptRows BY <1>2, <1>3, <1>4 DEF ReceiptRows, OnTheWay
<1>6. v.tipo = comprobantes[c].tipo /\ v.estado = estado /\ v.baja = comprobantes[c].baja
  BY <1>2, <1>4 DEF ReceiptRows
<1>7. comprobantes[c].reabierto \in BOOLEAN BY <1>2 DEF ReceiptRows
<1>8. (comprobantes[c].reabierto \/ comprobantes[c].estado = "anulado") = x BY <1>3, <1>7
<1>9. comprobantes' = [comprobantes EXCEPT ![c] = v] BY <1>4, <1>8 DEF Processed
<1> QED BY <1>1, <1>5, <1>6, <1>9, RowChanges DEF BoletasSet

\* So it does when its row is written.
LEMMA SetEstadoSets ==
  ASSUME SalesInv, OneBoleta, NEW o \in {"emision", "baja"}, NEW estado \in OnTheWay, SetEstado(o, estado)
  PROVE  BoletasSet(estado) /\ Boletas # {}
<1>1. PICK c \in Boletas : IF comprobantes[c].estado = estado THEN UNCHANGED vars ELSE Processed(c, estado)
  BY DEF SetEstado
<1>2. CASE comprobantes[c].estado = estado
  <2>1. BoletasStay /\ \A d \in Boletas : d = c BY <1>1, <1>2, VarsStay DEF OneBoleta
  <2> QED BY <1>2, <2>1 DEF BoletasStay, BoletasSet
<1>3. CASE comprobantes[c].estado # estado BY <1>1, <1>3, ProcessedSets
<1> QED BY <1>2, <1>3

\* Writing the row of the note leaves the boleta alone.
LEMMA SetNotaStays ==
  ASSUME NEW estado, SetEstado("nota", estado)
  PROVE  BoletasStay
BY VarsStay DEF SetEstado

\* Reversing the sale annuls the boleta.
LEMMA FinalizeSets ==
  ASSUME SalesInv, OneBoleta, NEW c \in Boletas, FinalizeAccepted(c)
  PROVE  BoletasSet("anulado")
<1>1. c \in DOMAIN comprobantes /\ \A d \in Boletas : d = c BY DEF Boletas, OneBoleta
<1>2. comprobantes[c] \in ReceiptRows BY <1>1, Rows
<1>3. PICK x : x = IF comprobantes[c].cobro = "no" THEN "no" ELSE "anulado" OBVIOUS
<1>4. PICK v : v = [comprobantes[c] EXCEPT !.estado = "anulado", !.cobro = x] OBVIOUS
<1>5. v \in ReceiptRows BY <1>2, <1>3, <1>4 DEF ReceiptRows
<1>6. v.tipo = comprobantes[c].tipo /\ v.estado = "anulado" /\ v.baja = comprobantes[c].baja
  BY <1>2, <1>4 DEF ReceiptRows
<1>7. (IF comprobantes[c].cobro = "no" THEN comprobantes[c].cobro ELSE "anulado") = x BY <1>3
<1>8. comprobantes' = [comprobantes EXCEPT ![c] = v]
  BY <1>4, <1>7 DEF FinalizeAccepted, ReverseSource
<1> QED BY <1>1, <1>5, <1>6, <1>8, RowChanges DEF BoletasSet

\* Annulling a nota de venta leaves the boleta alone.
LEMMA NotasStay ==
  ASSUME SalesInv, NEW c \in DOMAIN comprobantes \ Boletas, RequestCancellation(c)
  PROVE  BoletasStay
<1>1. c \in DOMAIN comprobantes /\ comprobantes[c].tipo # "boleta" BY DEF Boletas
<1>2. comprobantes[c] \in ReceiptRows BY <1>1, Rows
<1>3. PICK x : x = IF comprobantes[c].cobro = "no" THEN "no" ELSE "anulado" OBVIOUS
<1>4. PICK v : v = [comprobantes[c] EXCEPT !.estado = "anulado", !.cobro = x] OBVIOUS
<1>5. v \in ReceiptRows BY <1>2, <1>3, <1>4 DEF ReceiptRows
<1>6. v.tipo = comprobantes[c].tipo BY <1>2, <1>4 DEF ReceiptRows
<1>7. (IF comprobantes[c].cobro = "no" THEN comprobantes[c].cobro ELSE "anulado") = x BY <1>3
<1>8. comprobantes' = [comprobantes EXCEPT ![c] = v]
  BY <1>1, <1>4, <1>7 DEF RequestCancellation, ReverseSource
<1>9. /\ Boletas' = Boletas
      /\ \A d \in Boletas : d # c => comprobantes'[d] = comprobantes[d]
  BY <1>1, <1>5, <1>6, <1>8, RowChanges
<1> QED BY <1>9 DEF BoletasStay

\* A void is asked for of a boleta that is accepted.
LEMMA VoidAsked ==
  ASSUME SalesInv, OneBoleta, NEW c \in Boletas, RequestCancellation(c)
  PROVE  /\ Boletas' = Boletas
         /\ \A d \in Boletas : /\ comprobantes[d].estado = "aceptado"
                               /\ comprobantes'[d].estado = "anulacion_pendiente" /\ comprobantes'[d].baja
<1>1. /\ c \in DOMAIN comprobantes /\ \A d \in Boletas : d = c
      /\ comprobantes[c].tipo = "boleta"
  BY DEF Boletas, OneBoleta
<1>2. comprobantes[c] \in ReceiptRows BY <1>1, Rows
<1>3. PICK v : v = [comprobantes[c] EXCEPT !.estado = "anulacion_pendiente", !.baja = TRUE] OBVIOUS
<1>4. v \in ReceiptRows BY <1>2, <1>3 DEF ReceiptRows
<1>5. v.tipo = comprobantes[c].tipo /\ v.estado = "anulacion_pendiente" /\ v.baja
  BY <1>2, <1>3 DEF ReceiptRows
<1>6. comprobantes[c].estado = "aceptado" /\ comprobantes' = [comprobantes EXCEPT ![c] = v]
  BY <1>1, <1>3 DEF RequestCancellation
<1> QED BY <1>1, <1>4, <1>5, <1>6, RowChanges

\* Asking for a note leaves the state of the boleta alone.
LEMMA NoteAsked ==
  ASSUME SalesInv, NEW c \in Boletas, CreateCreditNote(c)
  PROVE  BoletasStay
<1>1. c \in DOMAIN comprobantes BY DEF Boletas
<1>2. comprobantes[c] \in ReceiptRows BY <1>1, Rows
<1>3. PICK v : v = [comprobantes[c] EXCEPT !.nota = TRUE] OBVIOUS
<1>4. v \in ReceiptRows BY <1>2, <1>3 DEF ReceiptRows
<1>5. v.tipo = comprobantes[c].tipo /\ v.estado = comprobantes[c].estado /\ v.baja = comprobantes[c].baja
  BY <1>2, <1>3 DEF ReceiptRows
<1>6. comprobantes' = [comprobantes EXCEPT ![c] = v] BY <1>3 DEF CreateCreditNote
<1> QED BY <1>1, <1>4, <1>5, <1>6, RowChanges DEF BoletasStay

\* A sale of a boleta is not annulled from the list.
LEMMA CancelSaleStays ==
  ASSUME SalesInv, NEW i \in DOMAIN pagos, CancelSale(i)
  PROVE  BoletasStay
<1>1. \A c \in ReceiptOf(i) : comprobantes[c].tipo = "nota_venta" BY DEF CancelSale, CancelSaleIf
<1>2. comprobantes' = [c \in DOMAIN comprobantes |->
         IF c \in ReceiptOf(i) THEN [comprobantes[c] EXCEPT !.estado = "anulado"] ELSE comprobantes[c]]
  BY DEF CancelSale, CancelSaleIf
<1>3. DOMAIN comprobantes' = DOMAIN comprobantes BY <1>2
<1>4. \A c \in DOMAIN comprobantes : c \notin ReceiptOf(i) => comprobantes'[c] = comprobantes[c]
  BY <1>2
<1>5. \A c \in DOMAIN comprobantes : comprobantes'[c].tipo = comprobantes[c].tipo
  <2>1. ASSUME NEW c \in DOMAIN comprobantes, c \in ReceiptOf(i)
        PROVE  comprobantes'[c].tipo = comprobantes[c].tipo
    <3>1. comprobantes[c] \in ReceiptRows BY Rows
    <3>2. PICK v : v = [comprobantes[c] EXCEPT !.estado = "anulado"] OBVIOUS
    <3>3. v.tipo = comprobantes[c].tipo BY <3>1, <3>2 DEF ReceiptRows
    <3>4. comprobantes'[c] = v BY <1>2, <2>1, <3>2
    <3> QED BY <3>3, <3>4
  <2> QED BY <1>4, <2>1
<1>6. Boletas' = Boletas BY <1>3, <1>5 DEF Boletas
<1>7. \A c \in Boletas : c \in DOMAIN comprobantes /\ c \notin ReceiptOf(i) BY <1>1 DEF Boletas
<1> QED BY <1>4, <1>6, <1>7 DEF BoletasStay

\* A sale makes a boleta, which is pending, or leaves the one there is alone.
LEMMA SoldReceipt ==
  ASSUME SalesInv, NEW codigo, NEW tipo \in Tipos, CreateSale(codigo, FALSE, tipo)
  PROVE  /\ tipo # "boleta" => BoletasStay
         /\ tipo = "boleta" /\ Boletas = {} =>
              \E n : /\ Boletas' = {n}
                     /\ comprobantes'[n].estado = "pendiente" /\ ~comprobantes'[n].baja
<1>1. PICK pago, asistencia : comprobantes' = Append(comprobantes, Comprobante(tipo, pago, asistencia, FALSE))
  BY DEF CreateSale, CreateCheckout
<1>2. PICK r : r = Comprobante(tipo, pago, asistencia, FALSE) OBVIOUS
<1>3. r.tipo = tipo /\ r.baja = FALSE /\ (tipo = "boleta" => r.estado = "pendiente")
  BY <1>2 DEF Comprobante
<1>4. comprobantes \in Seq(ReceiptRows \cup {r})
  <2>1. comprobantes \in Seq(ReceiptRows) BY Rows
  <2> QED BY <2>1
<1>5. PICK n \in Nat \ {0} : n = Len(comprobantes) + 1 BY <1>4
<1>6. /\ DOMAIN comprobantes = 1..(n - 1) /\ DOMAIN comprobantes' = 1..n
      /\ comprobantes'[n] = r /\ \A c \in DOMAIN comprobantes : comprobantes'[c] = comprobantes[c]
  <2>1. comprobantes' = Append(comprobantes, r) /\ r \in ReceiptRows \cup {r} BY <1>1, <1>2
  <2>2. PICK S : S = ReceiptRows \cup {r} OBVIOUS
  <2>3. comprobantes \in Seq(S) /\ r \in S BY <1>4, <2>1, <2>2
  <2>4. comprobantes' \in Seq(S) /\ Len(comprobantes') = n BY <1>5, <2>1, <2>3
  <2>5. DOMAIN comprobantes = 1..(n - 1) /\ DOMAIN comprobantes' = 1..n BY <1>5, <2>3, <2>4
  <2> QED BY <1>5, <2>1, <2>3, <2>5
<1>7. Boletas' = Boletas \cup (IF tipo = "boleta" THEN {n} ELSE {})
  <2>1. \A c : c \in Boletas' <=> c \in 1..n /\ comprobantes'[c].tipo = "boleta" BY <1>6 DEF Boletas
  <2>2. \A c : c \in Boletas <=> c \in 1..(n - 1) /\ comprobantes[c].tipo = "boleta"
    BY <1>6 DEF Boletas
  <2>3. \A c \in 1..(n - 1) : c # n /\ c \in 1..n /\ comprobantes'[c] = comprobantes[c] BY <1>6
  <2>4. n \in 1..n /\ \A c \in 1..n : c = n \/ c \in 1..(n - 1) OBVIOUS
  <2>5. comprobantes'[n].tipo = tipo BY <1>3, <1>6
  <2> QED BY <2>1, <2>2, <2>3, <2>4, <2>5
<1>8. \A c \in Boletas : comprobantes'[c] = comprobantes[c] BY <1>6 DEF Boletas
<1>9. tipo # "boleta" => BoletasStay BY <1>7, <1>8 DEF BoletasStay
<1>10. ASSUME tipo = "boleta", Boletas = {}
       PROVE  Boletas' = {n} /\ comprobantes'[n].estado = "pendiente" /\ ~comprobantes'[n].baja
  BY <1>3, <1>6, <1>7, <1>10
<1> QED BY <1>9, <1>10

----------------------------------------
(* The steps.                                                              *)

Moves == SaleNext \/ UNCHANGED vars

\* The invariant, from its parts.
LEMMA PipeFromParts ==
  ASSUME ThreadInv', OneBoleta', OneAtATime', AnnulledWasAccepted'
  PROVE  PipeInv'
BY DEF ThreadInv, PipeInv

\* There is still one boleta.
LEMMA OneKept ==
  ASSUME PipeInv, ruta' = ruta, Boletas' = Boletas
  PROVE  OneBoleta'
BY DEF PipeInv, OneBoleta

\* A boleta that stays as it is stays annulled with reason.
LEMMA StayAnnulled ==
  ASSUME PipeInv, BoletasStay, StaysAccepted
  PROVE  AnnulledWasAccepted'
<1>1. Boletas' = Boletas /\ \A c \in Boletas : comprobantes'[c].estado = comprobantes[c].estado
  BY DEF BoletasStay
<1>2. \A c \in Boletas : comprobantes[c].estado = "anulado" => Accepted("baja") \/ Accepted("nota")
  BY DEF PipeInv, AnnulledWasAccepted
<1>3. (Accepted("baja") => Accepted("baja")') /\ (Accepted("nota") => Accepted("nota")')
  BY DEF StaysAccepted, Operaciones
<1> QED BY <1>1, <1>2, <1>3 DEF AnnulledWasAccepted

\* A boleta is annulled with reason.
LEMMA SetAnnulled ==
  ASSUME PipeInv, NEW e, BoletasSet(e), e # "anulado" \/ Accepted("baja")' \/ Accepted("nota")'
  PROVE  AnnulledWasAccepted'
BY DEF BoletasSet, AnnulledWasAccepted

\* Through Billing jobs may run side by side.
LEMMA HandsElsewhere ==
  ASSUME ruta' = ruta, ruta # "sunat"
  PROVE  OneAtATime'
BY DEF OneAtATime

\* At most one thread is at work.
Single == \A h, k \in Hilos : hilos[h].paso # "libre" /\ hilos[k].paso # "libre" => h = k

\* Directly: a boleta that stays, and nothing of it that comes into hand.
LEMMA HandsStayOne ==
  ASSUME PipeInv, ruta' = ruta, BoletasStay, ruta = "sunat" => Single',
         \A o \in {"emision", "baja"} : InHand(o)' => InHand(o),
         Boletas = {} => \A o \in Operaciones : InHand(o)' => InHand(o)
  PROVE  OneAtATime'
<1>1. ASSUME ruta = "sunat"
      PROVE  OneAtATime'
  <2>1. \A c \in Boletas :
          /\ InHand("emision") => comprobantes[c].estado # "aceptado" /\ ~comprobantes[c].baja
          /\ InHand("baja")    => comprobantes[c].estado # "aceptado" /\ comprobantes[c].baja
    BY <1>1 DEF PipeInv, OneAtATime
  <2>2. \A c \in Boletas' :
          /\ InHand("emision")' => comprobantes'[c].estado # "aceptado" /\ ~comprobantes'[c].baja
          /\ InHand("baja")'    => comprobantes'[c].estado # "aceptado" /\ comprobantes'[c].baja
    BY <2>1 DEF BoletasStay
  <2>3. Boletas' = {} => \A o \in Operaciones : ~InHand(o)'
    BY <1>1 DEF BoletasStay, PipeInv, OneAtATime
  <2> QED BY <1>1, <2>2, <2>3 DEF OneAtATime, Single
<1> QED BY <1>1, HandsElsewhere

\* When nothing comes into hand one thread at most is at work.
LEMMA FewerSingle ==
  ASSUME PipeInv, ruta = "sunat", Fewer
  PROVE  Single'
BY DEF Fewer, PipeInv, OneAtATime, Single

\* The same, when nothing comes into hand at all.
LEMMA HandsStay ==
  ASSUME PipeInv, ruta' = ruta, BoletasStay, ruta = "sunat" => Fewer
  PROVE  OneAtATime'
<1>1. ASSUME ruta = "sunat"
      PROVE  OneAtATime'
  <2>1. \A o \in Operaciones : InHand(o)' => InHand(o) BY <1>1 DEF Fewer
  <2>2. \A o \in {"emision", "baja"} : InHand(o)' => InHand(o) BY <2>1 DEF Operaciones
  <2>3. Single' BY <1>1, FewerSingle
  <2> QED BY <2>1, <2>2, <2>3, HandsStayOne
<1> QED BY <1>1, HandsElsewhere

\* Directly: the boleta gets a state; accepted, only when nothing of it is in hand.
LEMMA HandsSet ==
  ASSUME PipeInv, ruta' = ruta, NEW e, BoletasSet(e), Fewer, ruta = "sunat",
         e # "aceptado" \/ (~InHand("emision")' /\ ~InHand("baja")')
  PROVE  OneAtATime'
<1>1. \A h, k \in Hilos : hilos'[h].paso # "libre" /\ hilos'[k].paso # "libre" => h = k
  BY DEF Fewer, PipeInv, OneAtATime
<1>2. \A o \in Operaciones : InHand(o)' => InHand(o) BY DEF Fewer
<1>3. "emision" \in Operaciones /\ "baja" \in Operaciones BY DEF Operaciones
<1>4. \A c \in Boletas :
        /\ InHand("emision") => ~comprobantes[c].baja
        /\ InHand("baja")    => comprobantes[c].baja
  BY DEF PipeInv, OneAtATime
<1>5. \A c \in Boletas' :
        /\ InHand("emision")' => comprobantes'[c].estado # "aceptado" /\ ~comprobantes'[c].baja
        /\ InHand("baja")'    => comprobantes'[c].estado # "aceptado" /\ comprobantes'[c].baja
  BY <1>2, <1>3, <1>4 DEF BoletasSet
<1>6. Boletas' = {} => \A o \in Operaciones : ~InHand(o)'
  BY <1>2 DEF BoletasSet, PipeInv, OneAtATime
<1> QED BY <1>1, <1>5, <1>6 DEF OneAtATime

\* Writing the row of an operation is a step of the sale.
LEMMA RowIsSale ==
  ASSUME NEW o, NEW estado \in OnTheWay, SetEstado(o, estado)
  PROVE  Moves
<1>1. CASE o = "nota" BY <1>1 DEF SetEstado, Moves
<1>2. CASE o # "nota"
  <2>1. PICK c \in Boletas : UNCHANGED vars \/ Processed(c, estado) BY <1>2 DEF SetEstado
  <2>2. c \in DOMAIN comprobantes BY DEF Boletas
  <2> QED BY <2>1, <2>2 DEF Moves, SaleNext
<1> QED BY <1>1, <1>2

\* A step that leaves the sale alone, and neither forgets an acceptance nor,
\* directly, takes up a job.
LEMMA QuietPipe ==
  ASSUME PipeInv, ThreadInv', UNCHANGED vars, ruta' = ruta, StaysAccepted, ruta = "sunat" => Fewer
  PROVE  PipeInv' /\ Moves
<1>1. BoletasStay BY VarsStay
<1>2. OneBoleta' /\ AnnulledWasAccepted' BY <1>1, OneKept, StayAnnulled DEF BoletasStay
<1>3. OneAtATime' BY <1>1, HandsStay, HandsElsewhere
<1> QED BY <1>2, <1>3, PipeFromParts DEF Moves

\* What nobody answers stays accepted.
LEMMA UnmovedRemoto ==
  ASSUME UNCHANGED remoto
  PROVE  StaysAccepted
BY DEF StaysAccepted, Accepted

----------------------------------------
(* Through Billing.                                                        *)

\* The calls to Billing and the ends of its jobs keep the invariant.
LEMMA BillingSteps ==
  ASSUME SalesInv, PipeInv, NEW h \in Hilos,
         Send(h) \/ SendLost(h) \/ Apply(h) \/ Close(h)
  PROVE  PipeInv' /\ Moves
<1>1. UNCHANGED vars BY DEF Send, SendLost, Apply, Close
<1>2. ThreadInv' /\ ruta = "billing" /\ ruta' = ruta /\ StaysAccepted
  BY SendThreads, SendLostThreads, ApplyThreads, CloseThreads, UnmovedRemoto
<1> QED BY <1>1, <1>2, QuietPipe

\* So does what Billing tells.
LEMMA NewsSteps ==
  ASSUME SalesInv, PipeInv,
         \/ \E o \in Operaciones, estado \in Verdicts \cup {"fallido"} : BillingDecides(o, estado)
         \/ \E h \in Hilos, a \in avisos : Webhook(h, a)
         \/ \E h \in Hilos, o \in Operaciones : Reconcile(h, o)
  PROVE  PipeInv' /\ Moves
<1>1. UNCHANGED vars BY DEF BillingDecides, Webhook, Reconcile
<1>2. Verdicts \cup {"fallido"} = {"aceptado", "rechazado", "fallido"} BY DEF Verdicts
<1>3. ThreadInv' /\ ruta = "billing" /\ ruta' = ruta /\ StaysAccepted
  BY <1>2, BillingDecidesThreads, WebhookThreads, ReconcileThreads, UnmovedRemoto
<1> QED BY <1>1, <1>3, QuietPipe

\* The row is written, of the emission or of the note, other than directly.
LEMMA RowIsWritten ==
  ASSUME SalesInv, PipeInv, ThreadInv', ruta # "sunat", UNCHANGED <<ruta, remoto>>,
         NEW o \in Operaciones, NEW estado \in OnTheWay, SetEstado(o, estado)
  PROVE  PipeInv' /\ Moves
<1>1. StaysAccepted /\ OneAtATime' BY UnmovedRemoto, HandsElsewhere
<1>2. OneBoleta BY DEF PipeInv
<1>3. CASE o = "nota"
  <2>1. BoletasStay BY <1>3, SetNotaStays
  <2> QED BY <1>1, <2>1, OneKept, StayAnnulled, PipeFromParts, RowIsSale DEF BoletasStay
<1>4. CASE o # "nota"
  <2>1. o \in {"emision", "baja"} /\ estado # "anulado" BY <1>4 DEF Operaciones, OnTheWay
  <2>2. BoletasSet(estado) BY <1>2, <2>1, SetEstadoSets
  <2>3. AnnulledWasAccepted' /\ OneBoleta' BY <2>1, <2>2, SetAnnulled, OneKept DEF BoletasSet
  <2> QED BY <1>1, <2>3, PipeFromParts, RowIsSale
<1> QED BY <1>3, <1>4

\* So does writing what it told.
LEMMA WriteStep ==
  ASSUME SalesInv, PipeInv, NEW h \in Hilos, Write(h)
  PROVE  PipeInv' /\ Moves
<1>1. ThreadInv' /\ ruta = "billing" /\ ruta' = ruta /\ remoto' = remoto BY WriteThreads
<1>2. PICK o \in Operaciones : o = hilos[h].op BY Threads
<1>3. CASE o = "baja"
  <2>1. UNCHANGED vars BY <1>2, <1>3 DEF Write, WriteIf
  <2> QED BY <1>1, <2>1, UnmovedRemoto, QuietPipe
<1>4. CASE o # "baja"
  <2>1. PICK e : e = LocalStatus(hilos[h].foto.estado) OBVIOUS
  <2>2. hilos[h].foto.estado \in EstadosRemotos BY Threads DEF Fotos
  <2>3. e \in OnTheWay BY <2>1, <2>2 DEF LocalStatus, OnTheWay, EstadosRemotos
  <2>4. SetEstado(o, e) BY <1>2, <1>4, <2>1 DEF Write, WriteIf
  <2> QED BY <1>1, <2>3, <2>4, RowIsWritten
<1> QED BY <1>3, <1>4

\* So does a job that fails.
LEMMA FailStep ==
  ASSUME SalesInv, PipeInv, NEW h \in Hilos, Fail(h)
  PROVE  PipeInv' /\ Moves
<1>1. ThreadInv' /\ ruta = "billing" /\ ruta' = ruta /\ remoto' = remoto BY FailThreads
<1>2. PICK o \in Operaciones : o = hilos[h].op BY Threads
<1>3. PICK e \in {"error", "pendiente"} : SetEstado(o, e) BY <1>2 DEF Fail
<1>4. e \in OnTheWay BY DEF OnTheWay
<1> QED BY <1>1, <1>3, <1>4, RowIsWritten

\* So does the reversal of the sale: its void or its note was accepted.
LEMMA FinalizeStep ==
  ASSUME SalesInv, PipeInv, NEW h \in Hilos, Finalize(h), ruta \in {"billing", "sunat"}
  PROVE  PipeInv' /\ Moves
<1>1. /\ ThreadInv' /\ Onward(h) /\ tarea' = tarea /\ ruta' = ruta /\ remoto' = remoto
      /\ hilos[h].paso = "finalizar"
  BY FinalizeThreads
<1>2. StaysAccepted BY <1>1, UnmovedRemoto
<1>3. Fewer
  <2>1. \A o \in Operaciones : tarea'[o].estado = "pendiente" => InHand(o) BY <1>1 DEF InHand
  <2> QED BY <1>1, <2>1, OnwardSameHand, SameHandFewer
<1>4. CASE UNCHANGED vars BY <1>1, <1>2, <1>3, <1>4, QuietPipe
<1>5. ASSUME NEW c \in Boletas, FinalizeAccepted(c)
      PROVE  PipeInv' /\ Moves
  <2>1. OneBoleta BY DEF PipeInv
  <2>2. BoletasSet("anulado") BY <1>5, <2>1, FinalizeSets
  <2>3. Accepted(hilos[h].op) /\ hilos[h].op \in Operaciones /\ hilos[h].op # "emision"
    BY <1>1, Threads DEF Carries
  <2>4. Accepted("baja") \/ Accepted("nota") BY <2>3 DEF Operaciones
  <2>5. Accepted("baja")' \/ Accepted("nota")' BY <1>2, <2>4 DEF StaysAccepted, Operaciones
  <2>6. AnnulledWasAccepted' /\ OneBoleta' BY <1>1, <2>2, <2>5, SetAnnulled, OneKept DEF BoletasSet
  <2>7. OneAtATime' BY <1>1, <1>3, <2>2, HandsSet, HandsElsewhere
  <2>8. Moves BY <1>5 DEF Moves, SaleNext, Boletas
  <2> QED BY <1>1, <2>6, <2>7, <2>8, PipeFromParts
<1> QED BY <1>4, <1>5 DEF Finalize

----------------------------------------
(* Directly to SUNAT.                                                      *)

\* So do the calls to SUNAT.
LEMMA SunatSteps ==
  ASSUME SalesInv, PipeInv,
         \/ \E estado \in Verdicts : SunatDecides(estado)
         \/ \E h \in Hilos, estado \in Verdicts : SendBill(h, estado)
         \/ \E h \in Hilos : SendSummary(h) \/ GetStatus(h)
  PROVE  PipeInv' /\ Moves
<1>1. CASE \E estado \in Verdicts : SunatDecides(estado)
  <2>1. ThreadInv' /\ tarea' = tarea /\ hilos' = hilos /\ ruta' = ruta /\ StaysAccepted
    BY <1>1, SunatDecidesThreads
  <2>2. UNCHANGED vars BY <1>1 DEF SunatDecides
  <2>3. Fewer BY <2>1 DEF Fewer, InHand
  <2> QED BY <2>1, <2>2, <2>3, QuietPipe
<1>2. ASSUME NEW h \in Hilos, NEW estado \in Verdicts, SendBill(h, estado)
      PROVE  PipeInv' /\ Moves
  <2>1. ThreadInv' /\ tarea' = tarea /\ ruta' = ruta /\ StaysAccepted /\ SameHand(h)
    BY <1>2, SendBillThreads
  <2>2. UNCHANGED vars BY <1>2 DEF SendBill
  <2>3. \A o \in Operaciones : tarea'[o].estado = "pendiente" => InHand(o) BY <2>1 DEF InHand
  <2>4. Fewer BY <2>1, <2>3, SameHandFewer
  <2> QED BY <2>1, <2>2, <2>4, QuietPipe
<1>3. ASSUME NEW h \in Hilos, SendSummary(h) \/ GetStatus(h)
      PROVE  PipeInv' /\ Moves
  <2>1. /\ ThreadInv' /\ ruta' = ruta /\ StaysAccepted /\ SameHand(h)
        /\ hilos[h].op = "baja" /\ hilos[h].paso # "libre"
        /\ \A o \in Operaciones : o # "baja" => tarea'[o] = tarea[o]
    BY <1>3, SendSummaryThreads, GetStatusThreads, UnmovedRemoto
  <2>2. UNCHANGED vars BY <1>3 DEF SendSummary, GetStatus
  <2>3. \A o \in Operaciones : tarea'[o].estado = "pendiente" => InHand(o) BY <2>1 DEF InHand
  <2>4. Fewer BY <2>1, <2>3, SameHandFewer
  <2> QED BY <2>1, <2>2, <2>4, QuietPipe
<1> QED BY <1>1, <1>2, <1>3

\* A thread that put its operation down: of the emission and the void of the
\* boleta, neither is in hand.
LEMMA PutDown ==
  ASSUME PipeInv, NEW h \in Hilos, SameHand(h), hilos'[h] = Libre, hilos[h].paso # "libre", ruta = "sunat",
         NEW o \in {"emision", "baja"}, o = hilos[h].op, tarea'[o].estado # "pendiente",
         \A x \in Operaciones : x # o => tarea'[x] = tarea[x],
         Boletas # {}
  PROVE  ~InHand("emision")' /\ ~InHand("baja")'
<1>1. \A k \in Hilos : hilos'[k].paso = "libre" BY LibreIsOne DEF SameHand, PipeInv, OneAtATime
<1>2. ~InHand(o)' BY <1>1 DEF InHand
<1>3. InHand(o) BY DEF InHand
<1>4. PICK c \in Boletas : TRUE OBVIOUS
<1>5. /\ InHand("emision") => ~comprobantes[c].baja
      /\ InHand("baja")    => comprobantes[c].baja
  BY DEF PipeInv, OneAtATime
<1>6. ASSUME NEW x \in {"emision", "baja"}, x # o
      PROVE  ~InHand(x)'
  <2>1. ~InHand(x) BY <1>3, <1>5, <1>6
  <2>2. tarea'[x] = tarea[x] BY <1>6 DEF Operaciones
  <2> QED BY <1>1, <2>1, <2>2 DEF InHand
<1> QED BY <1>2, <1>6

\* The row is written directly.
LEMMA DirectlyWritten ==
  ASSUME SalesInv, PipeInv, ThreadInv', ruta = "sunat", UNCHANGED <<ruta, remoto>>, Fewer,
         NEW o \in Operaciones, NEW estado \in OnTheWay, SetEstado(o, estado),
         (o # "nota" /\ estado = "aceptado" /\ Boletas # {}) => (~InHand("emision")' /\ ~InHand("baja")')
  PROVE  PipeInv' /\ Moves
<1>1. StaysAccepted /\ OneBoleta BY UnmovedRemoto DEF PipeInv
<1>2. CASE o = "nota"
  <2>1. BoletasStay BY <1>2, SetNotaStays
  <2> QED BY <1>1, <2>1, OneKept, StayAnnulled, HandsStay, PipeFromParts, RowIsSale DEF BoletasStay
<1>3. CASE o # "nota"
  <2>1. o \in {"emision", "baja"} /\ estado # "anulado" BY <1>3 DEF Operaciones, OnTheWay
  <2>2. BoletasSet(estado) /\ Boletas # {} BY <1>1, <2>1, SetEstadoSets
  <2>3. AnnulledWasAccepted' /\ OneBoleta' BY <2>1, <2>2, SetAnnulled, OneKept DEF BoletasSet
  <2>4. estado # "aceptado" \/ (~InHand("emision")' /\ ~InHand("baja")') BY <1>3, <2>2
  <2>5. OneAtATime' BY <2>2, <2>4, HandsSet
  <2> QED BY <2>3, <2>5, PipeFromParts, RowIsSale
<1> QED BY <1>2, <1>3

\* So does registering an answer.
LEMMA RegisterStep ==
  ASSUME SalesInv, PipeInv, NEW h \in Hilos, Register(h)
  PROVE  PipeInv' /\ Moves
<1>1. PICK o \in Operaciones : o = hilos[h].op BY Threads
<1>2. /\ ThreadInv' /\ ruta' = ruta /\ remoto' = remoto /\ SameHand(h) /\ hilos'[h] = Libre
      /\ hilos[h].paso # "libre" /\ tarea'[o].estado = "finalizada"
      /\ \A x \in Operaciones : x # o => tarea'[x] = tarea[x]
  BY <1>1, RegisterThreads
<1>3. Fewer
  <2>1. \A x \in Operaciones : tarea'[x].estado = "pendiente" => InHand(x) BY <1>2 DEF InHand
  <2> QED BY <1>2, <2>1, SameHandFewer
<1>4. (ruta = "sunat" /\ o # "nota" /\ Boletas # {}) => (~InHand("emision")' /\ ~InHand("baja")')
  <2>1. ASSUME ruta = "sunat", o # "nota", Boletas # {}
        PROVE  ~InHand("emision")' /\ ~InHand("baja")'
    <3>1. o \in {"emision", "baja"} /\ tarea'[o].estado # "pendiente" BY <1>2, <2>1 DEF Operaciones
    <3> QED BY <1>1, <1>2, <2>1, <3>1, PutDown
  <2> QED BY <2>1
<1>5. CASE UNCHANGED vars BY <1>2, <1>3, <1>5, UnmovedRemoto, QuietPipe
<1>6. ASSUME NEW e \in OnTheWay, SetEstado(o, e)
      PROVE  PipeInv' /\ Moves
  BY <1>2, <1>3, <1>4, <1>6, RowIsWritten, DirectlyWritten
<1>7. UNCHANGED vars \/ SetEstado(o, "aceptado") \/ SetEstado(o, hilos[h].foto.estado)
  BY <1>1 DEF Register
<1>8. hilos[h].foto.estado \in OnTheWay /\ "aceptado" \in OnTheWay
  <2>1. hilos[h].foto.estado \in EstadosRemotos BY Threads DEF Fotos
  <2> QED BY <2>1 DEF EstadosRemotos, OnTheWay
<1> QED BY <1>5, <1>6, <1>7, <1>8

\* So does registering a failure.
LEMMA RegisterFailureStep ==
  ASSUME SalesInv, PipeInv, NEW h \in Hilos, RegisterFailure(h)
  PROVE  PipeInv' /\ Moves
<1>1. PICK o \in Operaciones : o = hilos[h].op BY Threads
<1>2. /\ ThreadInv' /\ ruta = "sunat" /\ ruta' = ruta /\ remoto' = remoto /\ SameHand(h) /\ hilos'[h] = Libre
      /\ hilos[h].paso # "libre"
      /\ tarea[o].intentos >= MaxIntentos => tarea'[o].estado = "muerta"
      /\ \A x \in Operaciones : x # o => tarea'[x] = tarea[x]
  BY <1>1, RegisterFailureThreads
<1>3. Fewer
  <2>1. \A x \in Operaciones : tarea'[x].estado = "pendiente" => InHand(x) BY <1>1, <1>2 DEF InHand
  <2> QED BY <1>2, <2>1, SameHandFewer
<1>4. PICK e \in {"error", "anulacion_pendiente", "aceptado"} :
        /\ SetEstado(o, e)
        /\ e = "aceptado" => o = "baja" /\ ~(tarea[o].intentos < MaxIntentos)
  BY <1>1 DEF RegisterFailure
<1>5. e \in OnTheWay BY DEF OnTheWay
<1>6. (o # "nota" /\ e = "aceptado" /\ Boletas # {}) => (~InHand("emision")' /\ ~InHand("baja")')
  <2>1. ASSUME o # "nota", e = "aceptado", Boletas # {}
        PROVE  ~InHand("emision")' /\ ~InHand("baja")'
    <3>1. tarea[o].intentos \in Nat /\ MaxIntentos \in Nat
      BY Threads, PlatformReceiptsAssumption DEF Tareas
    <3>2. o \in {"emision", "baja"} /\ tarea'[o].estado # "pendiente" BY <1>2, <1>4, <2>1, <3>1
    <3> QED BY <1>1, <1>2, <2>1, <3>2, PutDown
  <2> QED BY <2>1
<1> QED BY <1>2, <1>3, <1>4, <1>5, <1>6, DirectlyWritten

----------------------------------------
(* Claims, failures, the administrator.                                    *)

\* So does claiming a job.
LEMMA ClaimStep ==
  ASSUME SalesInv, PipeInv, NEW h \in Hilos, NEW o \in Operaciones, Claim(h, o)
  PROVE  PipeInv' /\ Moves
<1>1. /\ ThreadInv' /\ hilos'[h].op = o /\ (\A k \in Hilos : k # h => hilos'[k] = hilos[k])
      /\ tarea'[o].estado = "procesando" /\ \A x \in Operaciones : x # o => tarea'[x] = tarea[x]
  BY ClaimTaken
<1>2. UNCHANGED vars /\ ruta' = ruta /\ remoto' = remoto /\ tarea[o].estado = "pendiente"
  BY DEF Claim
<1>3. BoletasStay /\ StaysAccepted BY <1>2, VarsStay, UnmovedRemoto
<1>4. \A x \in Operaciones : InHand(x)' => InHand(x) BY <1>1, <1>2 DEF InHand
<1>5. ruta = "sunat" => Single'
  <2>1. ruta = "sunat" => \A k \in Hilos : hilos[k].paso = "libre" BY DEF Claim, Idle, At
  <2> QED BY <1>1, <2>1 DEF Single
<1>6. \A x \in {"emision", "baja"} : InHand(x)' => InHand(x) BY <1>4 DEF Operaciones
<1>7. OneAtATime' BY <1>2, <1>3, <1>4, <1>5, <1>6, HandsStayOne
<1>8. OneBoleta' /\ AnnulledWasAccepted' BY <1>2, <1>3, OneKept, StayAnnulled DEF BoletasStay
<1> QED BY <1>1, <1>2, <1>7, <1>8, PipeFromParts DEF Moves

\* So do a write that fails and a process that dies.
LEMMA FaultSteps ==
  ASSUME SalesInv, PipeInv, Die \/ \E h \in Hilos : StepFails(h)
  PROVE  PipeInv' /\ Moves
<1>1. CASE Die
  <2>1. ThreadInv' /\ (\A h \in Hilos : hilos'[h] = Libre) /\ tarea' = tarea /\ ruta' = ruta /\ remoto' = remoto
    BY <1>1, DieThreads
  <2>2. UNCHANGED vars BY <1>1 DEF Die
  <2>3. Fewer BY <2>1, LibreIsOne DEF Fewer, InHand
  <2> QED BY <2>1, <2>2, <2>3, UnmovedRemoto, QuietPipe
<1>2. ASSUME NEW h \in Hilos, StepFails(h)
      PROVE  PipeInv' /\ Moves
  <2>1. ThreadInv' /\ Onward(h) /\ tarea' = tarea /\ ruta' = ruta /\ remoto' = remoto
    BY <1>2, StepFailsThreads
  <2>2. UNCHANGED vars BY <1>2 DEF StepFails
  <2>3. \A o \in Operaciones : tarea'[o].estado = "pendiente" => InHand(o) BY <2>1 DEF InHand
  <2>4. Fewer BY <2>1, <2>3, OnwardSameHand, SameHandFewer
  <2> QED BY <2>1, <2>2, <2>4, UnmovedRemoto, QuietPipe
<1> QED BY <1>1, <1>2

\* So does a retry, whatever the row shows and whether or not its job is being run.
LEMMA RetryStep ==
  ASSUME SalesInv, PipeInv, NEW o \in Operaciones, Retry(o)
  PROVE  PipeInv' /\ Moves
<1>1. /\ ThreadInv' /\ ruta' = ruta /\ remoto' = remoto /\ hilos' = hilos
      /\ \A x \in Operaciones : x # o => tarea'[x] = tarea[x]
  BY RetryThreads
<1>2. PICK e \in {"pendiente", "anulacion_pendiente"} : SetEstado(o, e) BY DEF Retry
<1>3. e \in OnTheWay /\ e \notin {"aceptado", "anulado"} BY DEF OnTheWay
<1>4. PICK c \in Boletas : /\ o = "emision" => ~comprobantes[c].baja
                           /\ o = "baja" => comprobantes[c].baja
  BY DEF Retry
<1>5. CASE ruta # "sunat" BY <1>1, <1>2, <1>3, <1>5, RowIsWritten
<1>6. CASE ruta = "sunat"
  <2>1. StaysAccepted /\ OneBoleta /\ Single'
    BY <1>1, <1>6, UnmovedRemoto DEF PipeInv, OneAtATime, Single
  <2>2. \A x \in Operaciones : x # o => (InHand(x)' <=> InHand(x)) BY <1>1 DEF InHand
  <2>3. CASE o = "nota"
    <3>1. BoletasStay BY <1>2, <2>3, SetNotaStays
    <3>2. \A x \in {"emision", "baja"} : InHand(x)' => InHand(x) BY <2>2, <2>3 DEF Operaciones
    <3>3. OneAtATime' BY <1>1, <1>4, <2>1, <3>1, <3>2, HandsStayOne
    <3> QED BY <1>1, <1>2, <1>3, <2>1, <3>1, <3>3, OneKept, StayAnnulled, PipeFromParts, RowIsSale DEF BoletasStay
  <2>4. CASE o # "nota"
    <3>1. o \in {"emision", "baja"} BY <2>4 DEF Operaciones
    <3>2. BoletasSet(e) BY <1>2, <1>3, <2>1, <3>1, SetEstadoSets
    <3>3. AnnulledWasAccepted' /\ OneBoleta'
      BY <1>1, <1>3, <3>2, SetAnnulled, OneKept DEF BoletasSet
    <3>4. \A d \in Boletas : d = c BY <2>1 DEF OneBoleta
    <3>5. /\ InHand("emision") => ~comprobantes[c].baja
          /\ InHand("baja")    => comprobantes[c].baja
      BY <1>6 DEF PipeInv, OneAtATime
    <3>6. /\ InHand("emision")' => ~comprobantes[c].baja
          /\ InHand("baja")'    => comprobantes[c].baja
      BY <1>4, <2>2, <3>1, <3>5 DEF Operaciones
    <3>7. \A d \in Boletas' :
            /\ InHand("emision")' => comprobantes'[d].estado # "aceptado" /\ ~comprobantes'[d].baja
            /\ InHand("baja")'    => comprobantes'[d].estado # "aceptado" /\ comprobantes'[d].baja
      BY <1>3, <3>2, <3>4, <3>6 DEF BoletasSet
    <3>8. Boletas' # {} BY <3>2 DEF BoletasSet
    <3>9. OneAtATime' BY <2>1, <3>7, <3>8 DEF OneAtATime, Single
    <3> QED BY <1>1, <1>2, <1>3, <3>3, <3>9, PipeFromParts, RowIsSale
  <2> QED BY <2>3, <2>4
<1> QED BY <1>5, <1>6

\* So does a sale.
LEMMA SellStep ==
  ASSUME SalesInv, PipeInv, NEW codigo \in Planes, NEW tipo \in Tipos, CreateSale(codigo, FALSE, tipo),
         UNCHANGED <<ruta, avisos, hilos>>, ruta # "ninguna",
         \/ tipo = "boleta" /\ Boletas = {} /\ Queue("emision")
         \/ tipo = "nota_venta" /\ NoJob
  PROVE  PipeInv' /\ Moves
<1>1. Moves BY DEF Moves, SaleNext, Commerce, Sell
<1>2. CASE tipo = "nota_venta" /\ NoJob
  <2>1. ThreadInv' /\ UNCHANGED <<remoto, tarea>> /\ StaysAccepted
    BY <1>2, NoJobThreads, UnmovedRemoto
  <2>2. BoletasStay BY <1>2, SoldReceipt
  <2>3. Fewer BY <2>1 DEF Fewer, InHand
  <2>4. OneAtATime' BY <2>2, <2>3, HandsStay
  <2> QED BY <1>1, <2>1, <2>2, <2>4, OneKept, StayAnnulled, PipeFromParts DEF BoletasStay
<1>3. CASE tipo = "boleta" /\ Boletas = {} /\ Queue("emision")
  <2>1. "emision" \in Operaciones /\ "baja" \in Operaciones BY DEF Operaciones
  <2>2. /\ ThreadInv' /\ remoto' = remoto /\ \A x \in Operaciones : x # "emision" => tarea'[x] = tarea[x]
    BY <1>3, <2>1, QueueThreads
  <2>3. PICK n : Boletas' = {n} /\ comprobantes'[n].estado = "pendiente" /\ ~comprobantes'[n].baja
    BY <1>3, SoldReceipt
  <2>4. OneBoleta' /\ AnnulledWasAccepted' BY <2>3 DEF OneBoleta, AnnulledWasAccepted
  <2>5. ruta = "sunat" => ~InHand("baja")' /\ Single'
    BY <1>3, <2>1, <2>2 DEF PipeInv, OneAtATime, InHand, Single
  <2>6. OneAtATime' BY <2>3, <2>5 DEF OneAtATime, Single
  <2> QED BY <1>1, <2>2, <2>4, <2>6, PipeFromParts
<1> QED BY <1>2, <1>3

\* What changes no boleta, with a job for the note or with none.
LEMMA DeskStep ==
  ASSUME SalesInv, PipeInv, BoletasStay, UNCHANGED <<ruta, avisos, hilos>>,
         NoJob \/ (Boletas # {} /\ Queue("nota"))
  PROVE  PipeInv'
<1>1. CASE NoJob
  <2>1. ThreadInv' /\ UNCHANGED <<remoto, tarea>> /\ StaysAccepted
    BY <1>1, NoJobThreads, UnmovedRemoto
  <2>2. Fewer BY <2>1 DEF Fewer, InHand
  <2>3. OneAtATime' BY <2>2, HandsStay
  <2> QED BY <2>1, <2>3, OneKept, StayAnnulled, PipeFromParts DEF BoletasStay
<1>2. CASE Boletas # {} /\ Queue("nota")
  <2>1. "nota" \in Operaciones /\ "emision" \in Operaciones /\ "baja" \in Operaciones
    BY DEF Operaciones
  <2>2. /\ ThreadInv' /\ remoto' = remoto /\ \A x \in Operaciones : x # "nota" => tarea'[x] = tarea[x]
    BY <1>2, <2>1, QueueThreads
  <2>3. StaysAccepted BY <2>2, UnmovedRemoto
  <2>4. \A x \in {"emision", "baja"} : InHand(x)' => InHand(x) BY <2>1, <2>2 DEF InHand
  <2>5. ruta = "sunat" => Single' BY DEF PipeInv, OneAtATime, Single
  <2>6. OneAtATime' BY <1>2, <2>4, <2>5, HandsStayOne
  <2> QED BY <2>2, <2>3, <2>6, OneKept, StayAnnulled, PipeFromParts DEF BoletasStay
<1> QED BY <1>1, <1>2

\* So does asking for a void, which forgets the void before it.
LEMMA VoidStep ==
  ASSUME SalesInv, PipeInv, NEW c \in Boletas, RequestCancellation(c), QueueVoid,
         UNCHANGED <<ruta, avisos, hilos>>
  PROVE  PipeInv' /\ Moves
<1>1. Moves BY DEF Moves, SaleNext, Commerce, Annul, Boletas
<1>2. OneBoleta BY DEF PipeInv
<1>3. /\ Boletas' = Boletas
      /\ \A d \in Boletas : /\ comprobantes[d].estado = "aceptado"
                            /\ comprobantes'[d].estado = "anulacion_pendiente" /\ comprobantes'[d].baja
  BY <1>2, VoidAsked
<1>4. ruta = "sunat" => ~InHand("baja") /\ ~InHand("emision") BY <1>3 DEF PipeInv, OneAtATime
<1>5. /\ ThreadInv'
      /\ ruta = "sunat" => tarea'["emision"] = SinTarea
  BY <1>4, QueueVoidThreads
<1>6. OneBoleta' /\ AnnulledWasAccepted' BY <1>3, OneKept DEF AnnulledWasAccepted
<1>7. ruta = "sunat" => ~InHand("emision")' /\ Single'
  BY <1>4, <1>5, NuevaIsOne DEF PipeInv, OneAtATime, InHand, Single
<1>8. OneAtATime' BY <1>3, <1>7 DEF OneAtATime, Single
<1> QED BY <1>1, <1>5, <1>6, <1>8, PipeFromParts

\* So does every operation of the administrator.
LEMMA OperateStep ==
  ASSUME SalesInv, PipeInv, Operate
  PROVE  PipeInv' /\ Moves
<1>1. UNCHANGED <<ruta, avisos, hilos>> /\ ruta # "ninguna" BY DEF Operate, ElectronicConfig
<1>2. (CHOOSE codigo \in Planes : TRUE) \in Planes BY SubscriptionsAssumption
<1>3. PICK codigo \in Planes : codigo = CHOOSE p \in Planes : TRUE BY <1>2
<1>4. ASSUME NEW tipo \in Tipos, CreateSale(codigo, FALSE, tipo),
             \/ tipo = "boleta" /\ Boletas = {} /\ Queue("emision")
             \/ tipo = "nota_venta" /\ NoJob
      PROVE  PipeInv' /\ Moves
  BY <1>1, <1>4, SellStep
<1>5. ASSUME NEW i \in DOMAIN pagos, CancelSale(i), NoJob
      PROVE  PipeInv' /\ Moves
  <2>1. BoletasStay BY <1>5, CancelSaleStays
  <2>2. Moves BY <1>5 DEF Moves, SaleNext, Commerce, Annul
  <2> QED BY <1>1, <1>5, <2>1, <2>2, DeskStep
<1>6. ASSUME NEW c \in DOMAIN comprobantes \ Boletas, RequestCancellation(c), NoJob
      PROVE  PipeInv' /\ Moves
  <2>1. BoletasStay BY <1>6, NotasStay
  <2>2. Moves BY <1>6 DEF Moves, SaleNext, Commerce, Annul
  <2> QED BY <1>1, <1>6, <2>1, <2>2, DeskStep
<1>7. ASSUME NEW c \in Boletas, RequestCancellation(c), QueueVoid
      PROVE  PipeInv' /\ Moves
  BY <1>1, <1>7, VoidStep
<1>8. ASSUME NEW c \in Boletas, CreateCreditNote(c), Queue("nota")
      PROVE  PipeInv' /\ Moves
  <2>1. BoletasStay /\ Boletas # {} BY <1>8, NoteAsked
  <2>2. Moves BY <1>8 DEF Moves, SaleNext, Commerce, Annul, Boletas
  <2> QED BY <1>1, <1>8, <2>1, <2>2, DeskStep
<1> QED BY <1>3, <1>4, <1>5, <1>6, <1>7, <1>8 DEF Operate

\* Without a way to SUNAT there are only sales with a nota de venta.
LEMMA PlainStep ==
  ASSUME SalesInv, PipeInv, ~ElectronicConfig, Commerce,
         \A c \in DOMAIN comprobantes' : comprobantes'[c].tipo = "nota_venta", UNCHANGED ownVars
  PROVE  PipeInv' /\ Moves
<1>1. /\ ruta' = ruta /\ remoto' = remoto /\ tarea' = tarea /\ hora' = hora /\ avisos' = avisos /\ hilos' = hilos
  BY DEF ownVars
<1>2. Own /\ News /\ StaysAccepted BY <1>1, NothingSent
<1>3. ThreadInv' BY <1>1, <1>2, StillThreads
<1>4. Boletas' = {} BY DEF Boletas
<1>5. OneBoleta' /\ AnnulledWasAccepted' BY <1>4 DEF OneBoleta, AnnulledWasAccepted
<1>6. OneAtATime' BY <1>1, HandsElsewhere DEF ElectronicConfig
<1> QED BY <1>3, <1>5, <1>6, PipeFromParts DEF Moves, SaleNext

\* Every step keeps both invariants.
LEMMA PipelineStep ==
  ASSUME SalesInv, PipeInv, PipelineNext
  PROVE  PipeInv' /\ SalesInv'
<1>1. PipeInv' /\ Moves
  <2>1. CASE Billing BY <2>1, BillingSteps, NewsSteps, WriteStep, FailStep, FinalizeStep DEF Billing
  <2>2. CASE Sunat BY <2>2, SunatSteps, RegisterStep, RegisterFailureStep, FinalizeStep DEF Sunat
  <2> QED BY <2>1, <2>2, OperateStep, FaultSteps, RetryStep, ClaimStep, PlainStep DEF PipelineNext
<1> QED BY <1>1, SaleStep DEF Moves

\* They hold at the start.
LEMMA PipelineBegins ==
  ASSUME PipelineInit
  PROVE  SalesInv /\ PipeInv
<1>1. SalesInv BY SalesBegin DEF PipelineInit
<1>2. Boletas = {} BY DEF PipelineInit, Init, Boletas
<1>3. /\ ruta \in {"billing", "sunat", "ninguna"} /\ hora = 0 /\ avisos = {}
      /\ remoto = [o \in Operaciones |-> SinRemoto] /\ tarea = [o \in Operaciones |-> SinTarea]
      /\ hilos = [h \in Hilos |-> Libre]
  BY DEF PipelineInit
<1>4. SinRemoto \in Fotos BY DEF SinRemoto, Fotos, EstadosRemotos
<1>5. PipeTypes BY <1>3, <1>4, LibreIsOne, NuevaIsOne DEF PipeTypes
<1>6. CarriesTruth /\ OnlyBillingTells
  BY <1>3, LibreIsOne DEF CarriesTruth, Carries, OnlyBillingTells
<1>7. \A o \in Operaciones : ~InHand(o) BY <1>3, LibreIsOne, NuevaIsOne DEF InHand
<1>8. OneAtATime /\ OneBoleta /\ AnnulledWasAccepted
  BY <1>2, <1>3, <1>7, LibreIsOne DEF OneAtATime, OneBoleta, AnnulledWasAccepted
<1> QED BY <1>1, <1>5, <1>6, <1>8 DEF PipeInv

\* So they hold in every reachable state.
LEMMA PipelineHolds == PipelineSpec => [](SalesInv /\ PipeInv)
<1>1. PipelineInit => SalesInv /\ PipeInv BY PipelineBegins
<1>2. SalesInv /\ PipeInv /\ [PipelineNext]_allVars => (SalesInv /\ PipeInv)'
  <2>1. ASSUME SalesInv, PipeInv, UNCHANGED allVars
        PROVE  SalesInv' /\ PipeInv'
    <3>1. UNCHANGED vars /\ UNCHANGED ownVars BY <2>1 DEF allVars
    <3>2. SalesInv' BY <2>1, <3>1, SaleStep
    <3>3. /\ ruta' = ruta /\ remoto' = remoto /\ tarea' = tarea /\ hora' = hora /\ avisos' = avisos /\ hilos' = hilos
      BY <3>1 DEF ownVars
    <3>4. Own /\ News /\ StaysAccepted BY <2>1, <3>3, NothingSent
    <3>5. ThreadInv' BY <2>1, <3>3, <3>4, StillThreads
    <3>6. Fewer BY <3>3 DEF Fewer, InHand
    <3> QED BY <2>1, <3>1, <3>2, <3>3, <3>4, <3>5, <3>6, QuietPipe
  <2> QED BY <2>1, PipelineStep
<1> QED BY <1>1, <1>2, PTL DEF PipelineSpec

\* For any number of sales, months, threads and retries: however sales of the platform are made and
\* annulled, from the list or through their receipts, the company has the plan that its last payment
\* that stands bought, and Asistencias likewise unless changed by hand (createSale, createCheckout,
\* cancelSale, reverseSource and the rest of the platform's administration).
THEOREM CompanyFollowsItsSales == PipelineSpec => []CompanyFollowsSales
<1>1. SalesInv => CompanyFollowsSales BY DEF SalesInv
<1> QED BY <1>1, PipelineHolds, PTL

\* For any number of sales: a receipt of one part is annulled only with what it is for, and one that
\* is not for Asistencias and was not reopened is annulled whenever that is (requestCancellation,
\* finalizeAcceptedCancellation, finalizeAcceptedCreditNote, cancelSale).
THEOREM ReceiptsFollowTheirSources == PipelineSpec => []ReceiptsFollowSources
<1>1. SalesInv => ReceiptsFollowSources BY DEF SalesInv
<1> QED BY <1>1, PipelineHolds, PTL

\* For any number of threads, faults, retries and webhooks: a boleta of the platform is annulled only
\* when SUNAT accepted its void or its note, directly and through Billing (processCancellation and emit,
\* applyVoid and applyDocument, retry, requestCancellation).
THEOREM AnnulmentsWereAccepted == PipelineSpec => []AnnulledWasAccepted
<1>1. PipeInv => AnnulledWasAccepted BY DEF PipeInv
<1> QED BY <1>1, PipelineHolds, PTL
=============================================================================
