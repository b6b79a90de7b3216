----------------------------- MODULE Notifications -----------------------------
(***************************************************************************)
(* The notices that follow what happens elsewhere: NotificationsProcessor  *)
(* and NotificationsService (src/src/modules/notifications).               *)
(*                                                                         *)
(* Nothing tells the processor that a row changed: every five minutes (a   *)
(* tick) a pass reads, source after source, the rows touched in the last   *)
(* ten, and every hour another reads the plan and its limits.  A notice    *)
(* has a key made of the row and its state, unique in its table.  Here     *)
(* every source has one row.                                               *)
(***************************************************************************)
EXTENDS Integers, Sequences, FiniteSets

CONSTANTS
  Jornadas,      \* bound: the sources that are followed, in the order a pass reads them,
                 \* whether the pass of the hour is, and how many ticks, changes of
                 \* their rows, falls of the process and requests there are
  Pases,         \* passes of the five minutes that may overlap
  Usuarios,      \* members of the company; the platform has one administrator
  Propietario,   \* the one who owns it, and stays
  CadaHora,      \* ticks between two passes of the hour (12)
  Nada

Ventana  == 2    \* ticks back that a pass reads: ten minutes
DeLaHora == <<"plan", "limite">>

ASSUME NotificationsAssumption ==
  /\ \A j \in Jornadas :
       /\ j.fuentes \in Seq({"empresa", "venta", "nota", "recibo", "pago", "liquidacion", "stock"})
       /\ j.hora \in BOOLEAN /\ {j.ticks, j.cambios, j.caidas, j.gestos} \subseteq Nat
  /\ Propietario \in Usuarios /\ CadaHora \in Nat \ {0}

VARIABLES
  jornada,       \* the one of Jornadas that is seen
  reloj,         \* ticks
  filas,         \* the rows: their state, and the tick of their last change
  activos,       \* members that are active
  avisos,        \* notificacion, by its clave_evento, with its recipients
  encendido,     \* whether the process is up
  pases,         \* what each pass has still to read, and to write
  publicando,    \* the recipients of a notice by hand, before it is written
  faltas,        \* history: ticks whose pass was missed or broken off
  limpia,        \* history: the tick of the last whole pass of the hour, and initial scan
  cambios, caidas, gestos

Fuentes    == jornada.fuentes
Seguidas   == {Fuentes[i] : i \in DOMAIN Fuentes} \cup (IF jornada.hora THEN {"plan", "limite"} ELSE {})
Filas      == Seguidas \cup {"stock", "plan", "limite"}

relojVars  == <<jornada, reloj, cambios, caidas, gestos>>
historia   == <<faltas, limpia>>
notifyVars == <<relojVars, filas, activos, avisos, encendido, pases, publicando, historia>>

\* notificacion with its recipients; the members that may be one; a notice by hand on its way.
NotificacionRows == [para : SUBSET (Usuarios \cup {"admin"}), leido : SUBSET Usuarios, archivado : BOOLEAN]
Miembros  == SUBSET Usuarios
Audiencia == Miembros \cup {Nada}
NotifyTypeOK ==
  /\ activos \in Miembros /\ publicando \in Audiencia /\ encendido \in BOOLEAN
  /\ \A k \in DOMAIN avisos : avisos[k] \in NotificacionRows

Ocioso == [tick |-> 0, desde |-> 0, leer |-> <<>>, escribir |-> <<>>, luego |-> FALSE, entero |-> TRUE]
EnCurso(p) == pases[p] # Ocioso

----------------------------------------
(* What is announced, to whom and under which key.                         *)

Anuncia(d) ==
  CASE d \in {"venta", "nota"} -> {"aceptado", "rechazado", "error"}
    [] d = "recibo"            -> {"aceptado", "rechazado", "error"}
    [] d \in {"pago", "empresa"} -> {"pagado", "creada"}
    [] d = "liquidacion"       -> {"pendiente", "pagado"}
    [] d = "stock"             -> {"poco", "agotado"}
    [] d = "plan"              -> {"porVencer", "vencido"}
    [] d = "limite"            -> {"80", "100"}

\* A company, and a payment, are found by when they were created.
Marca(d) == IF d \in {"pago", "empresa"} THEN filas[d].creada ELSE filas[d].at

Audiencias(d) == CASE d \in {"venta", "nota", "stock", "limite"} -> <<"empresa">>
                   [] d = "empresa" -> <<"admin">>
                   [] OTHER -> <<"empresa", "admin">>
Claves(d) ==
  [i \in DOMAIN Audiencias(d) |->
     <<d, filas[d].estado, IF d = "stock" THEN filas[d].at ELSE 0, Audiencias(d)[i]>>]
Destinatarios(clave) ==
  CASE clave[4] = "admin" -> {"admin"}
    [] clave[1] \in {"venta", "nota", "stock"} -> activos       \* those with its modules
    [] OTHER -> {Propietario} \cap activos

\* A source read by a pass of the five minutes, by the initial scan (desde = 0) or
\* by the pass of the hour.
InWindow(d, desde) == Marca(d) >= desde
Found(d, desde) == filas[d].estado \in Anuncia(d) /\ InWindow(d, desde)

----------------------------------------
(* The passes.                                                             *)

Recent(tick) == [Ocioso EXCEPT !.tick = tick, !.leer = Fuentes, !.desde = tick - Ventana]
RecentSinceLast(tick) ==                \* mutant: only what the last one did not see
  [Ocioso EXCEPT !.tick = tick, !.leer = Fuentes, !.desde = tick - 1]
Since(tick) == Recent(tick)

\* The clock strikes: processRecentEvents and, every hour, processCommercialAlerts.
Tick(p) ==
  /\ reloj < jornada.ticks /\ ~EnCurso(p) /\ p # "hora"
  /\ reloj' = reloj + 1
  /\ IF encendido
       THEN /\ pases' = [q \in DOMAIN pases |->
                 IF q = p THEN Since(reloj')
                 ELSE IF q = "hora" /\ jornada.hora /\ ~EnCurso(q) /\ reloj' % CadaHora = 0
                   THEN [Ocioso EXCEPT !.tick = reloj', !.leer = DeLaHora] ELSE pases[q]]
            /\ UNCHANGED faltas
       ELSE faltas' = faltas \cup {reloj'} /\ UNCHANGED pases
  /\ UNCHANGED <<filas, activos, avisos, encendido, publicando, limpia, jornada, cambios, caidas, gestos>>

\* A pass goes on, or ends: the initial scan of the stock is followed by a pass of
\* what is recent.
GoesOn(p, paso) ==
  LET fin == paso.leer = <<>> /\ paso.escribir = <<>>
  IN /\ pases' = [pases EXCEPT ![p] = IF ~fin THEN paso ELSE IF paso.luego THEN Recent(reloj) ELSE Ocioso]
     /\ limpia' = IF ~fin \/ ~paso.entero THEN limpia
                  ELSE IF p = "hora" THEN [limpia EXCEPT !.hora = paso.tick]
                  ELSE IF paso.luego THEN [limpia EXCEPT !.stock = paso.tick] ELSE limpia

\* The rows of a source, and who is told of each.  A plan that is over tells
\* nothing of its limits.
ReadSource(p) ==
  /\ pases[p].leer # <<>> /\ pases[p].escribir = <<>>
  /\ LET d == Head(pases[p].leer)
         resto == IF d = "plan" /\ filas[d].estado = "vencido" THEN <<>> ELSE Tail(pases[p].leer)
         hay == Found(d, pases[p].desde)
     IN GoesOn(p, [pases[p] EXCEPT
          !.leer = resto,
          !.escribir = IF hay THEN [i \in DOMAIN Claves(d) |->
                                      [clave |-> Claves(d)[i], para |-> Destinatarios(Claves(d)[i])]]
                              ELSE <<>>])
  /\ UNCHANGED <<relojVars, filas, activos, avisos, encendido, publicando, faltas>>

\* createAutomatic: nothing without recipients, and nothing if the key is there.
Noticed(clave) == clave \in DOMAIN avisos
CreateAutomatic(p) ==
  /\ pases[p].escribir # <<>>
  /\ LET a == Head(pases[p].escribir)
     IN avisos' = IF a.para = {} \/ Noticed(a.clave) THEN avisos
                  ELSE [k \in DOMAIN avisos \cup {a.clave} |->
                          IF k = a.clave THEN [para |-> a.para, leido |-> {}, archivado |-> FALSE]
                          ELSE avisos[k]]
  /\ GoesOn(p, [pases[p] EXCEPT !.escribir = Tail(@)])
  /\ UNCHANGED <<relojVars, filas, activos, encendido, publicando, faltas>>

\* A query or a notice fails: the pass ends there, with the sources it had left.
PassFails(p) ==
  /\ EnCurso(p) /\ caidas < jornada.caidas /\ caidas' = caidas + 1
  /\ GoesOn(p, [pases[p] EXCEPT !.leer = <<>>, !.escribir = <<>>, !.entero = FALSE])
  /\ faltas' = IF p = "hora" \/ pases[p].luego THEN faltas ELSE faltas \cup {pases[p].tick}
  /\ UNCHANGED <<jornada, reloj, cambios, gestos, filas, activos, avisos, encendido, publicando>>

ProcessDies ==
  /\ encendido /\ caidas < jornada.caidas /\ caidas' = caidas + 1
  /\ encendido' = FALSE
  /\ pases' = [p \in DOMAIN pases |-> Ocioso]
  /\ faltas' = faltas \cup {pases[p].tick : p \in {q \in Pases : EnCurso(q)}}
  /\ publicando' = Nada
  /\ UNCHANGED <<jornada, reloj, cambios, gestos, filas, activos, avisos, limpia>>

\* onModuleInit: all the stock, and then what is recent.
ProcessStarts(p) ==
  /\ ~encendido /\ encendido' = TRUE /\ p # "hora"
  /\ pases' = [pases EXCEPT ![p] =
                 [Ocioso EXCEPT !.tick = reloj, !.luego = TRUE, !.leer = <<"stock">>]]
  /\ UNCHANGED <<relojVars, filas, activos, avisos, publicando, historia>>

----------------------------------------
(* What the rest of the system does to the rows.                           *)

Puede(d, de, a) ==
  CASE d \in {"venta", "nota", "recibo"} ->
         \/ de = "pendiente" /\ a \in {"aceptado", "rechazado", "error"}
         \/ de \in {"rechazado", "error"} /\ a = "pendiente"        \* sent again
    [] d = "pago" -> <<de, a>> \in {<<"ninguna", "pagado">>, <<"pagado", "anulado">>}
    [] d = "empresa" -> <<de, a>> \in {<<"ninguna", "creada">>}
    [] d = "liquidacion" -> <<de, a>> \in {<<"ninguna", "pendiente">>, <<"pendiente", "pagado">>}
    [] d = "stock" -> de # a /\ a \in {"bastante", "poco", "agotado"}
    [] d = "plan" -> <<de, a>> \in {<<"vigente", "porVencer">>, <<"porVencer", "vencido">>}
    [] d = "limite" -> de # a /\ a \in {"bajo", "80", "100"}

Inicio(d) == CASE d \in {"venta", "nota", "recibo"} -> "pendiente"
               [] d \in {"pago", "empresa", "liquidacion"} -> "ninguna"
               [] d = "stock" -> "bastante"
               [] d = "plan" -> "vigente"
               [] d = "limite" -> "bajo"

Change(d, estado) ==
  /\ cambios < jornada.cambios /\ cambios' = cambios + 1
  /\ Puede(d, filas[d].estado, estado)
  /\ filas' = [filas EXCEPT ![d] = [estado |-> estado, at |-> reloj,
                 creada |-> IF @.estado = "ninguna" THEN reloj ELSE @.creada]]
  /\ UNCHANGED <<jornada, reloj, caidas, gestos, activos, avisos, encendido, pases, publicando, historia>>

----------------------------------------
(* NotificationsService: notices by hand, and those who read.              *)

Gesto == gestos < jornada.gestos /\ gestos' = gestos + 1
Rest  == UNCHANGED <<jornada, reloj, cambios, caidas, filas, encendido, pases, historia>>

\* publish resolves the audience, of one company or one user, and then writes.
Publish(quienes) ==
  /\ Gesto /\ encendido /\ publicando = Nada /\ quienes \cap activos # {}
  /\ publicando' = quienes \cap activos
  /\ Rest /\ UNCHANGED <<activos, avisos>>
WriteNotice ==
  /\ publicando # Nada
  /\ LET k == <<"manual", "aviso", gestos, "empresa">>
     IN avisos' = [c \in DOMAIN avisos \cup {k} |->
                     IF c = k THEN [para |-> publicando, leido |-> {}, archivado |-> FALSE] ELSE avisos[c]]
  /\ publicando' = Nada
  /\ Rest /\ UNCHANGED <<gestos, activos>>
\* archive: only a notice by hand.
Archive(k) ==
  /\ Gesto /\ encendido /\ k[1] = "manual"
  /\ avisos' = [avisos EXCEPT ![k].archivado = TRUE]
  /\ Rest /\ UNCHANGED <<activos, publicando>>
MarkRead(u, k) ==
  /\ Gesto /\ encendido /\ u \in avisos[k].para
  /\ avisos' = [avisos EXCEPT ![k].leido = @ \cup {u}]
  /\ Rest /\ UNCHANGED <<activos, publicando>>
Visible(u) == {k \in DOMAIN avisos : u \in avisos[k].para /\ ~avisos[k].archivado}
MarkAllRead(u) ==
  /\ Gesto /\ encendido /\ Visible(u) # {}
  /\ avisos' = [k \in DOMAIN avisos |-> IF k \in Visible(u) THEN [avisos[k] EXCEPT !.leido = @ \cup {u}]
                                                            ELSE avisos[k]]
  /\ Rest /\ UNCHANGED <<activos, publicando>>
Member(u) ==
  /\ Gesto /\ u # Propietario
  /\ activos' = IF u \in activos THEN activos \ {u} ELSE activos \cup {u}
  /\ Rest /\ UNCHANGED <<avisos, publicando>>

----------------------------------------
NotifyInit ==
  /\ jornada \in Jornadas
  /\ reloj = Ventana /\ filas = [d \in Filas |-> [estado |-> Inicio(d), at |-> 0, creada |-> 0]]
  /\ activos = Usuarios /\ avisos = [k \in {} |-> Nada] /\ encendido = TRUE
  /\ pases = [p \in Pases \cup {"hora"} |-> Ocioso] /\ publicando = Nada
  /\ faltas = {} /\ limpia = [hora |-> 0, stock |-> 0]
  /\ cambios = 0 /\ caidas = 0 /\ gestos = 0

NotifyNext ==
  \/ \E p \in Pases \cup {"hora"} :
       Tick(p) \/ ReadSource(p) \/ CreateAutomatic(p) \/ PassFails(p) \/ ProcessStarts(p)
  \/ ProcessDies
  \/ \E d \in Seguidas : \E e \in Anuncia(d) \cup {"pendiente", "anulado", "bastante", "bajo"} : Change(d, e)
  \/ \E u \in Usuarios :
       \/ Publish({u}) \/ Publish(Usuarios) \/ Member(u) \/ MarkAllRead(u)
       \/ \E k \in DOMAIN avisos : MarkRead(u, k)
  \/ WriteNotice
  \/ \E k \in DOMAIN avisos : Archive(k)

NotifySpec == NotifyInit /\ [][NotifyNext]_notifyVars

----------------------------------------
(* Properties.                                                             *)

AllNoticed(d) == \A i \in DOMAIN Claves(d) : Noticed(Claves(d)[i])
\* Passes that may still announce what was there at this tick.
Abiertos(hasta) == {p \in DOMAIN pases : EnCurso(p) /\ pases[p].tick <= hasta}

\* Nobody misses what happened: what has stood for ten minutes was announced unless both
\* of the passes that could see it were missed or broken off
\* (notifications.processor.ts:36-44); stock that is short is also announced by any
\* start of the process that scans it whole, and a plan that ends, or a limit that is
\* near, by any whole pass of the hour (notifications.processor.ts:29-32, 47-125).
ChangesAreNoticed ==
  /\ \A i \in DOMAIN Fuentes :
       LET d == Fuentes[i]
           m == Marca(d)
       IN \/ filas[d].estado \notin Anuncia(d)
          \/ reloj <= m + Ventana \/ Abiertos(m + Ventana) # {}
          \/ {m + 1, m + 2} \subseteq faltas
          \/ AllNoticed(d)
  /\ filas["stock"].estado \in Anuncia("stock") /\ filas["stock"].at < limpia.stock
       => AllNoticed("stock")
  /\ \A d \in {"plan", "limite"} :
       /\ filas[d].estado \in Anuncia(d) /\ filas[d].at < limpia.hora
       /\ d = "limite" => filas["plan"].estado # "vencido"
       => AllNoticed(d)
=============================================================================
