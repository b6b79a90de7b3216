------------------------------ MODULE Catalogues ------------------------------
(***************************************************************************)
(* The lists a company keeps to write its products and sales with:         *)
(* categories, brands, colours, sizes and payment methods, and the answers *)
(* to their listings that ResponseCacheService keeps in memory for a       *)
(* minute (src/src/modules: categories, brands, colors, sizes,             *)
(* payment-methods; src/src/common/cache).                                 *)
(*                                                                         *)
(* A name is its key: trimmed, in one case.  A row that is removed keeps   *)
(* it, and asking for it again brings the row back.  A listing reads the   *)
(* rows in one step and stores its answer in another; a change writes, and *)
(* clears the answers of its list in another.                              *)
(***************************************************************************)
EXTENDS Integers, FiniteSets

CONSTANTS
  Gestores,    \* requests served at a time
  Fichas,      \* the ids of the rows of a list; 0 is the row of the system, where there is one
  Nombres,     \* the names users type
  Rutinas      \* bound: what is exercised, see RutinaType

Listas     == {"categoria", "marca", "color", "talla", "metodo"}
DelSistema == {"color", "talla", "metodo"}     \* lists with a row of the system
Escondidas == {"color", "talla"}               \* where users never see that row
Consultas  == {"todas", "activas"}             \* the queries of a listing

\* What is exercised: the lists that are changed, the rows each list starts with, the photographs
\* of the first product, how many requests.
RutinaType == [que : {"listas", "productos", "agencias", "ninguna"}, listas : SUBSET Listas,
               puestas : SUBSET Fichas, fotos : Nat, tope : Nat]

ASSUME CataloguesAssumption ==
  /\ 0 \in Fichas /\ Fichas \subseteq Nat /\ IsFiniteSet(Fichas)
  /\ Nombres \subseteq Nat \ {0} /\ Fichas \ {0} \subseteq Nombres
  /\ Rutinas \subseteq RutinaType

VARIABLES
  rutina,      \* the one of Rutinas that is seen
  fichas,      \* the rows of every list
  respuestas,  \* the answers kept: ResponseCacheService.store
  gestion,      \* what every request read, and what it does with it
  gestiones      \* how many requests there were, up to the bound of the routine

listVars == <<rutina, fichas, respuestas, gestion, gestiones>>

FichaRows == [nombre : Nombres \cup {0}, estado : {"libre", "viva", "borrada"}, activo : BOOLEAN]
Entradas  == SUBSET (Fichas \X (Nombres \cup {0}) \X BOOLEAN)

\* An answer, and whether a change was written after its rows were read and before it was kept;
\* the program does not record the latter.
Respuestas == [hay : BOOLEAN, valor : Entradas, cruzada : BOOLEAN]
Vacia      == [hay |-> FALSE, valor |-> {}, cruzada |-> FALSE]
Ops        == {"nada", "listar", "crear", "editar", "quitar", "limpiar"}
Gestiones    ==
  [op : Ops, lista : Listas, ficha : Fichas, nombre : Nombres \cup {0}, activo : BOOLEAN,
   consulta : Consultas, valor : Entradas, cruzada : BOOLEAN]
SinGestion  ==
  [op |-> "nada", lista |-> "color", ficha |-> 0, nombre |-> 0, activo |-> FALSE,
   consulta |-> "todas", valor |-> {}, cruzada |-> FALSE]

ListsTypeOK ==
  /\ rutina \in Rutinas
  /\ fichas \in [Listas -> [Fichas -> FichaRows]]
  /\ respuestas \in [Listas -> [Consultas -> Respuestas]]
  /\ gestion \in [Gestores -> Gestiones] /\ gestiones \in Nat

Visible(k, i) == fichas[k][i].estado = "viva" /\ ~(i = 0 /\ k \in Escondidas)
Hallada(k, i) == Visible(k, i) /\ (i = 0 => k = "metodo")

\* A listing: the rows that are not removed; with a status, those active.
FindAllUncached(k, q) ==
  {<<i, fichas[k][i].nombre, fichas[k][i].activo>> :
     i \in {j \in Fichas : Visible(k, j) /\ (q = "activas" => fichas[k][j].activo)}}

\* A colour or a size a product may be written with.
Vigente(k, i) == fichas[k][i].estado = "viva" /\ fichas[k][i].activo

----------------------------------------
(* Requests.                                                               *)

Counts     == gestiones < rutina.tope /\ gestiones' = gestiones + 1
Pide(h, p) == gestion[h] = SinGestion /\ gestion' = [gestion EXCEPT ![h] = p] /\ Counts
Cierra(h)  == gestion' = [gestion EXCEPT ![h] = SinGestion]

\* getOrSet: a listing that finds no answer kept reads the rows.
FindAll(h, k, q) ==
  /\ ~respuestas[k][q].hay
  /\ Pide(h, [SinGestion EXCEPT !.op = "listar", !.lista = k, !.consulta = q,
                               !.valor = FindAllUncached(k, q)])
  /\ UNCHANGED <<rutina, fichas, respuestas>>
GetOrSet(h) ==
  /\ gestion[h].op = "listar"
  /\ respuestas' = [respuestas EXCEPT ![gestion[h].lista][gestion[h].consulta] =
                      [hay |-> TRUE, valor |-> gestion[h].valor, cruzada |-> gestion[h].cruzada]]
  /\ Cierra(h)
  /\ UNCHANGED <<gestiones, rutina, fichas>>
\* A minute after its listing began an answer is not used.
Expires(k, q) ==
  /\ respuestas[k][q].hay
  /\ respuestas' = [respuestas EXCEPT ![k][q] = Vacia]
  /\ UNCHANGED <<gestiones, rutina, fichas, gestion>>

\* create looks the name up: a live row refuses it, a removed one is to be brought back.
BeginCreateRow(h, k, n, a) ==
  \E i \in Fichas :
    /\ IF i = 0 THEN \A j \in Fichas : fichas[k][j].nombre # n
                ELSE fichas[k][i].nombre = n /\ fichas[k][i].estado = "borrada"
    /\ Pide(h, [SinGestion EXCEPT !.op = "crear", !.lista = k, !.ficha = i, !.nombre = n,
                                 !.activo = a])
    /\ UNCHANGED <<rutina, fichas, respuestas>>
\* update and remove look the row up; the name 0 leaves the row's.  A method of payment of the
\* system keeps its name and stays.
BeginUpdateRow(h, k, i, n, a) ==
  /\ Hallada(k, i) /\ (i = 0 => n = 0)
  /\ Pide(h, [SinGestion EXCEPT !.op = "editar", !.lista = k, !.ficha = i, !.nombre = n,
                               !.activo = a])
  /\ UNCHANGED <<rutina, fichas, respuestas>>
BeginRemoveRow(h, k, i) ==
  /\ Hallada(k, i) /\ i # 0
  /\ Pide(h, [SinGestion EXCEPT !.op = "quitar", !.lista = k, !.ficha = i])
  /\ UNCHANGED <<rutina, fichas, respuestas>>

\* The row is written and its request goes on to clear; the listings that already read the list
\* are crossed by it.
WritesFicha(h, k, i, row) ==
  /\ fichas' = [fichas EXCEPT ![k][i] = row]
  /\ gestion' = [x \in Gestores |->
                  IF x = h THEN [gestion[h] EXCEPT !.op = "limpiar"]
                  ELSE IF gestion[x].op = "listar" /\ gestion[x].lista = k
                       THEN [gestion[x] EXCEPT !.cruzada = TRUE] ELSE gestion[x]]
  /\ UNCHANGED <<gestiones, rutina, respuestas>>
NameTaken(k, i, n) == \E j \in Fichas \ {i} : fichas[k][j].estado # "libre" /\ fichas[k][j].nombre = n
RefusedRow(h) == Cierra(h) /\ UNCHANGED <<gestiones, rutina, fichas, respuestas>>

CreateRow1(h, k) ==
  LET p == gestion[h] IN
  /\ p.op = "crear" /\ p.lista = k
  /\ IF p.ficha # 0     \* the restored row keeps its key, whatever happened to it meanwhile
     THEN WritesFicha(h, k, p.ficha, [fichas[k][p.ficha] EXCEPT !.estado = "viva", !.activo = p.activo])
     ELSE IF NameTaken(k, 0, p.nombre) THEN RefusedRow(h)
     ELSE \E i \in Fichas \ {0} :
            /\ fichas[k][i].estado = "libre"
            /\ WritesFicha(h, k, i, [nombre |-> p.nombre, estado |-> "viva", activo |-> p.activo])
\* Written by id: whether the row was removed since it was looked up is not asked again.
UpdateRow1(h, k) ==
  LET p == gestion[h]
      n == IF p.nombre = 0 THEN fichas[k][p.ficha].nombre ELSE p.nombre IN
  /\ p.op = "editar" /\ p.lista = k
  /\ IF NameTaken(k, p.ficha, n) THEN RefusedRow(h)
     ELSE \E a \in {p.activo, fichas[k][p.ficha].activo} :      \* sent, or left as it is
            WritesFicha(h, k, p.ficha, [fichas[k][p.ficha] EXCEPT !.nombre = n, !.activo = a])
RemoveRow1(h, k) ==
  LET p == gestion[h] IN
  /\ p.op = "quitar" /\ p.lista = k
  /\ WritesFicha(h, k, p.ficha, [fichas[k][p.ficha] EXCEPT !.estado = "borrada", !.activo = FALSE])

\* Mutant: the answers to the plain listing alone are dropped.
ClearCachePlain(h) ==
  /\ gestion[h].op = "limpiar"
  /\ respuestas' = [respuestas EXCEPT ![gestion[h].lista]["todas"] = Vacia]
  /\ Cierra(h)
  /\ UNCHANGED <<gestiones, rutina, fichas>>
\* clearCache: deletePrefix drops the answers to every query of the list.
ClearCache(h) ==
  /\ gestion[h].op = "limpiar"
  /\ respuestas' = [respuestas EXCEPT ![gestion[h].lista] = [q \in Consultas |-> Vacia]]
  /\ Cierra(h)
  /\ UNCHANGED <<gestiones, rutina, fichas>>

\* What a request does to one list.
Service(h, k) ==
  \/ \E n \in Nombres, a \in BOOLEAN : BeginCreateRow(h, k, n, a)
  \/ \E i \in Fichas, n \in Nombres \cup {0}, a \in BOOLEAN : BeginUpdateRow(h, k, i, n, a)
  \/ \E i \in Fichas : BeginRemoveRow(h, k, i)
  \/ CreateRow1(h, k) \/ UpdateRow1(h, k) \/ RemoveRow1(h, k)
CategoriesService(h)     == Service(h, "categoria")
BrandsService(h)         == Service(h, "marca")
ColorsService(h)         == Service(h, "color")
SizesService(h)          == Service(h, "talla")
PaymentMethodsService(h) == Service(h, "metodo")
Services(h) ==
  \/ "categoria" \in rutina.listas /\ CategoriesService(h)
  \/ "marca" \in rutina.listas /\ BrandsService(h)
  \/ "color" \in rutina.listas /\ ColorsService(h)
  \/ "talla" \in rutina.listas /\ SizesService(h)
  \/ "metodo" \in rutina.listas /\ PaymentMethodsService(h)

\* The process restarts: what it kept and what it was doing are gone.
Restarts ==
  /\ respuestas' = [k \in Listas |-> [q \in Consultas |-> Vacia]]
  /\ gestion' = [h \in Gestores |-> SinGestion]
  /\ UNCHANGED <<gestiones, rutina, fichas>>

----------------------------------------

\* A row of the start is named by its number.
ListsInit ==
  /\ rutina \in Rutinas
  /\ fichas = [k \in Listas |-> [i \in Fichas |->
                 IF i \in rutina.puestas /\ (i = 0 => k \in DelSistema)
                 THEN [nombre |-> i, estado |-> "viva", activo |-> TRUE]
                 ELSE [nombre |-> 0, estado |-> "libre", activo |-> FALSE]]]
  /\ respuestas = [k \in Listas |-> [q \in Consultas |-> Vacia]]
  /\ gestion = [h \in Gestores |-> SinGestion] /\ gestiones = 0

ListsNext ==
  \/ \E k \in rutina.listas, q \in Consultas : Expires(k, q) \/ \E h \in Gestores : FindAll(h, k, q)
  \/ \E h \in Gestores : GetOrSet(h) \/ ClearCache(h) \/ Services(h)

----------------------------------------
(* Properties.                                                             *)

\* An answer that is served shows the rows as they are, unless a change is between its write and
\* its clearing, or was written while that very answer was being read: then it is behind for the
\* minute it is kept (ResponseCacheService.getOrSet, deletePrefix; clearCache of every service).
ListsAgree ==
  \A k \in Listas, q \in Consultas :
    respuestas[k][q].hay =>
      \/ respuestas[k][q].valor = FindAllUncached(k, q)
      \/ respuestas[k][q].cruzada
      \/ \E h \in Gestores : gestion[h].op = "limpiar" /\ gestion[h].lista = k
=============================================================================
