------------------------------- MODULE Products -------------------------------
(***************************************************************************)
(* The products of a company as their form writes them: name, colours,     *)
(* variants of colour and size, and photographs, whose files are in object *)
(* storage (src/src/modules/products/products.service.ts,                  *)
(* src/src/modules/storage/r2-storage.service.ts).                         *)
(*                                                                         *)
(* create and update check the form, and write it in a SERIALIZABLE        *)
(* transaction that starts by locking the company's row to check its       *)
(* limits.  Files are deleted and uploaded while the transaction is open,  *)
(* and stay so if it does not commit.  remove deletes the files first and  *)
(* writes afterwards.  Prices and codes are left out; stock is that of     *)
(* StockLedger, except that a variant that has moved cannot be erased.     *)
(***************************************************************************)
EXTENDS CourierAgencies

CONSTANTS
  Productos,
  Formas,       \* bound: what forms say, see FormaType
  Espacio,      \* the storage of the plan, in photographs
  MaxSubidas    \* bound: photographs ever uploaded

Celdas == Fichas \X Fichas       \* a colour and a size
\* A form: whether the product is a normal one, its name, its colours, its variants, whether they
\* come with stock, and how many photographs it adds.
FormaType == [normal : BOOLEAN, nombre : Nombres, colores : SUBSET Fichas, celdas : SUBSET Celdas,
              stock : BOOLEAN, nuevas : Nat]

\* A form has a colour and a variant, and its variants are of its colours; that of a normal product
\* is turned into the one cell of the system.
ValidForma(f) ==
  /\ f.colores # {} /\ f.celdas # {}
  /\ \A v \in f.celdas : v[1] \in f.colores
  /\ f.normal => f.colores = {0} /\ f.celdas = {<<0, 0>>}
  /\ ~f.normal => 0 \notin f.colores /\ \A v \in f.celdas : v[2] # 0

ASSUME ProductsAssumption ==
  /\ IsFiniteSet(Productos) /\ Espacio \in Nat /\ MaxSubidas \in Nat
  /\ Formas \subseteq FormaType /\ \A f \in Formas : ValidForma(f)
  /\ \A r \in Rutinas : r.fotos <= MaxSubidas /\ r.fotos <= Espacio
                         /\ (r.que = "productos" => {1, 2} \subseteq Fichas)

VARIABLES
  producto,    \* the rows of products, with their colours and variants
  imagenes,    \* the rows of photographs: productoColorImagen
  almacen,     \* the files there are
  subidos,     \* how many were uploaded: their names are fresh
  form,        \* every request on a product
  cortadas,    \* files deleted by requests that did not get to write; not in the program
  pasada       \* a form was written over photographs other than those it had counted; idem

productVars == <<producto, imagenes, almacen, subidos, form, cortadas, pasada>>

Archivos == 1..MaxSubidas
ProductoRows ==
  [estado : {"no", "vivo", "borrado"}, normal : BOOLEAN, nombre : Nombres \cup {0},
   colores : SUBSET Fichas, vivas : SUBSET Celdas, quitadas : SUBSET Celdas,
   movidas : SUBSET Celdas]
SinProducto == [estado |-> "no", normal |-> FALSE, nombre |-> 0, colores |-> {}, vivas |-> {},
                quitadas |-> {}, movidas |-> {}]
ImagenRows  == [producto : Productos, color : Fichas, archivo : Archivos]
Pasos == {"abierta", "espera", "dentro", "leer", "quitar"}
Cero  == [normal |-> FALSE, nombre |-> 0, colores |-> {}, celdas |-> {}, stock |-> FALSE, nuevas |-> 0]

\* A request: the form, the photographs it keeps (those it read, in a removal), how many of those
\* read it drops, the usage its transaction sees; whether the product was written since it was read (vieja), since its
\* transaction began (choca), and whether another form that takes room committed since then
\* (cruzada); the files it has deleted and uploaded.
Libreta == [paso |-> "nada", crea |-> FALSE, producto |-> 0, forma |-> Cero, archivos |-> {}, baja |-> 0, uso |-> 0,
            vieja |-> FALSE, choca |-> FALSE, cruzada |-> FALSE, borrados |-> {}, subidas |-> {}]
Libretas ==
  [paso : Pasos, crea : BOOLEAN, producto : Productos, forma : Formas \cup {Cero}, archivos : SUBSET Archivos,
   baja : Nat, uso : Nat, vieja : BOOLEAN, choca : BOOLEAN, cruzada : BOOLEAN,
   borrados : SUBSET Archivos, subidas : SUBSET ImagenRows]
ProductsTypeOK ==
  /\ producto \in [Productos -> ProductoRows]
  /\ imagenes \in SUBSET ImagenRows /\ almacen \in SUBSET Archivos
  /\ subidos \in 0..MaxSubidas
  /\ form \in [Gestores -> Libretas \cup {Libreta}]
  /\ cortadas \in SUBSET Archivos /\ pasada \in BOOLEAN

Fotos(p)    == {i \in imagenes : i.producto = p}
ArchivosDe(p) == {i.archivo : i \in Fotos(p)}
Toma(h)     == form[h].forma.nuevas - form[h].baja      \* storageIncrement
EnUso(h)    == form[h].paso # "nada"

----------------------------------------
(* The form.                                                               *)

Opens(h, l) == ~EnUso(h) /\ form' = [form EXCEPT ![h] = l] /\ Counts
Leaves(h)   == form' = [form EXCEPT ![h] = Libreta]

\* resolveProductInputs, ensureSimpleCatalogs: the colour and the size of normal products are made,
\* or put back in use, in a transaction of their own.
ResolveInputs(f) ==
  fichas' = IF ~f.normal THEN fichas
            ELSE [fichas EXCEPT !["color"][0] = [@ EXCEPT !.estado = "viva", !.activo = TRUE],
                                !["talla"][0] = [@ EXCEPT !.estado = "viva", !.activo = TRUE]]
\* ensureCatalogReferences: what the form names is in use when it is sent.
CatalogReferences(f) ==
  f.normal \/ /\ \A c \in f.colores : Vigente("color", c)
              /\ \A v \in f.celdas : Vigente("talla", v[2])

OpenCreate(h, p, f) ==
  /\ producto[p] = SinProducto /\ \A x \in Gestores : EnUso(x) => form[x].producto # p
  /\ CatalogReferences(f) /\ ResolveInputs(f)
  /\ Opens(h, [Libreta EXCEPT !.paso = "abierta", !.crea = TRUE, !.producto = p,
                                   !.forma = f])
  /\ UNCHANGED <<rutina, respuestas, gestion, producto, imagenes, almacen, subidos, cortadas, pasada>>
\* update reads the product, with its photographs; the form keeps some of them.
OpenUpdate(h, p, f) ==
  /\ producto[p].estado = "vivo" /\ f.normal = producto[p].normal
  /\ CatalogReferences(f) /\ ResolveInputs(f)
  /\ \E s \in SUBSET ArchivosDe(p) :
       Opens(h, [Libreta EXCEPT !.paso = "abierta", !.producto = p, !.forma = f, !.archivos = s,
                                !.baja = Cardinality({i \in Fotos(p) : i.archivo \notin s})])
  /\ UNCHANGED <<rutina, respuestas, gestion, producto, imagenes, almacen, subidos, cortadas, pasada>>

\* The transaction begins, and asks for the row of the company: this is what it sees from now on.
BeginForm(h) ==
  /\ form[h].paso = "abierta"
  /\ form' = [form EXCEPT ![h].paso = "espera", ![h].uso = Cardinality(imagenes),
                            ![h].choca = FALSE, ![h].cruzada = FALSE]
  /\ UNCHANGED <<listVars, producto, imagenes, almacen, subidos, cortadas, pasada>>

\* The row of the company is free once no other form has it.
CompanyFree == \A x \in Gestores : form[x].paso # "dentro"
\* Mutant: whether the company is within its plan, not whether it stays so.
WithinLimitNow(h) == Toma(h) <= 0 \/ form[h].uso <= Espacio
\* assertResourceLimits: what needs no room is not counted.
WithinLimit(h) == Toma(h) <= 0 \/ form[h].uso + Toma(h) <= Espacio
\* What the database refuses: a name of another product, removed ones included; the row of the
\* product when it was written since the transaction began; a colour taken off whose variants have
\* moved; and a variant that was removed from a colour the product still has, its row being there.
RowsAccept(h) ==
  LET p == form[h].producto
      f == form[h].forma IN
  /\ \A o \in Productos \ {p} : producto[o].nombre # f.nombre
  /\ form[h].crea \/ (producto[p].estado # "no" /\ ~form[h].choca)
  /\ \A v \in producto[p].movidas : v[1] \in f.colores
  /\ \A v \in f.celdas : v \notin producto[p].quitadas
EnterForm(h) ==
  /\ form[h].paso = "espera" /\ CompanyFree
  /\ IF WithinLimit(h) /\ RowsAccept(h) THEN form' = [form EXCEPT ![h].paso = "dentro"]
     ELSE Leaves(h)
  /\ UNCHANGED <<listVars, producto, imagenes, almacen, subidos, cortadas, pasada>>

\* Photographs of the product, of colours it keeps, that the form does not keep: their files are
\* deleted one by one, with the transaction open.  With a colour its rows go, and its files stay.
Kept(h)      == {i \in Fotos(form[h].producto) :
                   i.color \in form[h].forma.colores /\ i.archivo \in form[h].archivos}
ToDelete(h)  == {i.archivo : i \in {j \in Fotos(form[h].producto) : j.color \in form[h].forma.colores}}
                  \ form[h].archivos
DeleteProductImage(h, a) ==
  /\ form[h].paso = "dentro" /\ a \in ToDelete(h) \ form[h].borrados
  /\ almacen' = almacen \ {a}
  /\ form' = [form EXCEPT ![h].borrados = @ \cup {a}]
  /\ UNCHANGED <<listVars, producto, imagenes, subidos, cortadas, pasada>>
\* Every photograph the form keeps must still have its row.
Ready(h) ==
  /\ form[h].paso = "dentro" /\ ToDelete(h) \subseteq form[h].borrados
  /\ \A a \in form[h].archivos : \E i \in Kept(h) : i.archivo = a
UploadProductColorImage(h, c) ==
  /\ Ready(h) /\ Cardinality(form[h].subidas) < form[h].forma.nuevas
  /\ subidos < MaxSubidas /\ subidos' = subidos + 1
  /\ almacen' = almacen \cup {subidos + 1}
  /\ c \in form[h].forma.colores
  /\ form' = [form EXCEPT ![h].subidas =
                @ \cup {[producto |-> form[h].producto, color |-> c, archivo |-> subidos + 1]}]
  /\ UNCHANGED <<listVars, producto, imagenes, cortadas, pasada>>

\* A product is written, p by h: who had read it, or has a transaction open that saw it
\* as it was, finds out, or does not.
Notes(h, p, l, toma) ==
  form' = [x \in Gestores |->
             IF x = h THEN l
             ELSE IF ~EnUso(x) THEN form[x]
             ELSE [form[x] EXCEPT !.vieja = @ \/ form[x].producto = p,
                                  !.choca = @ \/ form[x].producto = p, !.cruzada = @ \/ toma]]
\* The form commits.  Two that took room and did not see each other cannot both commit.
CommitForm(h) ==
  LET p == form[h].producto
      f == form[h].forma
      r == producto[p]
      De(s) == {v \in s : v[1] \in f.colores} IN
  /\ Ready(h) /\ Cardinality(form[h].subidas) = f.nuevas
  /\ Toma(h) > 0 => ~form[h].cruzada
  /\ producto' = [producto EXCEPT ![p] =
       [estado |-> IF form[h].crea THEN "vivo" ELSE r.estado, normal |-> f.normal,
        nombre |-> f.nombre, colores |-> f.colores, vivas |-> f.celdas,
        quitadas |-> De(r.quitadas \cup r.vivas) \ f.celdas,
        movidas |-> r.movidas \cup (IF f.stock THEN f.celdas ELSE {})]]
  /\ imagenes' = (imagenes \ Fotos(p)) \cup Kept(h) \cup form[h].subidas
  /\ Notes(h, p, IF form[h].crea THEN [form[h] EXCEPT !.paso = "leer", !.borrados = {}] ELSE Libreta,
           Toma(h) > 0)
  /\ pasada' = (pasada \/ form[h].vieja)
  /\ UNCHANGED <<listVars, almacen, subidos, cortadas>>
\* Anything fails before that: a file that cannot be uploaded, a photograph without its row, two
\* minutes gone, a serialization failure.  The rows stay as they were; the files do not.
AbortForm(h) ==
  /\ form[h].paso \in {"abierta", "espera", "dentro", "quitar"}
  /\ cortadas' = cortadas \cup form[h].borrados
  /\ Leaves(h)
  /\ UNCHANGED <<listVars, producto, imagenes, almacen, subidos, pasada>>
\* What was created is read to answer with it.  That reading is returned, not awaited, so the
\* catch that would erase the product never sees it fail: the product stays.
AnswerCreated(h) ==
  /\ form[h].paso = "leer" /\ Leaves(h)
  /\ UNCHANGED <<listVars, producto, imagenes, almacen, subidos, cortadas, pasada>>

----------------------------------------
(* Removal.                                                                *)

BeginRemove(h, p) ==
  /\ producto[p].estado = "vivo"
  /\ Opens(h, [Libreta EXCEPT !.paso = "quitar", !.producto = p, !.archivos = ArchivosDe(p)])
  /\ UNCHANGED <<rutina, fichas, respuestas, gestion, producto, imagenes, almacen, subidos, cortadas, pasada>>
DeleteRemovedImage(h, a) ==
  /\ form[h].paso = "quitar" /\ a \in form[h].archivos \ form[h].borrados
  /\ almacen' = almacen \ {a}
  /\ form' = [form EXCEPT ![h].borrados = @ \cup {a}]
  /\ UNCHANGED <<listVars, producto, imagenes, subidos, cortadas, pasada>>
\* The rows are written by id, once no form has that of the product: every photograph of it goes,
\* read or not.
CommitRemove(h) ==
  LET p == form[h].producto IN
  /\ form[h].paso = "quitar" /\ form[h].archivos \subseteq form[h].borrados
  /\ producto[p].estado # "no"
  /\ \A x \in Gestores : form[x].paso = "dentro" => form[x].producto # p
  /\ producto' = [producto EXCEPT ![p] = [@ EXCEPT !.estado = "borrado", !.vivas = {},
                                          !.quitadas = producto[p].quitadas \cup producto[p].vivas]]
  /\ imagenes' = imagenes \ Fotos(p)
  /\ Notes(h, p, Libreta, FALSE)
  /\ UNCHANGED <<listVars, almacen, subidos, cortadas, pasada>>

\* A variant is sold, moved or counted: its kardex keeps it from being erased.
Moves(p, v) ==
  /\ v \in producto[p].vivas \ producto[p].movidas /\ Counts
  /\ producto' = [producto EXCEPT ![p].movidas = @ \cup {v}]
  /\ UNCHANGED <<rutina, fichas, respuestas, gestion, imagenes, almacen, subidos, form, cortadas, pasada>>

\* The process restarts: transactions that were open are rolled back.
Restart ==
  /\ Restarts /\ AgenciesRestart
  /\ cortadas' = cortadas \cup UNION {form[h].borrados : h \in Gestores}
  /\ form' = [h \in Gestores |-> Libreta]
  /\ UNCHANGED <<producto, imagenes, almacen, subidos, pasada>>

----------------------------------------

\* One product with variants of one colour, its photographs of that colour.
PrimerProducto ==
  [estado |-> "vivo", normal |-> FALSE, nombre |-> 1, colores |-> {1}, vivas |-> {<<1, 1>>, <<1, 2>>},
   quitadas |-> {}, movidas |-> {}]
ProductsInit ==
  /\ ListsInit /\ AgenciesInit
  /\ subidos = rutina.fotos /\ almacen = 1..rutina.fotos
  /\ IF rutina.que = "productos"
     THEN \E p \in Productos :
            /\ producto = [o \in Productos |-> IF o = p THEN PrimerProducto ELSE SinProducto]
            /\ imagenes = {[producto |-> p, color |-> 1, archivo |-> a] : a \in 1..rutina.fotos}
     ELSE producto = [o \in Productos |-> SinProducto] /\ imagenes = {}
  /\ form = [h \in Gestores |-> Libreta] /\ cortadas = {} /\ pasada = FALSE
FormNext(h) ==
  \/ \E p \in Productos :
       \/ \E f \in Formas : OpenCreate(h, p, f) \/ OpenUpdate(h, p, f)
       \/ BeginRemove(h, p)
  \/ BeginForm(h) \/ EnterForm(h) \/ CommitForm(h) \/ AbortForm(h)
  \/ AnswerCreated(h) \/ CommitRemove(h)
  \/ \E a \in Archivos : DeleteProductImage(h, a) \/ DeleteRemovedImage(h, a)
  \/ \E c \in Fichas : UploadProductColorImage(h, c)
CatalogueNext ==
  \/ ListsNext /\ UNCHANGED <<agencyVars, productVars>>
  \/ rutina.que = "agencias" /\ AgenciesNext /\ UNCHANGED <<listVars, productVars>>
  \/ /\ rutina.que = "productos"
     /\ (\E h \in Gestores : FormNext(h)) \/ \E p \in Productos, v \in Celdas : Moves(p, v)
     /\ UNCHANGED agencyVars
  \/ Restart
catalogueVars == <<listVars, agencyVars, productVars>>
CatalogueSpec == ProductsInit /\ [][CatalogueNext]_catalogueVars

----------------------------------------
(* Properties.                                                             *)

\* The row of a photograph points to its file.  Where it does not, the file was deleted by a
\* request that is still to write the rows, or by one that failed before it could: a file is never
\* deleted under a row somebody else keeps (update, remove, createProductImages).
ImagesStored ==
  \A i \in imagenes :
    i.archivo \in almacen \cup cortadas \cup UNION {form[h].borrados : h \in Gestores}

\* The photographs of the company are within its plan, with forms that come together, wait for
\* each other and fail; unless a form was written over a product that changed after it was read,
\* since what it counts as dropped is what it read (update, assertResourceLimits).
StorageWithinPlan == Cardinality(imagenes) <= Espacio \/ pasada

\* What a company has of photographs is what it keeps and what its plan allows.
ProductsHold == ImagesStored /\ StorageWithinPlan
=============================================================================
