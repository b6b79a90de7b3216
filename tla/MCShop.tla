----------------------------- MODULE MCShop -----------------------------
(* The store and the counter of a company.  In the store two requests at a     *)
(* time, three in all, on two branches (the first of them a store) and two     *)
(* products.  At the counter, on each of some days, two requests at a time of  *)
(* the kinds that can meet on that day.                                        *)
EXTENDS StockLedger, Amounts

CONSTANTS t1, t2, a1, a2, r1, s1, s2, b1, b2, v1, v2

Dia(n, b, r, k) ==
  [kinds |-> k, calls |-> n, billing |-> b, recojo |-> r]
Goods == {"entregar", "despachar", "estadoEnvio", "incidencia", "resolver", "enlace", "datosEnvio", "anular"}
Papers == {"convertirVenta", "anular", "notaCredito", "notaDebito"}
LosDias ==
  {Dia(4, TRUE, TRUE, {"crearSerie", "cambiarSerie", "venta"}),
   Dia(4, FALSE, TRUE, {"cotizar", "editarCotizacion", "anularCotizacion", "convertirCotizacion",
                        "venta", "caja"}),
   Dia(7, FALSE, TRUE, Goods), Dia(7, FALSE, FALSE, Goods),
   Dia(4, FALSE, FALSE, Papers), Dia(4, TRUE, FALSE, Papers),
   Dia(0, FALSE, FALSE, {"importes"})}

Symmetry == Permutations(Atenciones)

SinRebaja == [tipo |-> "monto", valor |-> 0]
Linea(p, c, a, d) == [precio |-> p, cantidad |-> c, afecta |-> a, desc |-> d]
Lineas == {Linea(5, 2, TRUE, SinRebaja), Linea(7, 3, TRUE, SinRebaja), Linea(1, 1, FALSE, SinRebaja),
           Linea(99, 5, TRUE, SinRebaja), Linea(10, 1, TRUE, [tipo |-> "porcentaje", valor |-> 15])}
LasCuentas == (SeqOf(Lineas, 3) \ {<<>>}) \cup {[i \in 1..4 |-> l] : l \in Lineas}
LosDescuentos == {SinRebaja, [tipo |-> "monto", valor |-> 2], [tipo |-> "monto", valor |-> 13],
                  [tipo |-> "porcentaje", valor |-> 10], [tipo |-> "porcentaje", valor |-> 33]}
LosPlanes == {[lista |-> 4990, porciento |-> 0], [lista |-> 1995, porciento |-> 10]}
LasAsistencias == {[lista |-> 4990, porciento |-> 0], [lista |-> 1505, porciento |-> 15],
                   [lista |-> 7, porciento |-> 0]}
LosAfiliados == {[descuento |-> 0, comision |-> 0], [descuento |-> 10, comision |-> 15],
                 [descuento |-> 7, comision |-> 33]}

TwoBranches == {1, 2}
Store       == {1}
TwoVariants == {1, 2}
SomeCarts   == {<<1, 2>>, <<2, 1>>}
InTheStore  == {<<1, 1>>, <<1, 2>>}
NoUnits     == {0}

VARIABLE parte     \* chosen once

MCInit ==
  /\ Init /\ ShopInit
  /\ \/ parte = "almacen" /\ dia.kinds = {"importes"}
     \/ parte = "mostrador"
MCNext ==
  /\ \/ parte = "almacen" /\ Next /\ UNCHANGED shopVars
     \/ parte = "mostrador" /\ ShopNext /\ UNCHANGED vars
  /\ UNCHANGED parte
MCSpec == MCInit /\ [][MCNext]_<<vars, shopVars, parte>>
=============================================================================
