---------------------------- MODULE MCReceivables ----------------------------
(* One sale on credit of two installments, two payments, two requests at a  *)
(* time; and, on days of their own, the notices of one or two sources.       *)
EXTENDS Receivables, Notifications, TLC

CONSTANTS p1, p2, u1, u2

TwoInstallments == <<2, 1>>
Symmetry        == Permutations(Hilos) \cup Permutations(Requests) \cup Permutations(Pases)

Jornada(f, h, t, c, x, g) ==
  [fuentes |-> f, hora |-> h, ticks |-> t, cambios |-> c, caidas |-> x, gestos |-> g]
Quieta == Jornada(<<>>, FALSE, 0, 0, 0, 0)
LasJornadas ==
  {Quieta,
   Jornada(<<"pago", "stock">>, FALSE, 5, 2, 1, 0), Jornada(<<"recibo">>, FALSE, 5, 2, 2, 0),
   Jornada(<<"empresa", "liquidacion">>, FALSE, 5, 2, 1, 0), Jornada(<<>>, TRUE, 7, 3, 1, 0),
   Jornada(<<"nota">>, FALSE, 3, 1, 1, 3), Jornada(<<"venta">>, FALSE, 5, 3, 1, 0)}

SinAvisos == {Quieta}

MCInit == AccountInit /\ NotifyInit
MCNext == \/ jornada = Quieta /\ AccountNext /\ UNCHANGED notifyVars
          \/ jornada # Quieta /\ NotifyNext /\ UNCHANGED accountVars
MCSpec == MCInit /\ [][MCNext]_<<accountVars, notifyVars>>
=============================================================================
