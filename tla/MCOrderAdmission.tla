--------------------------- MODULE MCOrderAdmission ---------------------------
(***************************************************************************)
(* Instances of OrderAdmission.  The account holds x; exits e1 and e2 of an *)
(* operator race on it while a strategy wants to buy y, and there is room   *)
(* for one position only.                                                   *)
(***************************************************************************)
EXTENDS OrderAdmission

CONSTANTS x, y, e1, e2, b

MCContracts == {x, y}
MCOrders == {e1, e2, b}
MCContract == [o \in MCOrders |-> IF o = b THEN y ELSE x]
MCQuantity == [o \in MCOrders |-> CASE o = e1 -> -2 [] o = e2 -> -1 [] o = b -> 1]
MCOperator == {e1, e2}
MCStart == [c \in MCContracts |-> IF c = x THEN 2 ELSE 0]
=============================================================================
