--------------------------- MODULE MCOrderLocking ---------------------------
(***************************************************************************)
(* Orders 1 and 2 of one company place their lines on the same two         *)
(* balances in opposite orders; order 3 is being shipped.  Reservations    *)
(* are pairs <<order, number>>.                                            *)
(***************************************************************************)
EXTENDS OrderLocking, TLC

CONSTANTS b1, b2, l1, l2, l3, s1, s2, sku

MCOrderOf == s1 :> 3 @@ s2 :> 3
MCLinesOf == <<<<l1>>, <<l2>>, <<l3>>>>
MCLineOf == <<1, 1>> :> l1 @@ <<1, 2>> :> l1 @@ <<2, 1>> :> l2 @@ <<2, 2>> :> l2
              @@ <<3, 1>> :> l3 @@ <<3, 2>> :> l3
MCBalanceOf == <<1, 1>> :> b1 @@ <<1, 2>> :> b2 @@ <<2, 1>> :> b2 @@ <<2, 2>> :> b1
                 @@ <<3, 1>> :> b1 @@ <<3, 2>> :> b2
MCPlaced == [o \in 1..3 |-> <<<<o, 1>>, <<o, 2>>>>]
MCShipLines == s1 :> <<<<3, 1>>, <<3, 2>>>> @@ s2 :> <<<<3, 2>>>>
MCSkuOf == [l \in {l1, l2, l3} |-> sku]

\* Confirming order 1, cancelling orders 2 and 3, the warehouse on order 3, and
\* a stock adjustment.
MCKind == <<"confirm", "cancel", "cancel", "ship", "transition", "adjust">>
MCSubject == <<1, 2, 3, s1, s2, b1>>
=============================================================================
