-------------------------- MODULE MCStockOperations --------------------------
(***************************************************************************)
(* Two balances of one SKU.  Transfer t1 has two lines between them,       *)
(* transfer t2 goes back, t3 joins balances of different lots.  The books  *)
(* of b2 show one unit the shelf does not have.                            *)
(***************************************************************************)
EXTENDS StockOperations, TLC

CONSTANTS b1, b2, t1, t2, t3, c1, c2, k1, k2

Line(id, source, destination, quantity) ==
  [id |-> id, source |-> source, destination |-> destination, quantity |-> quantity]
MCBalances == {b1, b2}
MCTransferLines == t1 :> {Line(1, b1, b2, 2), Line(2, b1, b2, 1)} @@ t2 :> {Line(3, b2, b1, 1)}
                     @@ t3 :> {Line(4, b1, b2, 1)}
MCCountLineId == c1 :> (b1 :> 1 @@ b2 :> 2) @@ c2 :> (b1 :> 3 @@ b2 :> 4)
MCOpeningBooks == b1 :> 3 @@ b2 :> 1
MCOpeningShelf == b1 :> 3 @@ b2 :> 0

\* Clients that name the operation's key after the document.
MCKeys == [dispatch |-> {k1}, receive |-> {k1, k2}, post |-> {k1, k2}]
=============================================================================
