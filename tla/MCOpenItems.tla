----------------------------- MODULE MCOpenItems -----------------------------
(***************************************************************************)
(* Two receipts and two receivables of one customer, and a payment with    *)
(* one payable.                                                            *)
(***************************************************************************)
EXTENDS OpenItems, TLC

CONSTANTS r1, r2, p1, i1, i2, i3

MCMatching == ({r1, r2} \X {i1, i2}) \cup {<<p1, i3>>}
MCAmount == r1 :> 2 @@ r2 :> 1 @@ p1 :> 1
MCOriginal == i1 :> 2 @@ i2 :> 1 @@ i3 :> 1

\* One receipt and two receivables.
OneReceipt == {r1} \X {i1, i2}
OneAmount == r1 :> 2
TwoOriginals == i1 :> 2 @@ i2 :> 1
EqualOriginals == i1 :> 2 @@ i2 :> 2
=============================================================================
