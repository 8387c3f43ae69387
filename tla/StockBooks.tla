------------------------------ MODULE StockBooks ------------------------------
(***************************************************************************)
(* The stock and its ledger as purchasing, production, kitting and         *)
(* after-sales see them: adjust_on_hand of inventory/services.py, called   *)
(* once for each row of a document, inside the document's transaction.     *)
(*                                                                         *)
(* A row carries an idempotency key.  Services build it from the number of *)
(* the document and of its line, or from a key the client chose; the       *)
(* ledger admits each key once, whoever uses it.                           *)
(***************************************************************************)
EXTENDS Totals, FiniteSetsExt

CONSTANTS
  Balances,      \* inv_balance rows
  OpeningStock,  \* on_hand_qty of a balance when the system starts
  Held           \* reserved_qty + locked_qty of a balance, Reservations' subject

ASSUME StockBooksAssumption ==
  OpeningStock \in [Balances -> Nat] /\ Held \in [Balances -> Nat]

VARIABLES
  onHand,        \* on_hand_qty of a balance
  booked         \* inv_ledger: [key, balance, delta] rows

stockVars == <<onHand, booked>>

StockInit == onHand = OpeningStock /\ booked = {}

\* What the rows move on a balance.
Moved(b, rows) == SumOver([r \in rows |-> r.delta], {r \in rows : r.balance = b})

\* The rows whose key the ledger does not have yet.
Fresh(rows) == {r \in rows : \A x \in booked : x.key # r.key}

\* adjust_on_hand for each of the rows; nothing may fall below what is held,
\* and a quantity of zero is refused.
Book(rows) ==
  /\ \A r \in rows : r.delta # 0
  /\ \A r \in Fresh(rows) :
       r.delta < 0 => onHand[r.balance] + Moved(r.balance, Fresh(rows)) >= Held[r.balance]
  /\ onHand' = [b \in Balances |-> onHand[b] + Moved(b, Fresh(rows))]
  /\ booked' = booked \cup Fresh(rows)
=============================================================================
