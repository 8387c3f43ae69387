--------------------------- MODULE StockOperations ---------------------------
(***************************************************************************)
(* Transfers between warehouses and stock counts: inventory/operation_     *)
(* services.py, over the balances and the ledger of inventory/services.py. *)
(*                                                                         *)
(* Beside the books the model keeps the shelf: the goods really there.  A  *)
(* sale, a dispatch and a receipt move both, a count reads the shelf to    *)
(* correct the books.  Every operation carries an idempotency key that the *)
(* client chooses; the ledger row of a document line has the key           *)
(* "<key>:line:<line id>", and line ids of transfers and of counts are     *)
(* numbered independently.  Every action is one transaction that holds the *)
(* locks of the rows it changes.                                           *)
(***************************************************************************)
EXTENDS Totals, FiniteSets

CONSTANTS
  Balances,      \* inv_balance rows
  Transfers,
  TransferLines, \* of a transfer: [id, source, destination, quantity] records
  Mismatched,    \* transfers whose balances differ in stock status or lot
  Counts,
  CountLineId,   \* the id of the line a count makes for a balance
  Keys,          \* the keys clients use, by operation: "dispatch", "receive", "post"
  NoKey,
  OpeningBooks, OpeningShelf,
  MaxReceived,   \* bound: the most a receipt claims of a line
  MaxMoves       \* bound: sales, reservations and releases of other parts

\* Rows refer to rows, and the lines of a document have ids of their own.
ASSUME StockOperationsAssumption ==
  /\ IsFiniteSet(Balances) /\ IsFiniteSet(Transfers) /\ IsFiniteSet(Counts)
  /\ Transfers \cap Counts = {} /\ MaxReceived \in Nat /\ MaxMoves \in Nat
  /\ OpeningBooks \in [Balances -> Nat] /\ OpeningShelf \in [Balances -> Nat]
  /\ \A t \in Transfers :
       /\ IsFiniteSet(TransferLines[t])
       /\ TransferLines[t] \subseteq
            [id : Nat, source : Balances, destination : Balances, quantity : Nat \ {0}]
       /\ \A l, m \in TransferLines[t] : l.id = m.id => l = m
  /\ \A c \in Counts :
       /\ CountLineId[c] \in [Balances -> Nat]
       /\ \A a, b \in Balances : CountLineId[c][a] = CountLineId[c][b] => a = b

VARIABLES
  onHand,        \* on_hand_qty of a balance
  held,          \* reserved_qty + locked_qty of a balance
  ledger,        \* inv_ledger rows of transfers and counts
  transfer,      \* status, version, keys and received quantities of a transfer
  count,         \* status, version, key, book and difference of a count
  shelf,         \* the goods at a balance's place
  sold,          \* goods sold from a balance
  moved,         \* history: the balances that changed since a count began
  moves

stock == <<onHand, shelf, ledger>>
vars == <<onHand, held, ledger, transfer, count, shelf, sold, moved, moves>>

\* A transfer and a count nothing was done with.
NoTransfer == [status |-> "draft", version |-> 1, dispatchKey |-> NoKey,
               receiptKey |-> NoKey, received |-> <<>>]
NoCount == [status |-> "draft", version |-> 1, key |-> NoKey,
            book |-> <<>>, difference |-> <<>>]

Init ==
  /\ onHand = OpeningBooks /\ shelf = OpeningShelf
  /\ held = [b \in Balances |-> 0] /\ sold = [b \in Balances |-> 0]
  /\ ledger = {}
  /\ transfer = [t \in Transfers |-> NoTransfer]
  /\ count = [c \in Counts |-> NoCount]
  /\ moved = [c \in Counts |-> {}]
  /\ moves = 0

\* The counts that go on lose their hold of a balance whose goods or books change.
Disturb(bs) ==
  moved' = [c \in Counts |-> IF count'[c].status \in {"counting", "pending_approval"}
                             THEN moved[c] \cup bs ELSE moved[c]]

\* The rows of a transaction that adjust_on_hand books: those whose key is new.
Fresh(rows) == {r \in rows : \A x \in ledger : x.key # r.key \/ x.line # r.line}

Delta(b, rows) == SumOver([r \in rows |-> r.delta], {r \in rows : r.balance = b})

\* adjust_on_hand, for each row of a transaction.
Book(rows) ==
  LET fresh == Fresh(rows) IN
  /\ \A r \in fresh : onHand[r.balance] + Delta(r.balance, fresh) >= held[r.balance]
  /\ onHand' = [b \in Balances |-> onHand[b] + Delta(b, fresh)]
  /\ ledger' = ledger \cup fresh

\* approve_stock_transfer, with the check of every line.
Approve(t, expected) ==
  /\ transfer[t].version = expected /\ transfer[t].status = "draft"
  /\ t \notin Mismatched /\ TransferLines[t] # {}
  /\ transfer' = [transfer EXCEPT ![t].status = "approved", ![t].version = @ + 1]
  /\ UNCHANGED <<stock, held, count, sold, moved, moves>>

\* What was asked for of each line of a transfer.
Requested(t) == [l \in TransferLines[t] |-> l.quantity]

\* dispatch_stock_transfer of goods that are on the shelf; a repeated key that
\* is the transfer's own changes nothing, one of another transfer is refused.
Dispatch(t, k) ==
  /\ \A u \in Transfers : transfer[u].dispatchKey # k
  /\ transfer[t].status = "approved"
  /\ Book({[key |-> k, line |-> l.id, balance |-> l.source, delta |-> -l.quantity,
            document |-> t] : l \in TransferLines[t]})
  /\ shelf' = [b \in Balances |-> shelf[b]
                 - SumOver(Requested(t), {l \in TransferLines[t] : l.source = b})]
  /\ \A b \in Balances : shelf'[b] >= 0
  /\ transfer' = [transfer EXCEPT ![t].status = "in_transit", ![t].dispatchKey = k,
                                  ![t].version = @ + 1]
  /\ UNCHANGED <<held, count, sold, moves>>
  /\ Disturb({l.source : l \in TransferLines[t]})

\* What a receipt books for a line; the fault books what was sent.
Arriving_Sent(l, q) == l.quantity
Arriving(l, q) == q[l]

\* receive_stock_transfer of q[l] for each line.
Receive(t, k, q) ==
  /\ \A u \in Transfers : transfer[u].receiptKey # k
  /\ transfer[t].status = "in_transit"
  /\ \A l \in TransferLines[t] : q[l] <= l.quantity
  /\ Book({[key |-> k, line |-> l.id, balance |-> l.destination, delta |-> Arriving(l, q),
            document |-> t] : l \in {m \in TransferLines[t] : q[m] > 0}})
  /\ shelf' = [b \in Balances |-> shelf[b]
                 + SumOver(q, {l \in TransferLines[t] : l.destination = b})]
  /\ transfer' = [transfer EXCEPT ![t].status = "completed", ![t].receiptKey = k,
                                  ![t].version = @ + 1, ![t].received = q]
  /\ UNCHANGED <<held, count, sold, moves>>
  /\ Disturb({l.destination : l \in {m \in TransferLines[t] : q[m] > 0}})
-----------------------------------------------------------------------------
\* start_stock_count: the books of the balances are frozen into the lines.
StartCount(c, bs, expected) ==
  /\ count[c].version = expected /\ count[c].status = "draft"
  /\ count' = [count EXCEPT ![c].status = "counting", ![c].version = @ + 1,
                            ![c].book = [b \in bs |-> onHand[b]]]
  /\ UNCHANGED <<stock, held, transfer, sold, moved, moves>>

\* The fault corrects the books the wrong way round.
Difference_Reversed(book, counted) == book - counted
Difference(book, counted) == counted - book

\* submit_stock_count by someone who counts the shelf well.
SubmitCount(c) ==
  /\ count[c].status = "counting"
  /\ count' = [count EXCEPT ![c].status = "pending_approval", ![c].version = @ + 1,
       ![c].difference = [b \in DOMAIN count[c].book |-> Difference(count[c].book[b], shelf[b])]]
  /\ UNCHANGED <<stock, held, transfer, sold, moved, moves>>

\* post_stock_count: every line that differs is booked.
Post(c, k) ==
  LET wrong == {b \in DOMAIN count[c].difference : count[c].difference[b] # 0} IN
  /\ \A d \in Counts : count[d].key # k
  /\ count[c].status = "pending_approval"
  /\ Book({[key |-> k, line |-> CountLineId[c][b], balance |-> b,
            delta |-> count[c].difference[b], document |-> c] : b \in wrong})
  /\ count' = [count EXCEPT ![c].status = "posted", ![c].key = k, ![c].version = @ + 1]
  /\ UNCHANGED <<shelf, held, transfer, sold, moves>>
  /\ Disturb(wrong)
-----------------------------------------------------------------------------
\* What sales do meanwhile: reserve a unit, release it, or ship it.
Move(b, reserved, shipped) ==
  /\ moves < MaxMoves
  /\ moves' = moves + 1
  /\ held' = [held EXCEPT ![b] = @ + reserved - shipped]
  /\ onHand' = [onHand EXCEPT ![b] = @ - shipped]
  /\ held'[b] \in 0..onHand'[b]
  /\ shipped <= shelf[b]
  /\ shelf' = [shelf EXCEPT ![b] = @ - shipped]
  /\ sold' = [sold EXCEPT ![b] = @ + shipped]
  /\ UNCHANGED <<ledger, transfer, count>>
  /\ Disturb(IF shipped > 0 THEN {b} ELSE {})

Reserve(b) == Move(b, 1, 0)
Release(b) == Move(b, -1, 0)
ShipUnit(b) == Move(b, 0, 1)

Next ==
  \/ \E t \in Transfers :
       \/ \E expected \in 1..2 : Approve(t, expected)
       \/ \E k \in Keys["dispatch"] : Dispatch(t, k)
       \/ \E k \in Keys["receive"] :
            \E q \in [TransferLines[t] -> 0..MaxReceived] : Receive(t, k, q)
  \/ \E c \in Counts :
       \/ \E bs \in SUBSET Balances \ {{}}, expected \in 1..2 : StartCount(c, bs, expected)
       \/ SubmitCount(c)
       \/ \E k \in Keys["post"] : Post(c, k)
  \/ \E b \in Balances : Reserve(b) \/ Release(b) \/ ShipUnit(b)

Spec == Init /\ [][Next]_vars
-----------------------------------------------------------------------------
TypeOK ==
  /\ onHand \in [Balances -> Nat] /\ held \in [Balances -> Nat]
  /\ shelf \in [Balances -> Nat] /\ sold \in [Balances -> Nat]
  /\ \A t \in Transfers : transfer[t].status \in {"draft", "approved", "in_transit", "completed"}
  /\ \A c \in Counts :
       count[c].status \in {"draft", "counting", "pending_approval", "posted"}

\* The goods that left, those of them that came, and what counts corrected.
Sent == {t \in Transfers : transfer[t].status \in {"in_transit", "completed"}}
Completed == {t \in Transfers : transfer[t].status = "completed"}
Posted == {c \in Counts : count[c].status = "posted"}
CountRows == {r \in ledger : r.document \in Counts}
Underway == SumOver([t \in Transfers |-> SumOver(Requested(t), TransferLines[t])], Sent)
Arrived == SumOver([t \in Completed |-> SumOver(transfer[t].received, TransferLines[t])], Completed)
Corrections == SumOver([r \in CountRows |-> r.delta], CountRows)

\* Goods are at one place at a time: on the books of a balance, on a transfer,
\* sold, or written off by a count.  (Baseline document 06, line 1006.)
GoodsAreOnce ==
  SumOver([b \in Balances |-> onHand[b] + sold[b]], Balances) + Underway - Arrived - Corrections
    = SumOver(OpeningBooks, Balances)

\* The rows that the documents asked the ledger for: one for each line of a
\* dispatch, for each line something was received of, and for each that a posted
\* count corrected.
Dispatched(t) ==
  {[key |-> transfer[t].dispatchKey, line |-> l.id, balance |-> l.source,
    delta |-> -l.quantity, document |-> t] : l \in TransferLines[t]}
Received(t) ==
  {[key |-> transfer[t].receiptKey, line |-> l.id, balance |-> l.destination,
    delta |-> transfer[t].received[l], document |-> t]
      : l \in {m \in TransferLines[t] : transfer[t].received[m] > 0}}
Corrected(c) ==
  {[key |-> count[c].key, line |-> CountLineId[c][b], balance |-> b,
    delta |-> count[c].difference[b], document |-> c]
      : b \in {a \in DOMAIN count[c].difference : count[c].difference[a] # 0}}
Asked == (UNION {Dispatched(t) : t \in Sent}) \cup (UNION {Received(t) : t \in Completed})
           \cup (UNION {Corrected(c) : c \in Posted})

SameKey(x, y) == x.key = y.key /\ x.line = y.line

\* The ledger has nothing but what documents asked for, and under every key and
\* line that was asked for exactly one row: a second document that comes with the
\* key and the line id of another is booked by nobody.
LedgerTells ==
  /\ ledger \subseteq Asked
  /\ \A x \in Asked : \E r \in ledger : SameKey(r, x)
  /\ \A r, s \in ledger : SameKey(r, s) => r = s

\* The books of a balance are what the ledger and the sales make of them.
BooksFollowLedger ==
  \A b \in Balances : onHand[b] + sold[b] = OpeningBooks[b] + Delta(b, ledger)

\* What is not checked anywhere: no two lines of documents use a key together.
KeysServeOnce == \A x, y \in Asked : SameKey(x, y) => x = y

\* The books follow the ledger, the ledger follows the documents, each line once
\* and under one key; and wherever clients did not use a key for two operations,
\* no goods are lost or doubled between warehouses, whatever interleaves.
GoodsAreBooked ==
  TypeOK /\ LedgerTells /\ BooksFollowLedger /\ (KeysServeOnce => GoodsAreOnce)

\* The books of what a count found are those of the shelf, but where goods or
\* books changed after the count had frozen them, and where the ledger has had a
\* row under the count's key and line already.
SetsRight(c) ==
  \A b \in DOMAIN count[c].book \ moved[c] :
    (\A r \in ledger : r.key # count'[c].key \/ r.line # CountLineId[c][b]) => onHand'[b] = shelf[b]

\* Posting a count makes the books of a balance right (start_stock_count, post_stock_count).
CountsAreExact ==
  [][\A c \in Counts :
       count[c].status # "posted" /\ count'[c].status = "posted" => SetsRight(c)]_vars
=============================================================================
