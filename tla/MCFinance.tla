------------------------------ MODULE MCFinance ------------------------------
(***************************************************************************)
(* The books of finance: the general ledger, receipts and payments with    *)
(* the items they settle, what stock is worth, and the papers that stand   *)
(* on journals.  A behaviour is of one of them ("desk"), papers have one   *)
(* desk for each kind.  Two periods, two usable accounts and one closed to *)
(* postings; entries that balance, one that does not and one on the closed *)
(* account.  A desk of papers starts beside two approved journals, one in  *)
(* each period, which are posted and reversed meanwhile.                   *)
(***************************************************************************)
EXTENDS MCOpenItems, Costs, Papers

CONSTANTS cash, sales, old

VARIABLE desk

MCEntries == {cash :> 1 @@ sales :> -1 @@ old :> 0,
              cash :> 2 @@ sales :> -1 @@ old :> 0,
              cash :> 1 @@ sales :> 0 @@ old :> -1}
MCPurchases == {[qty |-> 3, cost |-> 5], [qty |-> 2, cost |-> 1]}
MCValue == [a \in Assets |-> 3]

Vouchers == Permutations(Journals)

Kinds == [claims |-> Claims, payrolls |-> Payrolls, invoices |-> Invoices, assets |-> Assets]

\* Two approved journals that may be posted, and one to reverse them with.
Approved(p) == [status |-> "approved", period |-> p, date |-> p,
                lines |-> cash :> 1 @@ sales :> -1 @@ old :> 0, reverses |-> NoJournal]
PaperJournals ==
  /\ period = [p \in Periods |-> "open"]
  /\ \E f \in [Journals -> {NoEntry} \cup {Approved(p) : p \in Periods}] :
       /\ \A j, k \in Journals : j # k => f[j] # f[k]
       /\ journal = f
  /\ entryForm = [c \in Bookkeepers |-> NoEntryForm] /\ entryEdits = MaxEntryEdits

FinanceInit ==
  /\ desk \in {"ledger", "items", "costs"} \cup DOMAIN Kinds
  /\ Init /\ CostInit /\ PaperInit
  /\ IF desk \in DOMAIN Kinds THEN PaperJournals ELSE LedgerInit

DeskNext ==
  \/ \E d \in Kinds[desk] \ Assets : PaperNext(d)
  \/ \E a \in Kinds[desk] \cap Assets : AssetNext(a)

JournalsNext ==
  \/ \E j \in Journals : Post(j)
  \/ \E j, k \in Journals, p \in Periods : Reverse(j, k, p, p)

FinanceNext ==
  /\ UNCHANGED desk
  /\ \/ desk = "ledger" /\ LedgerNext /\ UNCHANGED <<vars, costVars, paperVars>>
     \/ desk = "items" /\ Services /\ UNCHANGED <<ledgerVars, costVars, paperVars>>
     \/ desk = "costs" /\ CostNext /\ UNCHANGED <<vars, ledgerVars, paperVars>>
     \/ desk \in DOMAIN Kinds /\ DeskNext /\ UNCHANGED <<vars, ledgerVars, costVars>>
     \/ desk \in DOMAIN Kinds /\ JournalsNext /\ UNCHANGED <<vars, costVars, paperVars>>

FinanceSpec ==
  FinanceInit /\ [][FinanceNext]_<<vars, ledgerVars, costVars, paperVars, desk>>
=============================================================================
