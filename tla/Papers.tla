-------------------------------- MODULE Papers --------------------------------
(***************************************************************************)
(* The papers beside the ledger that stand on its journals: expense        *)
(* claims, payrolls, tax invoices and fixed assets                         *)
(* (finance/peripheral_services.py), and their creation, edits and         *)
(* deletion (CompanyScopedViewSet of finance/api.py).                      *)
(*                                                                         *)
(* A service locks its paper and reads the journal without a lock.  What   *)
(* it sees posted can only become reversed, and stays booked: each service *)
(* is one action.  An edit saves every column of the copy it read; saving  *)
(* a paper that was deleted inserts it again.                              *)
(***************************************************************************)
EXTENDS GeneralLedger

CONSTANTS
  Claims, Payrolls, Invoices,
  Assets, Value,           \* original_cost less residual_value of an asset
  Values,                  \* bound: values that edits give
  Depreciations,           \* bound: amounts
  People, Nobody,
  NoPaper,                 \* no row, and no edit under way
  MaxPaperForms            \* bound: edits

ASSUME PaperAssumption ==
  /\ Value \in [Assets -> Nat \ {0}] /\ Values \subseteq Nat \ {0}
  /\ Depreciations \subseteq Nat \ {0} /\ MaxPaperForms \in Nat
  /\ Nobody \notin People
  /\ Claims \cap (Payrolls \cup Invoices) = {} /\ Payrolls \cap Invoices = {}
  /\ Assets \cap (Claims \cup Payrolls \cup Invoices) = {}

Papers == Claims \cup Payrolls \cup Invoices

VARIABLES
  paper,         \* status, journal, maker (claimant, calculated_by) and checker
  asset,         \* status, value and accumulated_depreciation
  depreciation,  \* fin_depreciation_entry
  copy,          \* the copy an open edit holds
  copies,
  loose          \* history: papers an edit put back or moved, or that were deleted

paperVars == <<paper, asset, depreciation, copy, copies, loose>>

PaperInit ==
  /\ paper = [d \in Papers |-> NoPaper]
  /\ asset = [a \in Assets |-> [status |-> "draft", value |-> Value[a], accumulated |-> 0]]
  /\ depreciation = {}
  /\ copy = [d \in Papers \cup Assets |-> NoPaper] /\ copies = 0 /\ loose = {}

KnownJournals == {j \in Journals : journal[j] # NoEntry}
\* _posted; the fault takes a journal that is only approved.
Posted_Approved(j) == j # NoJournal /\ journal[j].status \in {"approved", "posted"}
Posted(j) == j # NoJournal /\ journal[j].status = "posted"

KeepAssets == UNCHANGED <<asset, depreciation>>
KeepEdits == UNCHANGED <<copy, copies, loose>>

\* A paper is created with or without a journal: a claim in anybody's name, a
\* payroll in the name of who creates it.
CreatePaper(d, who, j) ==
  /\ paper[d] = NoPaper /\ d \notin loose
  /\ d \in Invoices <=> who = Nobody
  /\ paper' = [paper EXCEPT ![d] = [status |-> "draft", journal |-> j,
                                    maker |-> who, checker |-> Nobody]]
  /\ KeepAssets /\ KeepEdits

\* The transitions each kind of paper knows.
ExpenseMoves ==
  {<<"draft", "submitted">>, <<"submitted", "approved">>, <<"submitted", "rejected">>,
   <<"approved", "posted">>, <<"posted", "paid">>}
PayrollMoves == {<<"calculated", "approved">>, <<"approved", "posted">>, <<"posted", "paid">>}
InvoiceMoves ==
  {<<"draft", "verified">>, <<"draft", "void">>, <<"verified", "posted">>, <<"verified", "void">>}

\* Who may check a paper.
Separate(d, actor) == actor # paper[d].maker

Transition(d, moves, target, actor) ==
  /\ paper[d] # NoPaper /\ <<paper[d].status, target>> \in moves
  /\ target \in {"approved", "rejected"} => Separate(d, actor)
  /\ target \in {"posted", "paid"} => Posted(paper[d].journal)
  /\ paper' = [paper EXCEPT ![d].status = target,
                            ![d].checker = IF target \in {"approved", "rejected", "verified"}
                                           THEN actor ELSE @]
  /\ KeepAssets /\ KeepEdits

TransitionExpense(d, target, actor) == d \in Claims /\ Transition(d, ExpenseMoves, target, actor)
TransitionPayroll(d, target, actor) == d \in Payrolls /\ Transition(d, PayrollMoves, target, actor)
TransitionInvoice(d, target, actor) == d \in Invoices /\ Transition(d, InvoiceMoves, target, actor)

\* calculate_payroll; the totals follow from the lines, which no request changes.
Calculate(d, actor) ==
  /\ d \in Payrolls /\ paper[d] # NoPaper /\ paper[d].status = "draft"
  /\ paper' = [paper EXCEPT ![d].status = "calculated", ![d].maker = actor]
  /\ KeepAssets /\ KeepEdits
-----------------------------------------------------------------------------
\* activate_asset, dispose_asset.
MoveAsset(a, from, to) ==
  /\ asset[a] # NoPaper /\ asset[a].status \in from
  /\ asset' = [asset EXCEPT ![a].status = to]
  /\ UNCHANGED <<paper, depreciation>> /\ KeepEdits

Activate(a) == MoveAsset(a, {"draft"}, "active")
Dispose(a) == MoveAsset(a, {"active", "fully_depreciated"}, "disposed")

\* What is left to write off.
Depreciable(a) == asset[a].value - asset[a].accumulated

\* depreciate_asset: once per asset and period (a unique constraint).
Depreciate(a, p, amount, j) ==
  /\ asset[a] # NoPaper /\ asset[a].status = "active" /\ amount <= Depreciable(a)
  /\ Posted(j) /\ journal[j].period = p
  /\ ~\E e \in depreciation : e.asset = a /\ e.period = p
  /\ depreciation' = depreciation \cup {[asset |-> a, period |-> p, amount |-> amount, journal |-> j]}
  /\ asset' = [asset EXCEPT ![a].accumulated = @ + amount,
                            ![a].status = IF asset[a].accumulated + amount = asset[a].value
                                          THEN "fully_depreciated" ELSE @]
  /\ UNCHANGED paper /\ KeepEdits
-----------------------------------------------------------------------------
Row(d) == IF d \in Assets THEN asset[d] ELSE paper[d]

OpenCopy(d) ==
  /\ copies < MaxPaperForms /\ copy[d] = NoPaper /\ Row(d) # NoPaper
  /\ copy' = [copy EXCEPT ![d] = Row(d)] /\ copies' = copies + 1
  /\ UNCHANGED <<paper, loose>> /\ KeepAssets

\* A save that changes nothing of a paper somebody checked, nor the journal of
\* one that is booked, and finds the row it read.
Harmless(d, row) ==
  /\ paper[d] = copy[d]
  /\ row.checker # Nobody => row.maker = copy[d].maker
  /\ row.status \in {"posted", "paid"} => row.journal = copy[d].journal

\* The client may name another journal, and another claimant.
SaveCopy(d, j, who) ==
  LET row == [copy[d] EXCEPT !.journal = j, !.maker = IF d \in Claims THEN who ELSE @] IN
  /\ copy[d] # NoPaper
  /\ paper' = [paper EXCEPT ![d] = row]
  /\ copy' = [copy EXCEPT ![d] = NoPaper]
  /\ loose' = IF Harmless(d, row) THEN loose ELSE loose \cup {d}
  /\ UNCHANGED copies /\ KeepAssets

\* Or another value of an asset.
SaveAsset(a, value) ==
  /\ copy[a] # NoPaper
  /\ asset' = [asset EXCEPT ![a] = [copy[a] EXCEPT !.value = value]]
  /\ copy' = [copy EXCEPT ![a] = NoPaper]
  /\ loose' = IF asset[a] = copy[a] /\ (asset[a].status = "draft" \/ value = asset[a].value)
              THEN loose ELSE loose \cup {a}
  /\ UNCHANGED <<paper, depreciation, copies>>

\* A payroll's lines protect it, and an asset's depreciations protect it.
Delete(d) ==
  /\ d \notin Payrolls /\ Row(d) # NoPaper /\ \A e \in depreciation : e.asset # d
  /\ IF d \in Assets THEN asset' = [asset EXCEPT ![d] = NoPaper] /\ UNCHANGED paper
                     ELSE paper' = [paper EXCEPT ![d] = NoPaper] /\ UNCHANGED asset
  /\ loose' = loose \cup {d}
  /\ UNCHANGED <<depreciation, copy, copies>>

Targets == {"submitted", "approved", "rejected", "verified", "posted", "paid", "void"}

PaperNext(d) ==
  \/ \E who \in People \cup {Nobody}, j \in KnownJournals \cup {NoJournal} : CreatePaper(d, who, j)
  \/ \E target \in Targets, actor \in People :
       \/ TransitionExpense(d, target, actor) \/ TransitionPayroll(d, target, actor)
       \/ TransitionInvoice(d, target, actor)
  \/ \E actor \in People : Calculate(d, actor)
  \/ \E j \in KnownJournals \cup {NoJournal}, who \in People : SaveCopy(d, j, who)
  \/ OpenCopy(d) \/ Delete(d)

AssetNext(a) ==
  \/ Activate(a) \/ Dispose(a) \/ OpenCopy(a) \/ Delete(a)
  \/ \E p \in Periods, amount \in Depreciations, j \in KnownJournals : Depreciate(a, p, amount, j)
  \/ \E value \in Values : SaveAsset(a, value)

\* The papers beside a ledger that goes on.
PapersNext ==
  \/ /\ \/ \E d \in Papers : PaperNext(d)
        \/ \E a \in Assets : AssetNext(a)
     /\ UNCHANGED ledgerVars
  \/ LedgerNext /\ UNCHANGED paperVars

PapersSpec == LedgerInit /\ PaperInit /\ [][PapersNext]_<<ledgerVars, paperVars>>
-----------------------------------------------------------------------------
PaperRow(statuses, makers) ==
  [status : statuses, journal : Journals \cup {NoJournal}, maker : makers,
   checker : People \cup {Nobody}]
ClaimRow == PaperRow({"draft", "submitted", "approved", "rejected", "posted", "paid"}, People)
PayrollRow == PaperRow({"draft", "calculated", "approved", "posted", "paid"}, People)
InvoiceRow == PaperRow({"draft", "verified", "posted", "void"}, {Nobody})
AssetRow ==
  [status : {"draft", "active", "fully_depreciated", "disposed"}, value : Nat \ {0},
   accumulated : Nat]
DepreciationRow == [asset : Assets, period : Periods, amount : Nat \ {0}, journal : Journals]

RowsFor(d) ==
  IF d \in Claims THEN ClaimRow ELSE IF d \in Payrolls THEN PayrollRow ELSE InvoiceRow

PaperTypeOK ==
  /\ \A d \in Papers : paper[d] \in RowsFor(d) \cup {NoPaper}
  /\ asset \in [Assets -> AssetRow \cup {NoPaper}] /\ depreciation \subseteq DepreciationRow
  /\ copies \in 0..MaxPaperForms /\ loose \subseteq Papers \cup Assets

InBooks(j) == j # NoJournal /\ Booked(j)

\* What was entered or paid stands on a booked journal and was checked by
\* another than its maker, whatever happens to the journal; an asset is written off by its
\* entries, each booked in its period, and never by more than its value - but for
\* papers an edit put back or moved afterwards.
PapersAreBacked ==
  /\ PaperTypeOK
  /\ \A d \in Papers \ loose : paper[d] # NoPaper =>
       /\ paper[d].status \in {"posted", "paid"} => InBooks(paper[d].journal)
       /\ paper[d].checker # Nobody => paper[d].checker # paper[d].maker
       /\ paper[d].status \in {"approved", "posted", "paid"} => paper[d].checker # Nobody
  /\ \A e \in depreciation : InBooks(e.journal) /\ journal[e.journal].period = e.period
  /\ \A a \in Assets \ loose :
       LET off == SumOver([e \in depreciation |-> e.amount], {e \in depreciation : e.asset = a}) IN
       /\ asset[a].accumulated = off /\ off <= asset[a].value
       /\ asset[a].status = "active" => off < asset[a].value
       /\ asset[a].status = "fully_depreciated" => off = asset[a].value
=============================================================================
