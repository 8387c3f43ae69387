---------------------------- MODULE GeneralLedger ----------------------------
(***************************************************************************)
(* Journals and fiscal periods of one ledger: finance/services.py, with    *)
(* the creation and editing of journals and periods in finance/api.py.     *)
(*                                                                         *)
(* The services lock the journal and its period, so each is one action.    *)
(* An edit is not: the request loads a row, and later saves every column   *)
(* of its copy, the status too.  What stands in its way is the save method *)
(* of JournalEntry and the trigger on posted rows.                         *)
(***************************************************************************)
EXTENDS Totals, FiniteSets

CONSTANTS
  Journals,      \* vouchers
  Periods,       \* fiscal periods; a date is named by the period it falls in
  Accounts,
  Usable,        \* accounts that accept postings
  Entries,       \* the lines clients send: the net debit of each account
  Bookkeepers,   \* users with an edit form open
  NoJournal,
  MaxEntryEdits  \* bound: edits that are begun

ASSUME LedgerAssumption ==
  /\ Usable \subseteq Accounts /\ IsFiniteSet(Accounts)
  /\ Entries \subseteq [Accounts -> Int]
  /\ NoJournal \notin Journals
  /\ MaxEntryEdits \in Nat

VARIABLES
  period,        \* fin_fiscal_period: the status of each
  journal,       \* fin_journal_entry with its lines
  entryForm,     \* the row a bookkeeper's edit has loaded
  entryEdits

ledgerVars == <<period, journal, entryForm, entryEdits>>

PeriodStatuses == {"open", "closed", "reopened"}
NoEntry == [status |-> "absent"]
NoEntryForm == [of |-> "nothing"]

Booked(j) == journal[j].status \in {"posted", "reversed"}

Negated(lines) == [a \in Accounts |-> -lines[a]]

LedgerInit ==
  /\ period = [p \in Periods |-> "open"]
  /\ journal = [j \in Journals |-> NoEntry]
  /\ entryForm = [c \in Bookkeepers |-> NoEntryForm]
  /\ entryEdits = 0

\* JournalSerializer.create, in any period of the ledger.
Create(j, p, date, lines) ==
  /\ journal[j] = NoEntry
  /\ journal' = [journal EXCEPT ![j] = [status |-> "draft", period |-> p, date |-> date,
                                        lines |-> lines, reverses |-> NoJournal]]
  /\ UNCHANGED <<period, entryForm, entryEdits>>

\* approve_journal.
Approve(j) ==
  /\ journal[j].status = "draft"
  /\ journal' = [journal EXCEPT ![j].status = "approved"]
  /\ UNCHANGED <<period, entryForm, entryEdits>>

\* The checks of post_journal on the period, the date and the lines; the fault
\* leaves out the first.
Accepts_Closed(p) == TRUE
Accepts(p) == period[p] \in {"open", "reopened"}

Dated(row) == row.date = row.period

Balanced(lines) ==
  /\ \E a \in Accounts : lines[a] # 0
  /\ SumOver(lines, Accounts) = 0

Postable(row) ==
  /\ Accepts(row.period) /\ Dated(row)
  /\ \A a \in Accounts \ Usable : row.lines[a] = 0
  /\ Balanced(row.lines)

\* post_journal.
Post(j) ==
  /\ journal[j].status = "approved"
  /\ Postable(journal[j])
  /\ journal' = [journal EXCEPT ![j].status = "posted"]
  /\ UNCHANGED <<period, entryForm, entryEdits>>

\* What a reversal leaves of the original; the fault leaves it as it was.
OriginalAfter_Kept(j) == journal[j]
OriginalAfter(j) == [journal[j] EXCEPT !.status = "reversed"]

\* reverse_journal: the reversal k is created approved and posted at once.
Reverse(j, k, p, date) ==
  LET row == [status |-> "approved", period |-> p, date |-> date,
              lines |-> Negated(journal[j].lines), reverses |-> j] IN
  /\ journal[j].status = "posted"
  /\ journal[k] = NoEntry
  /\ Postable(row)
  /\ journal' = [journal EXCEPT ![k] = [row EXCEPT !.status = "posted"], ![j] = OriginalAfter(j)]
  /\ UNCHANGED <<period, entryForm, entryEdits>>

\* close_period, once everything in the period is booked.
Close(p) ==
  /\ period[p] # "closed"
  /\ \A j \in Journals : journal[j] # NoEntry /\ journal[j].period = p => Booked(j)
  /\ period' = [period EXCEPT ![p] = "closed"]
  /\ UNCHANGED <<journal, entryForm, entryEdits>>

\* reopen_period, with an approval reference.
Reopen(p) ==
  /\ period[p] = "closed"
  /\ period' = [period EXCEPT ![p] = "reopened"]
  /\ UNCHANGED <<journal, entryForm, entryEdits>>
-----------------------------------------------------------------------------
\* An edit request loads the row it will save (get_object, outside the
\* transaction of perform_update).
LoadEntry(c, f) ==
  /\ entryForm[c] = NoEntryForm /\ entryEdits < MaxEntryEdits
  /\ entryForm' = [entryForm EXCEPT ![c] = f]
  /\ entryEdits' = entryEdits + 1
  /\ UNCHANGED <<period, journal>>

LoadPeriod(c, p) == LoadEntry(c, [of |-> "period", id |-> p, copy |-> period[p]])
LoadJournal(c, j) ==
  /\ journal[j] # NoEntry
  /\ LoadEntry(c, [of |-> "journal", id |-> j, copy |-> journal[j]])

\* PeriodSerializer lets the client set the status; without one, the copy's is
\* written.
SavePeriod(c, s) ==
  /\ entryForm[c].of = "period"
  /\ period' = [period EXCEPT ![entryForm[c].id] = s]
  /\ entryForm' = [entryForm EXCEPT ![c] = NoEntryForm]
  /\ UNCHANGED <<journal, entryEdits>>

\* JournalEntry.save and the trigger refuse a row that is booked by now; the
\* fault looks at the copy.
Editable_Copy(c) == entryForm[c].copy.status \in {"draft", "approved"}
Editable(c) == ~Booked(entryForm[c].id)

\* JournalSerializer.update writes the copy, with another period or date.
SaveJournal(c, p, date) ==
  /\ entryForm[c].of = "journal"
  /\ Editable(c)
  /\ journal' = [journal EXCEPT ![entryForm[c].id] =
                   [entryForm[c].copy EXCEPT !.period = p, !.date = date]]
  /\ entryForm' = [entryForm EXCEPT ![c] = NoEntryForm]
  /\ UNCHANGED <<period, entryEdits>>

\* A refused save.
Refused(c) ==
  /\ entryForm[c].of = "journal" /\ Booked(entryForm[c].id)
  /\ entryForm' = [entryForm EXCEPT ![c] = NoEntryForm]
  /\ UNCHANGED <<period, journal, entryEdits>>

LedgerNext ==
  \/ \E j \in Journals :
       \/ \E p, d \in Periods, lines \in Entries : Create(j, p, d, lines)
       \/ Approve(j) \/ Post(j)
       \/ \E k \in Journals, p, d \in Periods : Reverse(j, k, p, d)
  \/ \E p \in Periods : Close(p) \/ Reopen(p)
  \/ \E c \in Bookkeepers :
       \/ \E p \in Periods : LoadPeriod(c, p)
       \/ \E j \in Journals : LoadJournal(c, j)
       \/ \E s \in PeriodStatuses : SavePeriod(c, s)
       \/ \E p, d \in Periods : SaveJournal(c, p, d)
       \/ Refused(c)

LedgerSpec == LedgerInit /\ [][LedgerNext]_ledgerVars
-----------------------------------------------------------------------------
EntryRow == [status : {"draft", "approved", "posted", "reversed"}, period : Periods,
         date : Periods, lines : [Accounts -> Int], reverses : Journals \cup {NoJournal}]

LedgerTypeOK ==
  /\ period \in [Periods -> PeriodStatuses]
  /\ \A j \in Journals : journal[j] = NoEntry \/ journal[j] \in EntryRow
  /\ entryEdits \in 0..MaxEntryEdits

\* The trial balance of every period is zero, and what it counts is dated in it,
\* although an approved journal may be edited before it is posted.
BooksBalance ==
  \A j \in Journals : Booked(j) =>
    /\ SumOver(journal[j].lines, Accounts) = 0
    /\ journal[j].date = journal[j].period

\* A reversed journal has exactly one reversal, which is booked and takes back
\* every account, and a reversal has a reversed original: nothing is taken back
\* twice, by two requests or in two periods (reverse_journal).
ReversalsCancel ==
  \A j \in Journals :
    LET reversals == {k \in Journals : journal[k] # NoEntry /\ journal[k].reverses = j} IN
    /\ Cardinality(reversals) = IF journal[j].status = "reversed" THEN 1 ELSE 0
    /\ \A k \in reversals : Booked(k) /\ journal[k].lines = Negated(journal[j].lines)

\* The ledger is in order: every entry balances and is dated, and every reversal
\* takes back one.
LedgerIsSound == LedgerTypeOK /\ BooksBalance /\ ReversalsCancel

\* What a period shows: the booked journals in it.
Statement(p) == {<<j, journal[j].lines>> : j \in {i \in Journals : Booked(i) /\ journal[i].period = p}}

\* The statement of a period that stays closed does not move, whatever is
\* posted, reversed or edited elsewhere.
ClosedStands ==
  \A p \in Periods : period[p] = "closed" /\ period'[p] = "closed" => Statement(p)' = Statement(p)

\* A booked journal is final: only its reversal marks it.
BookedStands ==
  \A j \in Journals : Booked(j) =>
    /\ Booked(j)'
    /\ [journal'[j] EXCEPT !.status = "posted"] = [journal[j] EXCEPT !.status = "posted"]
    /\ journal[j].status = "reversed" => journal'[j].status = "reversed"

\* What was told stays true: closed periods, and booked journals in any.
BooksStand == [][ClosedStands /\ BookedStands]_ledgerVars
=============================================================================
