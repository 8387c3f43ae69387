----------------------------- MODULE CreditLines -----------------------------
(***************************************************************************)
(* The credit an order takes from its customer's account when it is        *)
(* confirmed and gives back when it is cancelled: sales/credit_services.py.*)
(*                                                                         *)
(* A commitment is unique per account and order, and an order fits exactly *)
(* one account (company, customer, currency), so commitments are indexed   *)
(* by order, 1..NO.  The clock that decides whether a temporary limit      *)
(* still counts is a field of the confirmation request, not the server's:  *)
(* either answer is possible at any time.                                  *)
(***************************************************************************)
EXTENDS Totals

CONSTANTS
  Accounts,      \* sal_credit_account rows
  NO,            \* bound: orders, numbered 1..NO
  MaxAmount,     \* bound: the most one order commits
  AccountOf,     \* the account of an order's company, customer and currency
  Permanent,     \* permanent_limit of an account
  Temporary,     \* temporary_limit of an account
  Receivable,    \* receivable_amount: no code of the program writes it
  Frozen         \* accounts that are not active

ASSUME CreditAssumption ==
  /\ NO \in Nat /\ MaxAmount \in Nat
  /\ AccountOf \in [1..NO -> Accounts]
  /\ Permanent \in [Accounts -> Nat] /\ Temporary \in [Accounts -> Nat]
  /\ Receivable \in [Accounts -> Nat]

VARIABLES
  committed,     \* committed_amount of each account
  commitment     \* sal_credit_commitment of each order; amount 0: none

cVars == <<committed, commitment>>

CreditOrders == 1..NO
Amounts == 1..MaxAmount

\* What a commitment still holds of the account.
Outstanding(c) == c.amount - c.released

NoCommitment == [amount |-> 0, released |-> 0, approved |-> FALSE, status |-> "none"]

\* _effective_limit: counted says whether the temporary limit is valid then.
EffectiveLimit(a, counted) == Permanent[a] + (IF counted THEN Temporary[a] ELSE 0)

CInit ==
  /\ committed = [a \in Accounts |-> 0]
  /\ commitment = [o \in CreditOrders |-> NoCommitment]

\* The exposure commit_credit compares with the limit; the fault forgets the
\* order at hand.
Exposure_Before(a, amount) == committed[a] + Receivable[a]
Exposure(a, amount) == committed[a] + Receivable[a] + amount

\* commit_credit for an order that has no commitment yet.
CommitCredit(o, amount, counted, approved) ==
  LET a == AccountOf[o] IN
  /\ commitment[o] = NoCommitment
  /\ a \notin Frozen
  /\ approved \/ Exposure(a, amount) <= EffectiveLimit(a, counted)
  /\ committed' = [committed EXCEPT ![a] = @ + amount]
  /\ commitment' = [commitment EXCEPT ![o] =
       [amount |-> amount, released |-> 0, approved |-> approved, status |-> "active"]]

\* The status of a commitment after a release.
AfterRelease(c) == [c EXCEPT !.status = IF c.released = c.amount THEN "released" ELSE @]

\* release_credit: part or all of what a commitment holds goes back.
ReleaseCredit(o, amount) ==
  LET c == commitment[o] IN
  /\ amount > 0
  /\ amount <= Outstanding(c)
  /\ commitment' = [commitment EXCEPT ![o] = AfterRelease([c EXCEPT !.released = @ + amount])]
  /\ committed' = [committed EXCEPT ![AccountOf[o]] = @ - amount]

CNext ==
  \E o \in CreditOrders, amount \in Amounts :
    \/ \E counted, approved \in BOOLEAN : CommitCredit(o, amount, counted, approved)
    \/ ReleaseCredit(o, amount)

CSpec == CInit /\ [][CNext]_cVars
-----------------------------------------------------------------------------
CTypeOK ==
  /\ committed \in [Accounts -> Int]
  /\ commitment \in [CreditOrders -> [amount : Nat, released : Nat, approved : BOOLEAN,
                                      status : {"none", "active", "released"}]]

\* A commitment never gives back more than it took, and it is active exactly
\* while it still holds something (credit_services.py, release_credit).
CommitmentsConsistent ==
  \A o \in CreditOrders :
    LET c == commitment[o] IN
    /\ Outstanding(c) >= 0
    /\ (c.status = "active") <=> (Outstanding(c) > 0)
    /\ (c.status = "none") <=> (c = NoCommitment)

Held(a) == Total([o \in CreditOrders |->
                    IF AccountOf[o] = a THEN Outstanding(commitment[o]) ELSE 0], NO)
HeldUnapproved(a) ==
  Total([o \in CreditOrders |->
           IF AccountOf[o] = a /\ ~commitment[o].approved
           THEN Outstanding(commitment[o]) ELSE 0], NO)

\* The account's counter is what the commitments of its orders still hold: two
\* tables, written together by commit_credit and by release_credit.
CommittedIsHeld == \A a \in Accounts : committed[a] = Held(a)

\* Without an approved exception the orders of a customer never hold more than
\* the largest limit the account had, whatever was approved or released between.
LimitHolds ==
  \A a \in Accounts :
    HeldUnapproved(a) > 0
      => HeldUnapproved(a) + Receivable[a] <= Permanent[a] + Temporary[a]

\* The books of the credit agree: the counter is what the orders hold, and that
\* is within the limit.
CreditIsSound == CommittedIsHeld /\ LimitHolds

\* A commitment keeps its amount and its approval, and what was given back
\* stays given back: an order cannot commit twice.
CommitmentIsFinal ==
  [][\A o \in CreditOrders :
       commitment[o].status # "none" =>
         /\ commitment'[o].amount = commitment[o].amount
         /\ commitment'[o].approved = commitment[o].approved
         /\ commitment'[o].released >= commitment[o].released]_cVars
=============================================================================
