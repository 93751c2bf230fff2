----------------------------- MODULE LedgerBook -----------------------------
(***************************************************************************)
(* The operational ledger of an outlet: entries that are only ever         *)
(* appended, the reversals that undo them, and the closings that compare   *)
(* what the orders say with what the ledger says, type by type.            *)
(*                                                                         *)
(* Everything that moves money books it in the transaction that moves the  *)
(* shipment, so an order and its entries appear together.  The exception   *)
(* is the webhook: it cancels a shipment and books nothing, until a pull   *)
(* or a deletion finds it cancelled.                                       *)
(*                                                                         *)
(* A manual correction takes an advisory lock of its target, a closing the *)
(* row of the outlet; neither keeps an order or a cancellation waiting.    *)
(* Insurance is booked like shipping and left out, and so are the entry    *)
(* types that nothing books any more.  A closing writes one run and one    *)
(* memo entry for each type at once: here one record.                      *)
(***************************************************************************)
EXTENDS Integers, Sequences, FiniteSetsExt, SequencesExt

CONSTANTS
    Deals,       \* the shipments whose orders are booked
    KindOf,      \* "cod", "prepaid" (the wallet pays at once) or "unpaid" (it pays later)
    PriceOf,     \* what the order of a deal says of each entry type
    Corrections, Closings, \* requests of an admin
    CorrectionOf, \* [attempt, by, deal, type]
    ClosingOf,   \* [attempt, by, period]
    Days,        \* the last period (a bound for TLC)
    Unanswered, Denied

EntryTypes == {"COD_PRINCIPAL", "SHIPPING_COST", "COD_FEE_COST", "UPSTREAM_PAYMENT"}
Periods == 1 .. Days
Automatic == {"issuance", "recovery", "cancellation"} \* sources without an admin's attempt

ASSUME LedgerAssumption ==
    /\ Days \in Nat \ {0}
    /\ KindOf \in [Deals -> {"cod", "prepaid", "unpaid"}]
    /\ PriceOf \in [Deals -> [EntryTypes -> Nat]]
    /\ \A c \in Corrections :
          /\ CorrectionOf[c].deal \in Deals /\ CorrectionOf[c].type \in EntryTypes
          /\ CorrectionOf[c].attempt \notin Automatic
    /\ \A c \in Closings : ClosingOf[c].period \in Periods
    /\ IsFiniteSet(Deals) /\ Corrections \cap Closings = {}

VARIABLES
    today,   \* the period the clock is in
    deal,    \* the shipment: where it is, and resolved_at of its ISSUED order (0 without one)
    heard,   \* cancelled deals: "pending" while only the webhook has said so, else "settled"
    ledger,  \* ledger_entries, in the order of their inserts
    runs,    \* reconciliation_runs with their entries
    turn,    \* each request: where it is,
    dated,   \*   the effective_at it was called with,
    figures, \*   the totals it captured,
    shown    \*   what it was answered

ledgerVars == <<today, deal, heard, ledger, runs, turn, dated, figures, shown>>

LedgerEntries ==
    [deal : Deals, type : EntryTypes, at : Periods, amount : Int, adjustment : BOOLEAN,
     source : Automatic \cup {CorrectionOf[c].attempt : c \in Corrections},
     by : {CorrectionOf[c].by : c \in Corrections} \cup {"outlet"}]
Totals == [EntryTypes -> [source : Nat, ledger : Int]]
Runs == [attempt : {ClosingOf[c].attempt : c \in Closings}, by : {ClosingOf[c].by : c \in Closings},
         period : Periods, totals : Totals]

LedgerTypeOK ==
    /\ today \in Periods
    /\ deal \in [Deals -> [status : {"none", "awaiting", "issued", "cancelled"},
                           at : Periods \cup {0}]]
    /\ heard \in [Deals -> {"no", "pending", "settled"}]
    /\ ledger \in Seq(LedgerEntries)
    /\ runs \subseteq Runs
    /\ turn \in [Corrections \cup Closings -> {"idle", "waiting", "locked", "done"}]
    /\ dated \in [Corrections -> Periods \cup {0}]
    /\ figures \in [Closings -> Totals \cup {Unanswered}]
    /\ DOMAIN shown = Corrections \cup Closings
    /\ \A c \in Corrections : shown[c] \in LedgerEntries \cup {Denied, Unanswered}
    /\ \A c \in Closings : shown[c] \in Runs \cup {Denied, Unanswered}

LedgerInit ==
    /\ today = 1
    /\ deal = [d \in Deals |-> [status |-> "none", at |-> 0]]
    /\ heard = [d \in Deals |-> "no"]
    /\ ledger = <<>>
    /\ runs = {}
    /\ turn = [c \in Corrections \cup Closings |-> "idle"]
    /\ dated = [c \in Corrections |-> 0]
    /\ figures = [c \in Closings |-> Unanswered]
    /\ shown = [c \in Corrections \cup Closings |-> Unanswered]

-----------------------------------------------------------------------------
(* Booking *)

adminVars == <<runs, turn, dated, figures, shown>>

LinesOf(kind) ==
    CASE kind = "cod" -> {"COD_PRINCIPAL", "SHIPPING_COST", "COD_FEE_COST"}
      [] kind = "prepaid" -> {"SHIPPING_COST"}
      [] kind = "unpaid" -> {"SHIPPING_COST", "UPSTREAM_PAYMENT"}

Booking(d, t, source) ==
    [deal |-> d, type |-> t, at |-> today, amount |-> PriceOf[d][t], adjustment |-> FALSE,
     source |-> source, by |-> "outlet"]
Reversal(e, at, source, by) ==
    [deal |-> e.deal, type |-> e.type, at |-> at, amount |-> -e.amount, adjustment |-> TRUE,
     source |-> source, by |-> by]

AppendEntries(es) == ledger' = ledger \o SetToSeq(es)
Book(d, source) == AppendEntries({Booking(d, t, source) : t \in LinesOf(KindOf[d])})

\* The unique key of the entries: one adjustment for each original.
Adjusted(d, t) ==
    \E i \in DOMAIN ledger : ledger[i].adjustment /\ ledger[i].deal = d /\ ledger[i].type = t
Original(d, t) ==
    {ledger[i] : i \in {j \in DOMAIN ledger :
        ~ledger[j].adjustment /\ ledger[j].deal = d /\ ledger[j].type = t}}

\* The order of a COD or prepaid shipment comes back paid and is booked.
Issue(d) ==
    /\ deal[d].status = "none" /\ KindOf[d] # "unpaid"
    /\ deal' = [deal EXCEPT ![d] = [status |-> "issued", at |-> today]]
    /\ Book(d, "issuance")
    /\ UNCHANGED <<today, heard, adminVars>>

AwaitPayment(d) ==
    /\ deal[d].status = "none" /\ KindOf[d] = "unpaid"
    /\ deal' = [deal EXCEPT ![d].status = "awaiting"]
    /\ UNCHANGED <<today, heard, ledger, adminVars>>

\* The unpaid order is paid after all: resolved_at becomes the time of completion.
CompleteRecovery(d) ==
    /\ deal[d].status = "awaiting"
    /\ deal' = [deal EXCEPT ![d] = [status |-> "issued", at |-> today]]
    /\ Book(d, "recovery")
    /\ UNCHANGED <<today, heard, adminVars>>

-----------------------------------------------------------------------------
(* Cancelling *)

CancellationReversed == {"COD_PRINCIPAL", "SHIPPING_COST", "COD_FEE_COST"}

\* Mutant of ReversedOnCancel: what is reversed already is reversed again.
ReversedAgain(d) ==
    IF KindOf[d] # "cod" THEN {} ELSE UNION {Original(d, t) : t \in CancellationReversed}

ReversedOnCancel(d) ==
    IF KindOf[d] # "cod" THEN {}
    ELSE UNION {Original(d, t) : t \in {u \in CancellationReversed : ~Adjusted(d, u)}}

\* Mutant of ReverseCancelled: the reversal is dated like any other.
ReverseToday(d) ==
    AppendEntries({Reversal(e, today, "cancellation", "outlet") : e \in ReversedOnCancel(d)})

\* The reversal bears the period of its original.
ReverseCancelled(d) ==
    AppendEntries({Reversal(e, e.at, "cancellation", "outlet") : e \in ReversedOnCancel(d)})

\* A deletion Mengantar confirmed, or a pull, cancels the shipment or finds it cancelled.
CancelDeal(d) ==
    /\ deal[d].status \in {"awaiting", "issued", "cancelled"}
    /\ deal' = [deal EXCEPT ![d].status = "cancelled"]
    /\ heard' = [heard EXCEPT ![d] = IF @ = "pending" THEN "settled" ELSE @]
    /\ ReverseCancelled(d)
    /\ UNCHANGED <<today, adminVars>>

\* The webhook hears of it first: it knows a shipment by its resi.
WebhookCancels(d) ==
    /\ deal[d].status = "issued"
    /\ deal' = [deal EXCEPT ![d].status = "cancelled"]
    /\ heard' = [heard EXCEPT ![d] = "pending"]
    /\ UNCHANGED <<today, ledger, adminVars>>

NextPeriod ==
    /\ today < Days /\ today' = today + 1
    /\ UNCHANGED <<deal, heard, ledger, adminVars>>

-----------------------------------------------------------------------------
(* Correcting: an admin reverses an entry by hand *)

correctionVars == <<today, deal, heard, runs, figures>>

EndWith(c, answer) ==
    /\ turn' = [turn EXCEPT ![c] = "done"]
    /\ shown' = [shown EXCEPT ![c] = answer]

\* The entry that bears the attempt of c as its id, if any; another request's is refused.
ByAttempt(c) ==
    {e \in Range(ledger) : e.adjustment /\ e.source = CorrectionOf[c].attempt}
AdjustmentReplay(c) ==
    LET r == CorrectionOf[c]
        same(e) == e.deal = r.deal /\ e.type = r.type /\ e.by = r.by
    IN IF \E e \in ByAttempt(c) : same(e) THEN CHOOSE e \in ByAttempt(c) : same(e) ELSE Denied

\* The ledger page names an entry; the correction is dated when it is called.
BeginCorrection(c) ==
    LET r == CorrectionOf[c]
    IN /\ turn[c] = "idle" /\ Original(r.deal, r.type) # {}
       /\ IF ByAttempt(c) # {}
          THEN EndWith(c, AdjustmentReplay(c)) /\ UNCHANGED dated
          ELSE /\ turn' = [turn EXCEPT ![c] = "waiting"]
               /\ dated' = [dated EXCEPT ![c] = today]
               /\ UNCHANGED shown
       /\ UNCHANGED <<correctionVars, ledger>>

TargetFree(c) ==
    \A x \in Corrections : turn[x] = "locked" =>
        CorrectionOf[x].deal # CorrectionOf[c].deal \/ CorrectionOf[x].type # CorrectionOf[c].type

\* Under the advisory lock: answered meanwhile, reversed meanwhile, or free.
LockCorrection(c) ==
    LET r == CorrectionOf[c]
    IN /\ turn[c] = "waiting" /\ TargetFree(c)
       /\ IF ByAttempt(c) # {} THEN EndWith(c, AdjustmentReplay(c))
          ELSE IF Adjusted(r.deal, r.type) THEN EndWith(c, Denied)
          ELSE turn' = [turn EXCEPT ![c] = "locked"] /\ UNCHANGED shown
       /\ UNCHANGED <<correctionVars, ledger, dated>>

\* Mutant of Insertable: no unique key; the check under the lock has to do.
CheckedOnce(c) == TRUE

\* A cancellation does not take the lock: it may have reversed the entry since.
Insertable(c) == ByAttempt(c) = {} /\ ~Adjusted(CorrectionOf[c].deal, CorrectionOf[c].type)

InsertCorrection(c) ==
    LET r == CorrectionOf[c]
        entry == Reversal(CHOOSE e \in Original(r.deal, r.type) : TRUE, dated[c], r.attempt, r.by)
    IN /\ turn[c] = "locked"
       /\ IF Insertable(c)
          THEN AppendEntries({entry}) /\ EndWith(c, entry)
          ELSE EndWith(c, AdjustmentReplay(c)) /\ UNCHANGED ledger
       /\ UNCHANGED <<correctionVars, dated>>

-----------------------------------------------------------------------------
(* Closing a period *)

closingVars == <<today, deal, heard, ledger, dated>>

EntryAmounts(entries) == [i \in DOMAIN entries |-> entries[i].amount]

\* Mutant of Owed: a cancelled order still counts.
OwedAlthoughCancelled(d, p, t) == deal[d].at = p /\ t \in LinesOf(KindOf[d])

\* An order counts in the period it was issued in; a cancelled COD order in none.
Owed(d, p, t) ==
    /\ deal[d].at = p /\ t \in LinesOf(KindOf[d])
    /\ ~(KindOf[d] = "cod" /\ deal[d].status = "cancelled")

Prices(t) == [d \in Deals |-> PriceOf[d][t]]
SourceTotal(p, t) == SumFunctionOnSet(Prices(t), {d \in Deals : Owed(d, p, t)})
LedgerTotal(p, t) ==
    SumFunctionOnSet(EntryAmounts(ledger),
                     {i \in DOMAIN ledger : ledger[i].at = p /\ ledger[i].type = t})

Capture(p) == [t \in EntryTypes |-> [source |-> SourceTotal(p, t), ledger |-> LedgerTotal(p, t)]]

RunsOf(c) == {r \in runs : r.attempt = ClosingOf[c].attempt}
ClosingReplay(c) ==
    LET r == CHOOSE x \in RunsOf(c) : TRUE
    IN IF r.by = ClosingOf[c].by /\ r.period = ClosingOf[c].period THEN r ELSE Denied

BeginClosing(c) ==
    /\ turn[c] = "idle"
    /\ IF RunsOf(c) # {} THEN EndWith(c, ClosingReplay(c))
       ELSE turn' = [turn EXCEPT ![c] = "waiting"] /\ UNCHANGED shown
    /\ UNCHANGED <<closingVars, runs, figures>>

\* Mutant of AnsweredMeanwhile: under the lock nobody asks again.
NotAskedAgain(c) == FALSE

AnsweredMeanwhile(c) == RunsOf(c) # {}

\* Under the lock of the outlet, one statement captures both sides.
LockAndCapture(c) ==
    /\ turn[c] = "waiting" /\ \A x \in Closings : turn[x] # "locked"
    /\ IF AnsweredMeanwhile(c) THEN EndWith(c, ClosingReplay(c)) /\ UNCHANGED figures
       ELSE /\ turn' = [turn EXCEPT ![c] = "locked"]
            /\ figures' = [figures EXCEPT ![c] = Capture(ClosingOf[c].period)]
            /\ UNCHANGED shown
    /\ UNCHANGED <<closingVars, runs>>

\* Mutant of Recorded: the ledger side is summed when the run is inserted.
RecordedLate(c) ==
    [t \in EntryTypes |-> [source |-> figures[c][t].source,
                           ledger |-> LedgerTotal(ClosingOf[c].period, t)]]

Recorded(c) == figures[c]

RecordClosing(c) ==
    LET run == [attempt |-> ClosingOf[c].attempt, by |-> ClosingOf[c].by,
                period |-> ClosingOf[c].period, totals |-> Recorded(c)]
    IN /\ turn[c] = "locked"
       /\ runs' = runs \cup {run}
       /\ EndWith(c, run)
       /\ UNCHANGED <<closingVars, figures>>

LedgerNext ==
    \/ \E d \in Deals : \/ Issue(d) \/ AwaitPayment(d) \/ CompleteRecovery(d)
                        \/ CancelDeal(d) \/ WebhookCancels(d)
    \/ NextPeriod
    \/ \E c \in Corrections : BeginCorrection(c) \/ LockCorrection(c) \/ InsertCorrection(c)
    \/ \E c \in Closings : BeginClosing(c) \/ LockAndCapture(c) \/ RecordClosing(c)

LedgerSpec == LedgerInit /\ [][LedgerNext]_ledgerVars

-----------------------------------------------------------------------------
\* An admin has corrected an entry of the period, or into the period.
Corrected(p) ==
    \E i, j \in DOMAIN ledger :
        /\ ledger[i].adjustment /\ ledger[i].source \notin Automatic
        /\ ~ledger[j].adjustment
        /\ ledger[j].deal = ledger[i].deal /\ ledger[j].type = ledger[i].type
        /\ p \in {ledger[i].at, ledger[j].at}

\* What the ledger says of a period is what its orders say, for every type and at
\* any time, unless an admin corrected it by hand or the webhook is alone in
\* knowing of a cancellation.
UntouchedBalances ==
    \A p \in Periods :
        ~Corrected(p) /\ (\A d \in Deals : deal[d].at = p => heard[d] # "pending")
            => \A t \in EntryTypes : Capture(p)[t].source = Capture(p)[t].ledger

\* A variance a closing recorded has one of these two causes, whatever was
\* booked or cancelled while it ran.
Explained(totals, p) ==
    (\E t \in EntryTypes : totals[t].source # totals[t].ledger)
        => Corrected(p) \/ \E d \in Deals : heard[d] # "no" /\ deal[d].at = p
VarianceExplained == \A r \in runs : Explained(r.totals, r.period)

\* An entry is reversed once at most, by a correction or a cancellation, and what
\* is left of a cancelled COD shipment is nothing.
NothingTwice ==
    \A i, j \in DOMAIN ledger :
        /\ ledger[i].deal = ledger[j].deal /\ ledger[i].type = ledger[j].type
        /\ ledger[i].adjustment = ledger[j].adjustment
        => i = j
ReversedOnce ==
    /\ NothingTwice
    /\ \A d \in Deals : deal[d].status = "cancelled" /\ KindOf[d] = "cod" /\ heard[d] # "pending" =>
          \A t \in EntryTypes :
              SumFunctionOnSet(EntryAmounts(ledger),
                  {i \in DOMAIN ledger : ledger[i].deal = d /\ ledger[i].type = t}) = 0

\* An attempt closes one period once: whoever repeats it is told the same figures.
AttemptClosesOnce ==
    /\ \A r, s \in runs : r.attempt = s.attempt => r = s
    /\ \A x, y \in Closings :
          /\ ClosingOf[x].attempt = ClosingOf[y].attempt
          /\ {shown[x], shown[y]} \cap {Denied, Unanswered} = {}
          => shown[x] = shown[y]

\* The books balance: periods, recorded variances, reversals and repeated attempts.
BooksBalance == UntouchedBalances /\ VarianceExplained /\ ReversedOnce /\ AttemptClosesOnce

-----------------------------------------------------------------------------
(* What makes these properties inductive *)

\* When a deal has an order, and how it may come to be cancelled.
DealsFit ==
    \A d \in Deals :
        /\ deal[d].status \in {"none", "awaiting"} => deal[d].at = 0
        /\ deal[d].status = "awaiting" => KindOf[d] = "unpaid"
        /\ deal[d].status = "issued" => deal[d].at # 0
        /\ deal[d].status # "cancelled" => heard[d] = "no"
        /\ deal[d].status = "cancelled" /\ deal[d].at = 0 =>
              KindOf[d] = "unpaid" /\ heard[d] = "no"

\* What an entry says is what its order said, and a cancellation reverses in the
\* period of the order.
EntriesFit ==
    \A i \in DOMAIN ledger :
        LET e == ledger[i]
        IN /\ deal[e.deal].at # 0 /\ e.type \in LinesOf(KindOf[e.deal])
           /\ e.amount = IF e.adjustment THEN -PriceOf[e.deal][e.type]
                         ELSE PriceOf[e.deal][e.type]
           /\ ~e.adjustment => e.at = deal[e.deal].at
           /\ e.adjustment /\ e.source \in Automatic =>
                 /\ e.at = deal[e.deal].at
                 /\ deal[e.deal].status = "cancelled" /\ KindOf[e.deal] = "cod"

\* An order is booked whole, and its reversals are complete once the cancellation is settled.
OrdersBooked ==
    \A d \in Deals : deal[d].at # 0 => \A t \in LinesOf(KindOf[d]) : Original(d, t) # {}
CancelledReversed ==
    \A d \in Deals : deal[d].status = "cancelled" /\ KindOf[d] = "cod" /\ heard[d] # "pending" =>
        \A t \in CancellationReversed : Adjusted(d, t)

\* What is left in a period of the entries of a deal.
AdjustedIn(d, p, t) ==
    \E i \in DOMAIN ledger : /\ ledger[i].adjustment /\ ledger[i].at = p
                             /\ ledger[i].deal = d /\ ledger[i].type = t
Net(d, p, t) ==
    (IF deal[d].at = p /\ t \in LinesOf(KindOf[d]) THEN PriceOf[d][t] ELSE 0)
        - (IF AdjustedIn(d, p, t) THEN PriceOf[d][t] ELSE 0)
Nets(p, t) == [d \in Deals |-> Net(d, p, t)]
TotalsAreNet ==
    \A p \in Periods, t \in EntryTypes : LedgerTotal(p, t) = SumFunctionOnSet(Nets(p, t), Deals)

CorrectionsFit ==
    \A c \in Corrections : turn[c] \in {"waiting", "locked"} =>
        dated[c] \in Periods /\ Original(CorrectionOf[c].deal, CorrectionOf[c].type) # {}

\* Under the lock of the outlet there is one closing, with figures that are explained.
ClosingsFit ==
    /\ \A x, y \in Closings : turn[x] = "locked" /\ turn[y] = "locked" => x = y
    /\ \A c \in Closings :
          /\ turn[c] = "locked" => /\ RunsOf(c) = {} /\ figures[c] \in Totals
                                   /\ Explained(figures[c], ClosingOf[c].period)
          /\ shown[c] \notin {Denied, Unanswered} => shown[c] \in RunsOf(c)
    /\ \A r, s \in runs : r.attempt = s.attempt => r = s

LedgerInv ==
    /\ DealsFit /\ EntriesFit /\ OrdersBooked /\ CancelledReversed /\ TotalsAreNet
    /\ CorrectionsFit /\ ClosingsFit /\ NothingTwice /\ VarianceExplained
=============================================================================
