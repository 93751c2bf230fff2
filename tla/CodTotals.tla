----------------------------- MODULE CodTotals ------------------------------
(***************************************************************************)
(* The COD amount of one shipment on its way into the order: pages offer   *)
(* it, a confirmation records it once and for all in the transaction that  *)
(* queues the order, a retry finds it there.  The shipment may be          *)
(* estimated again, at other prices, until then.                           *)
(*                                                                         *)
(* A shipment of earlier days may hold a row of version 1, whose amount is *)
(* not enough: it must not be sent any more, only read back if it was.     *)
(* An estimate has one service here; the choice among them is that of the  *)
(* estimate.  The transaction is one step: it locks the shipment.          *)
(***************************************************************************)
EXTENDS CodAmounts, Sequences

CONSTANTS
    Quotes,     \* what Mengantar may quote: [price, normal, special]
    Values,     \* what the goods may be worth
    Issuances,  \* pages from which the shipment is ordered
    MaxEstimates \* how often it is estimated (a bound for TLC)

ASSUME QuoteAssumption ==
    /\ Quotes \subseteq [price : Nat, normal : Nat \cup {NoAmount}, special : Nat \cup {NoAmount}]
    /\ Values \subseteq Nat /\ MaxEstimates \in Nat \ {0}

VARIABLES
    method,    \* the draft's payment method
    goods,     \* its declared value
    estimates, \* what it was quoted, oldest first
    total,     \* shipment_cod_totals: the amounts and the estimate they are of
    placed,    \* the order: where it is, of which estimate, the amount it collects
    legacy,    \* a version 1 amount was sent in earlier days
    page,      \* each page: the estimate it shows and the amount it offers,
    went       \*   and how its confirmation went

codVars == <<method, goods, estimates, total, placed, legacy, page, went>>

PaymentMethods == {"COD", "COD_ONGKIR", "NON_COD"}
Amounts == Nat \cup {NoAmount}
NoTotal == [of |-> 0, sums |-> NoAmount]
NoOrder == [status |-> "none", of |-> 0, cod |-> NoAmount]

\* special_price, else normal_price, else the price of the estimate.
Deducted(q) ==
    IF q.special # NoAmount THEN q.special ELSE IF q.normal # NoAmount THEN q.normal ELSE q.price

\* Mutant of AmountsFor: COD Ongkir covers the price of the quote, not what is deducted.
AmountsAtPrice(n) ==
    LET q == estimates[n]
    IN CASE method = "COD" -> CodAmounts(goods, q.price)
         [] method = "COD_ONGKIR" -> CodOngkirAmounts(goods, q.price, q.price)
         [] OTHER -> NoAmount

\* What a confirmation of estimate n would record, and a page of it offers.
AmountsFor(n) ==
    LET q == estimates[n]
    IN CASE method = "COD" -> CodAmounts(goods, q.price)
         [] method = "COD_ONGKIR" -> CodOngkirAmounts(goods, q.price, Deducted(q))
         [] OTHER -> NoAmount

Offered(n) == IF AmountsFor(n) = NoAmount THEN NoAmount ELSE AmountsFor(n).cod

TotalOf(n, amounts) == [of |-> n, sums |-> amounts]
RecordedFor(n) == total.of = n

CodTypeOK ==
    /\ method \in PaymentMethods /\ goods \in Values \ {0}
    /\ estimates \in Seq(Quotes) /\ Len(estimates) \in 1 .. MaxEstimates
    /\ total.of \in 0 .. Len(estimates)
    /\ total # NoTotal => total.sums.version \in 1 .. 3
    /\ placed \in [status : {"none", "queued", "attempted"}, of : 0 .. Len(estimates), cod : Amounts]
    /\ legacy \in BOOLEAN
    /\ page \in [Issuances -> [of : 0 .. Len(estimates), cod : Amounts]]
    /\ went \in [Issuances -> {"open", "prepared", "sent", "refused", "retired", "unavailable"}]

\* A new shipment, or one with a row of version 1 whose order never came, is queued or was sent.
CodInit ==
    /\ method \in PaymentMethods /\ goods \in Values \ {0}
    /\ \E q \in Quotes : estimates = <<q>>
    /\ \/ total = NoTotal /\ placed = NoOrder
       \/ /\ method = "COD"
          /\ total = TotalOf(1, CodAmountsV1(goods, estimates[1].price))
          /\ \E s \in {"none", "queued", "attempted"} :
                placed = IF s = "none" THEN NoOrder
                         ELSE [status |-> s, of |-> 1, cod |-> total.sums.cod]
    /\ legacy = (placed.status = "attempted")
    /\ page = [c \in Issuances |-> [of |-> 0, cod |-> NoAmount]]
    /\ went = [c \in Issuances |-> "open"]

-----------------------------------------------------------------------------
EstimateAgain ==
    /\ placed.status = "none" /\ Len(estimates) < MaxEstimates
    /\ \E q \in Quotes : estimates' = Append(estimates, q)
    /\ UNCHANGED <<method, goods, total, placed, legacy, page, went>>

\* Mutant of FormulaRetired: an order in the queue passes for one that was sent.
RetiredUnlessOrdered == total # NoTotal /\ total.sums.version = 1 /\ placed.status = "none"

FormulaRetired == total # NoTotal /\ total.sums.version = 1 /\ placed.status # "attempted"

\* A COD service without an amount is not offered.
ShowPage(c) ==
    LET n == Len(estimates)
    IN /\ page[c].of = 0
       /\ method # "NON_COD" => Offered(n) # NoAmount
       /\ page' = [page EXCEPT ![c] = [of |-> n, cod |-> Offered(n)]]
       /\ UNCHANGED <<method, goods, estimates, total, placed, legacy, went>>

GoesOn(c, result) == went' = [went EXCEPT ![c] = result]
Turned(c, result) == GoesOn(c, result) /\ UNCHANGED <<total, placed>>

\* The row of the page's estimate is there: the amount it was confirmed with stands.
ConfirmRecorded(c, charge) ==
    /\ ~FormulaRetired /\ RecordedFor(page[c].of)
    /\ IF IF total.sums.version = 3 THEN charge \in {NoAmount, total.sums.cod} ELSE charge = NoAmount
       THEN Turned(c, "prepared")
       ELSE Turned(c, "refused")

\* An order of this estimate without a row: it collects nothing.
ConfirmOrdered(c, charge) ==
    /\ ~FormulaRetired /\ ~RecordedFor(page[c].of)
    /\ placed.of = page[c].of
    /\ Turned(c, IF charge = NoAmount THEN "prepared" ELSE "unavailable")

\* Mutant of StillOffered: the estimate of the page need not be the newest.
AnyEstimate(c) == placed.status = "none"

StillOffered(c) == placed.status = "none" /\ page[c].of = Len(estimates)

\* The first confirmation records what it computes, of the newest estimate only.
ConfirmFirst(c, charge) ==
    LET n == page[c].of
        amounts == AmountsFor(n)
        result ==
            IF ~StillOffered(c) THEN "unavailable"
            ELSE IF method # "COD_ONGKIR" /\ charge # NoAmount THEN "refused"
            ELSE IF method = "NON_COD" THEN "prepared"
            ELSE IF amounts = NoAmount THEN "unavailable"
            ELSE IF charge \notin {NoAmount, amounts.cod} THEN "refused"
            ELSE IF total # NoTotal \/ ~RowAccepted(amounts) THEN "unavailable"
            ELSE "prepared"
    IN /\ ~FormulaRetired /\ ~RecordedFor(n) /\ placed.of # n
       /\ IF result # "prepared" THEN Turned(c, result)
          ELSE /\ total' = IF method = "NON_COD" THEN total ELSE TotalOf(n, amounts)
               /\ placed' = [status |-> "queued", of |-> n, cod |-> Offered(n)]
               /\ GoesOn(c, result)

\* The form carries the amount it shows for COD Ongkir; for others it should carry none.
Confirm(c) ==
    /\ page[c].of # 0 /\ went[c] = "open"
    /\ \E charge \in {NoAmount, page[c].cod} :
          \/ FormulaRetired /\ Turned(c, "retired")
          \/ ConfirmRecorded(c, charge)
          \/ ConfirmOrdered(c, charge)
          \/ ConfirmFirst(c, charge)
    /\ UNCHANGED <<method, goods, estimates, legacy, page>>

\* The prepared order is sent once; a process that dies before leaves it to a retry.
Submit(c) ==
    /\ went[c] = "prepared" /\ placed.status = "queued"
    /\ GoesOn(c, "sent")
    /\ placed' = [placed EXCEPT !.status = "attempted"]
    /\ UNCHANGED <<method, goods, estimates, total, legacy, page>>

CodNext == EstimateAgain \/ \E c \in Issuances : ShowPage(c) \/ Confirm(c) \/ Submit(c)

CodSpec == CodInit /\ [][CodNext]_codVars

-----------------------------------------------------------------------------
\* Whatever is collected pays, net of Mengantar's fee, for what it is meant to pay
\* for at the prices of its estimate, with one rupiah of rounding left over at most.
AmountCovers ==
    total # NoTotal /\ total.sums.version # 1 =>
        LET q == estimates[total.of]
            net == IF method = "COD" THEN goods + q.price ELSE Deducted(q)
        IN RowAccepted(total.sums) /\ Rounding(total.sums.cod, net) \in {0, 1}

\* No amount of version 1 is sent any more, not even from the queue.
RetiredStaysHome ==
    placed.status = "attempted" /\ total # NoTotal => total.sums.version # 1 \/ legacy

\* A page goes ahead only with what it showed, which is what the newest estimate
\* says and what the order collects.
ShownIsCollected ==
    \A c \in Issuances : went[c] \in {"prepared", "sent"} /\ ~legacy =>
        /\ page[c].of = placed.of /\ page[c].cod = placed.cod
        /\ placed.of = Len(estimates) /\ placed.cod = Offered(placed.of)

\* The COD amount is enough, current and the one that was shown.
CodTotalsHold == AmountCovers /\ RetiredStaysHome /\ ShownIsCollected
=============================================================================
