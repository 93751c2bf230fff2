-------------------------- MODULE CodTotals_proofs ---------------------------
(***************************************************************************)
(* What the COD formulas give for every amount (CodAmounts), and what a    *)
(* COD amount promises for any quotes, values and pages (CodTotals).       *)
(***************************************************************************)
EXTENDS CodTotals, TLAPS

-----------------------------------------------------------------------------
(* The formulas (CodAmounts) *)

\* GrossUp (calculateCodAmounts) is the smallest amount whose 96.67% reach net.
LEMMA GrossUpBounds ==
    ASSUME NEW net \in Nat
    PROVE  /\ GrossUp(net) \in Nat
           /\ GrossUp(net) * 9667 >= net * 10000
           /\ GrossUp(net) * 9667 < net * 10000 + 9667
BY SMT DEF GrossUp

\* MengantarCodFee is 3.33% of the amount, to the nearest rupiah.
LEMMA FeeBounds ==
    ASSUME NEW cod \in Nat
    PROVE  /\ MengantarCodFee(cod) \in Nat
           /\ MengantarCodFee(cod) * 10000 <= cod * 333 + 5000
           /\ cod * 333 + 5000 < MengantarCodFee(cod) * 10000 + 10000
BY SMT DEF MengantarCodFee

\* What is collected pays for net and Mengantar's fee, and leaves at most one rupiah:
\* no seller comes up short, whatever the prices (the comment on COD_FORMULA_VERSION).
THEOREM RoundingIsSmall ==
    ASSUME NEW net \in Nat
    PROVE  Rounding(GrossUp(net), net) \in {0, 1}
<1> DEFINE cod == GrossUp(net)
<1>1. cod \in Nat /\ cod * 9667 >= net * 10000 /\ cod * 9667 < net * 10000 + 9667
  BY GrossUpBounds
<1> HIDE DEF cod
<1> DEFINE fee == MengantarCodFee(cod)
<1>2. fee \in Nat /\ fee * 10000 <= cod * 333 + 5000 /\ cod * 333 + 5000 < fee * 10000 + 10000
  BY <1>1, FeeBounds
<1>3. Rounding(cod, net) = cod - net - fee
  BY DEF Rounding
<1> HIDE DEF fee
<1>4. cod - net - fee \in {0, 1}
  BY <1>1, <1>2, SMT
<1> QED
  BY <1>3, <1>4 DEF cod

\* The VAT a receipt shows is the VAT the totals keep, although each is rounded from
\* another ratio of the fee (vatIncludedInMengantarCodFeeIdr, calculateCodOngkirAmounts).
THEOREM VatAgrees ==
    ASSUME NEW fee \in Nat
    PROVE  VatIncluded(fee) = fee - FeeShare(fee)
BY SMT DEF VatIncluded, FeeShare

\* The database never refuses the row of an amount that calculateCodAmounts gives.
THEOREM FullAmountIsAccepted ==
    ASSUME NEW value \in Nat, NEW shipping \in Nat, CodAmounts(value, shipping) # NoAmount
    PROVE  RowAccepted(CodAmounts(value, shipping))
<1> DEFINE cod == GrossUp(value + shipping)
           markup == cod - value - shipping
           fee == FeeShare(markup)
           row == [version |-> 2, goods |-> value, shipping |-> shipping, fee |-> fee,
                   vat |-> markup - fee, cod |-> cod, basis |-> NoAmount]
<1>1. CodAmounts(value, shipping) = row /\ value > 0 /\ cod <= MaxAmount
  BY DEF CodAmounts, InRange
<1>2. cod \in Nat /\ cod * 9667 >= (value + shipping) * 10000
  BY GrossUpBounds
<1>3. cod = ((value + shipping) * 10000 + 9666) \div 9667
  BY DEF GrossUp
<1> HIDE DEF cod
<1>4. markup \in Nat /\ cod > 0
  BY <1>1, <1>2
<1>5. fee = (markup * 100 + 55) \div 111
  BY DEF FeeShare
<1> HIDE DEF markup
<1>6. fee \in Nat /\ fee <= markup
  BY <1>4, <1>5
<1> HIDE DEF fee
<1>7. cod = value + shipping + fee + (markup - fee)
  BY <1>2, <1>4, <1>6 DEF markup
<1>8. RowAccepted(row)
  BY <1>1, <1>2, <1>3, <1>4, <1>5, <1>6, <1>7, AmountAssumption DEF RowAccepted, markup
<1> QED
  BY <1>1, <1>8

\* The break-even covers what Mengantar deducts, with one rupiah over at most, also when
\* nothing is deducted and the smallest amount is collected.
LEMMA BreakEvenCovers ==
    ASSUME NEW deducted \in Nat, BreakEven(deducted) # NoAmount
    PROVE  /\ BreakEven(deducted) \in 1 .. MaxAmount
           /\ BreakEven(deducted) * 9667 >= deducted * 10000
           /\ Rounding(BreakEven(deducted), deducted) \in {0, 1}
<1>1. CASE GrossUp(deducted) >= 1
  <2>1. BreakEven(deducted) = GrossUp(deducted) /\ GrossUp(deducted) <= MaxAmount
    BY <1>1, GrossUpBounds, AmountAssumption DEF BreakEven
  <2> QED
    BY <1>1, <2>1, GrossUpBounds, RoundingIsSmall, AmountAssumption
<1>2. CASE GrossUp(deducted) < 1
  <2>1. deducted = 0
    BY <1>2, GrossUpBounds
  <2>2. BreakEven(deducted) = 1 /\ 1 <= MaxAmount
    BY <1>2, AmountAssumption DEF BreakEven
  <2>3. Rounding(1, 0) = 1
    BY SMT DEF Rounding, MengantarCodFee
  <2> QED
    BY <2>1, <2>2, <2>3, AmountAssumption
<1> QED
  BY <1>1, <1>2, GrossUpBounds

\* Nor does it refuse the row of a COD Ongkir amount.
THEOREM OngkirAmountIsAccepted ==
    ASSUME NEW value \in Nat, NEW shipping \in Nat, NEW deducted \in Nat,
           CodOngkirAmounts(value, shipping, deducted) # NoAmount
    PROVE  RowAccepted(CodOngkirAmounts(value, shipping, deducted))
<1> DEFINE charge == BreakEven(deducted)
           keeps == MengantarCodFee(charge)
           fee == FeeShare(keeps)
           row == [version |-> 3, goods |-> value, shipping |-> shipping, fee |-> fee,
                   vat |-> keeps - fee, cod |-> charge, basis |-> deducted]
<1>1. CodOngkirAmounts(value, shipping, deducted) = row /\ value > 0 /\ charge # NoAmount
  BY DEF CodOngkirAmounts
<1>2. charge \in 1 .. MaxAmount /\ charge * 9667 >= deducted * 10000
  BY <1>1, BreakEvenCovers
<1> HIDE DEF charge
<1>3. charge \in Nat
  BY <1>2, AmountAssumption
<1>4. keeps \in Nat /\ keeps = (charge * 333 + 5000) \div 10000
  BY <1>3, FeeBounds DEF MengantarCodFee
<1> HIDE DEF keeps
<1>5. fee = (keeps * 100 + 55) \div 111
  BY DEF FeeShare
<1>6. fee \in Nat /\ fee <= keeps
  BY <1>4, <1>5
<1> HIDE DEF fee
<1>7. fee + (keeps - fee) = keeps
  BY <1>4, <1>6
<1>8. deducted # NoAmount
  BY AmountAssumption
<1>9. RowAccepted(row)
  BY <1>1, <1>2, <1>4, <1>5, <1>6, <1>7, <1>8 DEF RowAccepted
<1> QED
  BY <1>1, <1>9

-----------------------------------------------------------------------------
(* Quoted, shown, confirmed, ordered (CodTotals) *)

\* AmountsFor and Offered with everything they read as a parameter.
Sums(m, g, q) ==
    CASE m = "COD" -> CodAmounts(g, q.price)
      [] m = "COD_ONGKIR" -> CodOngkirAmounts(g, q.price, Deducted(q))
      [] OTHER -> NoAmount
Charge(m, g, q) == IF Sums(m, g, q) = NoAmount THEN NoAmount ELSE Sums(m, g, q).cod

NetOf(m, g, q) == IF m = "COD" THEN g + q.price ELSE Deducted(q)

\* A row of version 1 is there.
OldRow == total # NoTotal /\ total.sums.version = 1

DataTyped ==
    /\ method \in PaymentMethods /\ goods \in Nat
    /\ estimates \in Seq(Quotes)

\* A new row is what its estimate gives, and its order is there.
RowSound ==
    \/ total = NoTotal
    \/ total # NoTotal /\ total.sums.version = 1
    \/ /\ total.of \in 1 .. Len(estimates)
       /\ method # "NON_COD"
       /\ total.sums = Sums(method, goods, estimates[total.of]) /\ total.sums # NoAmount
       /\ RowAccepted(total.sums)
       /\ placed.status # "none" /\ placed.of = total.of

\* An order is of the newest estimate, or of the days of version 1.
OrderSound ==
    /\ placed = [status |-> placed.status, of |-> placed.of, cod |-> placed.cod]
    /\ placed.status = "none" => placed.of = 0
    /\ placed.status # "none" /\ ~OldRow =>
          /\ placed.of \in 1 .. Len(estimates) /\ placed.of = Len(estimates)
          /\ placed.cod = Charge(method, goods, estimates[placed.of])
    /\ placed.status = "attempted" /\ OldRow => legacy

PagesSound ==
    /\ DOMAIN page = Issuances
    /\ \A c \in Issuances : page[c].of # 0 =>
          /\ page[c].of \in 1 .. Len(estimates)
          /\ page[c].cod = Charge(method, goods, estimates[page[c].of])

\* A page that went ahead has its order; beside an old row only if that was sent before.
WentSound ==
    /\ DOMAIN went = Issuances
    /\ \A c \in Issuances : went[c] \in {"prepared", "sent"} =>
          /\ placed.status # "none" /\ page[c].of # 0
          /\ OldRow => placed.status = "attempted"
          /\ ~legacy => page[c].of = placed.of /\ page[c].cod = placed.cod

CodInv == DataTyped /\ RowSound /\ OrderSound /\ PagesSound /\ WentSound

-----------------------------------------------------------------------------
\* AmountsFor and Offered are these operators applied to the shipment.
LEMMA AmountsOfState ==
    ASSUME NEW n
    PROVE  /\ AmountsFor(n) = Sums(method, goods, estimates[n])
           /\ Offered(n) = Charge(method, goods, estimates[n])
BY DEF AmountsFor, Offered, Sums, Charge

\* What a quote says is deducted is an amount (shippingMengantarDeductsIdr).
LEMMA DeductedTyped ==
    ASSUME NEW q \in Quotes
    PROVE  q.price \in Nat /\ Deducted(q) \in Nat
BY QuoteAssumption DEF Deducted

\* An amount is of version 2 or 3, is an amount of rupiah and covers its net.
LEMMA SumsCover ==
    ASSUME NEW m \in PaymentMethods \ {"NON_COD"}, NEW g \in Nat, NEW q \in Quotes,
           Sums(m, g, q) # NoAmount
    PROVE  /\ Sums(m, g, q).version \in {2, 3}
           /\ Rounding(Sums(m, g, q).cod, NetOf(m, g, q)) \in {0, 1}
<1>1. q.price \in Nat /\ Deducted(q) \in Nat
  BY DeductedTyped
<1>2. CASE m = "COD"
  <2>1. Sums(m, g, q) = CodAmounts(g, q.price) /\ NetOf(m, g, q) = g + q.price
    BY <1>2 DEF Sums, NetOf
  <2>2. CodAmounts(g, q.price).version = 2 /\ CodAmounts(g, q.price).cod = GrossUp(g + q.price)
    BY <2>1 DEF CodAmounts, InRange
  <2> QED
    BY <1>1, <2>1, <2>2, RoundingIsSmall
<1>3. CASE m = "COD_ONGKIR"
  <2>1. Sums(m, g, q) = CodOngkirAmounts(g, q.price, Deducted(q)) /\ NetOf(m, g, q) = Deducted(q)
    BY <1>3 DEF Sums, NetOf
  <2>2. /\ CodOngkirAmounts(g, q.price, Deducted(q)).version = 3
        /\ CodOngkirAmounts(g, q.price, Deducted(q)).cod = BreakEven(Deducted(q))
        /\ BreakEven(Deducted(q)) # NoAmount
    BY <2>1 DEF CodOngkirAmounts
  <2> QED
    BY <1>1, <2>1, <2>2, BreakEvenCovers
<1> QED
  BY <1>2, <1>3 DEF PaymentMethods

\* The invariant says what the runs check.
LEMMA InvImplies ==
    ASSUME CodInv
    PROVE  CodTotalsHold
<1> USE DEF CodInv
<1>1. AmountCovers
  <2> SUFFICES ASSUME total # NoTotal, total.sums.version # 1
               PROVE  LET q == estimates[total.of]
                          net == IF method = "COD" THEN goods + q.price ELSE Deducted(q)
                      IN RowAccepted(total.sums) /\ Rounding(total.sums.cod, net) \in {0, 1}
    BY DEF AmountCovers
  <2>1. /\ total.of \in 1 .. Len(estimates) /\ method # "NON_COD"
        /\ total.sums = Sums(method, goods, estimates[total.of]) /\ total.sums # NoAmount
        /\ RowAccepted(total.sums)
    BY DEF RowSound
  <2>2. estimates[total.of] \in Quotes
    BY <2>1 DEF DataTyped
  <2>3. Rounding(total.sums.cod, NetOf(method, goods, estimates[total.of])) \in {0, 1}
    BY <2>1, <2>2, SumsCover DEF DataTyped
  <2> QED
    BY <2>1, <2>3 DEF NetOf
<1>2. RetiredStaysHome
  BY DEF RetiredStaysHome, OrderSound, OldRow
<1>3. ShownIsCollected
  <2> SUFFICES ASSUME NEW c \in Issuances, went[c] \in {"prepared", "sent"}, ~legacy
               PROVE  /\ page[c].of = placed.of /\ page[c].cod = placed.cod
                      /\ placed.of = Len(estimates) /\ placed.cod = Offered(placed.of)
    BY DEF ShownIsCollected
  <2>1. placed.status # "none" /\ page[c].of = placed.of /\ page[c].cod = placed.cod
    BY DEF WentSound
  <2>2. ~OldRow
    BY DEF WentSound, OrderSound
  <2> QED
    BY <2>1, <2>2, AmountsOfState DEF OrderSound
<1> QED
  BY <1>1, <1>2, <1>3 DEF CodTotalsHold

-----------------------------------------------------------------------------
\* A shipment starts without a row, or with one of version 1.
LEMMA InvAtStart ==
    CodInit => CodInv
<1> SUFFICES ASSUME CodInit PROVE CodInv
  OBVIOUS
<1>1. DataTyped
  BY QuoteAssumption DEF CodInit, DataTyped
<1>2. CASE total = NoTotal /\ placed = NoOrder
  <2>1. RowSound /\ OrderSound
    BY <1>2 DEF RowSound, OrderSound, NoOrder
  <2> QED
    BY <2>1, <1>1 DEF CodInv, CodInit, PagesSound, WentSound
<1>3. CASE \E s \in {"none", "queued", "attempted"} :
              /\ total = TotalOf(1, CodAmountsV1(goods, estimates[1].price))
              /\ placed = IF s = "none" THEN NoOrder
                          ELSE [status |-> s, of |-> 1, cod |-> total.sums.cod]
  <2>1. PICK s \in {"none", "queued", "attempted"} :
              /\ total = TotalOf(1, CodAmountsV1(goods, estimates[1].price))
              /\ placed = IF s = "none" THEN NoOrder
                          ELSE [status |-> s, of |-> 1, cod |-> total.sums.cod]
    BY <1>3
  <2>2. total.sums.version = 1 /\ total.of = 1
    BY <2>1 DEF TotalOf, CodAmountsV1
  <2>3. OldRow
    BY <2>2 DEF OldRow, NoTotal
  <2>4. RowSound
    BY <2>3 DEF RowSound, OldRow
  <2>5. OrderSound
    <3>1. legacy = (placed.status = "attempted")
      BY DEF CodInit
    <3> QED
      BY <2>1, <2>3, <3>1 DEF OrderSound, NoOrder
  <2> QED
    BY <1>1, <2>4, <2>5 DEF CodInv, CodInit, PagesSound, WentSound
<1> QED
  BY <1>2, <1>3 DEF CodInit

\* Another estimate leaves the amounts of the earlier ones, and comes before any order.
LEMMA EstimateAgainKeeps ==
    CodInv /\ EstimateAgain => CodInv'
<1> SUFFICES ASSUME CodInv, EstimateAgain PROVE CodInv'
  OBVIOUS
<1> USE DEF CodInv
<1>1. PICK q \in Quotes : estimates' = Append(estimates, q)
  BY DEF EstimateAgain
<1>2. /\ estimates' \in Seq(Quotes) /\ Len(estimates') = Len(estimates) + 1
      /\ \A n \in 1 .. Len(estimates) : estimates'[n] = estimates[n]
  BY <1>1 DEF DataTyped
<1>3. placed.status = "none" /\ UNCHANGED <<method, goods, total, placed, legacy, page, went>>
  BY DEF EstimateAgain
<1>4. DataTyped'
  BY <1>2, <1>3 DEF DataTyped
<1>5. RowSound' /\ OrderSound'
  BY <1>3 DEF RowSound, OrderSound, OldRow
<1>6. PagesSound'
  <2> SUFFICES ASSUME NEW c \in Issuances, page[c].of # 0
               PROVE  /\ page[c].of \in 1 .. Len(estimates')
                      /\ page[c].cod = Charge(method, goods, estimates'[page[c].of])
    BY <1>3 DEF PagesSound
  <2>1. page[c].of \in 1 .. Len(estimates) /\ page[c].cod = Charge(method, goods, estimates[page[c].of])
    BY DEF PagesSound
  <2> QED
    BY <1>2, <2>1 DEF DataTyped
<1>7. WentSound'
  BY <1>3 DEF WentSound, OldRow
<1> QED
  BY <1>4, <1>5, <1>6, <1>7

\* A page shows what its estimate gives; it has not gone ahead yet.
LEMMA ShowPageKeeps ==
    ASSUME NEW c \in Issuances
    PROVE  CodInv /\ ShowPage(c) => CodInv'
<1> SUFFICES ASSUME CodInv, ShowPage(c) PROVE CodInv'
  OBVIOUS
<1> USE DEF CodInv
<1>1. /\ page' = [page EXCEPT ![c] = [of |-> Len(estimates), cod |-> Offered(Len(estimates))]]
      /\ UNCHANGED <<method, goods, estimates, total, placed, legacy, went>> /\ page[c].of = 0
  BY DEF ShowPage
<1>2. DataTyped' /\ RowSound' /\ OrderSound'
  BY <1>1 DEF DataTyped, RowSound, OrderSound, OldRow
<1>3. PagesSound'
  BY <1>1, AmountsOfState DEF PagesSound, DataTyped
<1>4. WentSound'
  BY <1>1 DEF WentSound, OldRow
<1> QED
  BY <1>2, <1>3, <1>4

\* An answer that refuses, retires or postpones changes no amount and no order.
LEMMA TurnedAwayKeeps ==
    ASSUME NEW c \in Issuances, NEW result, result \notin {"prepared", "sent"}
    PROVE  CodInv /\ Turned(c, result) /\ UNCHANGED <<method, goods, estimates, legacy, page>>
              => CodInv'
BY DEF Turned, GoesOn, CodInv, DataTyped, RowSound, OrderSound, OldRow, PagesSound, WentSound

\* A page that finds its order, with the amount it showed unless the order is of
\* the days of version 1, goes ahead.
LEMMA FoundAgainKeeps ==
    ASSUME NEW c \in Issuances, CodInv, Turned(c, "prepared"), page[c].of # 0,
           placed.status # "none", OldRow => placed.status = "attempted",
           ~legacy => page[c].of = placed.of /\ page[c].cod = placed.cod,
           UNCHANGED <<method, goods, estimates, legacy, page>>
    PROVE  CodInv'
BY DEF Turned, GoesOn, CodInv, DataTyped, RowSound, OrderSound, OldRow, PagesSound, WentSound

\* The row of the page's estimate: its order is there, of the amount the page showed.
LEMMA ConfirmRecordedKeeps ==
    ASSUME NEW c \in Issuances, NEW charge, CodInv, page[c].of # 0,
           ConfirmRecorded(c, charge), UNCHANGED <<method, goods, estimates, legacy, page>>
    PROVE  CodInv'
<1>1. CASE Turned(c, "refused")
  BY <1>1, TurnedAwayKeeps
<1>2. CASE Turned(c, "prepared")
  <2>1. total # NoTotal /\ total.of = page[c].of
    BY DEF ConfirmRecorded, RecordedFor, NoTotal
  <2>2. CASE OldRow
    <3>1. placed.status = "attempted" /\ legacy
      BY <2>2 DEF ConfirmRecorded, FormulaRetired, OldRow, CodInv, OrderSound
    <3> QED
      BY <1>2, <3>1, FoundAgainKeeps
  <2>3. CASE ~OldRow
    <3>1. placed.status # "none" /\ placed.of = page[c].of
      BY <2>1, <2>3 DEF CodInv, RowSound, OldRow
    <3>2. placed.cod = page[c].cod
      BY <2>3, <3>1 DEF CodInv, OrderSound, PagesSound
    <3> QED
      BY <1>2, <2>3, <3>1, <3>2, FoundAgainKeeps
  <2> QED
    BY <2>2, <2>3
<1> QED
  BY <1>1, <1>2 DEF ConfirmRecorded

\* An order without a row, or of earlier days.
LEMMA ConfirmOrderedKeeps ==
    ASSUME NEW c \in Issuances, NEW charge, CodInv, page[c].of # 0,
           ConfirmOrdered(c, charge), UNCHANGED <<method, goods, estimates, legacy, page>>
    PROVE  CodInv'
<1>1. CASE Turned(c, "unavailable")
  BY <1>1, TurnedAwayKeeps
<1>2. CASE Turned(c, "prepared")
  <2>1. placed.of = page[c].of /\ placed.status # "none"
    BY DEF ConfirmOrdered, CodInv, OrderSound
  <2>2. OldRow => placed.status = "attempted" /\ legacy
    BY DEF ConfirmOrdered, FormulaRetired, OldRow, CodInv, OrderSound
  <2>3. ~OldRow => placed.cod = page[c].cod
    BY <2>1 DEF CodInv, OrderSound, PagesSound
  <2> QED
    BY <1>2, <2>1, <2>2, <2>3, FoundAgainKeeps
<1> QED
  BY <1>1, <1>2 DEF ConfirmOrdered

\* The first confirmation: no row and no page ahead of it, the newest estimate.
LEMMA ConfirmFirstKeeps ==
    ASSUME NEW c \in Issuances, NEW charge, CodInv, page[c].of # 0,
           ConfirmFirst(c, charge), UNCHANGED <<method, goods, estimates, legacy, page>>
    PROVE  CodInv'
<1> DEFINE n == page[c].of
<1>1. CASE \E r \in {"unavailable", "refused"} : Turned(c, r)
  BY <1>1, TurnedAwayKeeps
<1>2. CASE /\ placed.status = "none" /\ n = Len(estimates) /\ GoesOn(c, "prepared")
           /\ placed' = [status |-> "queued", of |-> n, cod |-> Offered(n)]
           /\ \/ method = "NON_COD" /\ total' = total
              \/ /\ method # "NON_COD" /\ total' = TotalOf(n, AmountsFor(n))
                 /\ AmountsFor(n) # NoAmount /\ RowAccepted(AmountsFor(n))
  <2>1. ~OldRow /\ total = NoTotal
    BY <1>2 DEF ConfirmFirst, FormulaRetired, OldRow, CodInv, RowSound
  <2>2. /\ n \in 1 .. Len(estimates) /\ page[c].cod = Offered(n)
        /\ Offered(n) = Charge(method, goods, estimates[n])
        /\ AmountsFor(n) = Sums(method, goods, estimates[n])
        /\ estimates[n] \in Quotes /\ method \in PaymentMethods /\ goods \in Nat
    BY AmountsOfState DEF CodInv, PagesSound, DataTyped
  <2>3. DataTyped' /\ PagesSound'
    BY DEF CodInv, DataTyped, PagesSound
  <2>4. RowSound' /\ ~OldRow'
    <3>1. CASE method = "NON_COD" /\ total' = total
      BY <2>1, <3>1 DEF RowSound, OldRow
    <3>2. CASE /\ method # "NON_COD" /\ total' = TotalOf(n, AmountsFor(n))
               /\ AmountsFor(n) # NoAmount /\ RowAccepted(AmountsFor(n))
      <4>1. total'.of = n /\ total'.sums = AmountsFor(n)
        BY <3>2 DEF TotalOf
      <4>2. total'.sums.version \in {2, 3}
        BY <2>2, <3>2, <4>1, SumsCover
      <4>3. placed'.status = "queued" /\ placed'.of = n
        BY <1>2
      <4> QED
        BY <2>2, <3>2, <4>1, <4>2, <4>3 DEF RowSound, OldRow
    <3> QED
      BY <1>2, <3>1, <3>2
  <2>5. OrderSound'
    BY <1>2, <2>2, <2>4 DEF OrderSound
  <2>6. WentSound'
    BY <1>2, <2>2, <2>4 DEF CodInv, WentSound, GoesOn
  <2> QED
    BY <2>3, <2>4, <2>5, <2>6 DEF CodInv
<1> QED
  BY <1>1, <1>2 DEF ConfirmFirst, StillOffered

\* A prepared order is sent: it is not one of version 1.
LEMMA SubmitKeeps ==
    ASSUME NEW c \in Issuances, CodInv, Submit(c)
    PROVE  CodInv'
<1>1. /\ placed' = [status |-> "attempted", of |-> placed.of, cod |-> placed.cod]
      /\ placed.status = "queued" /\ went[c] = "prepared" /\ GoesOn(c, "sent")
      /\ UNCHANGED <<method, goods, estimates, total, legacy, page>>
  BY DEF Submit, CodInv, OrderSound
<1>2. ~OldRow
  BY <1>1 DEF CodInv, WentSound
<1>3. DataTyped' /\ RowSound' /\ PagesSound'
  BY <1>1 DEF CodInv, DataTyped, RowSound, PagesSound
<1>4. OrderSound' /\ WentSound'
  BY <1>1, <1>2 DEF CodInv, OrderSound, WentSound, OldRow, GoesOn
<1> QED
  BY <1>3, <1>4 DEF CodInv

\* Every step keeps the invariant.
LEMMA StepKeeps ==
    CodInv /\ [CodNext]_codVars => CodInv'
<1> SUFFICES ASSUME CodInv, [CodNext]_codVars PROVE CodInv'
  OBVIOUS
<1>1. CASE EstimateAgain
  BY <1>1, EstimateAgainKeeps
<1>2. ASSUME NEW c \in Issuances, ShowPage(c) PROVE CodInv'
  BY <1>2, ShowPageKeeps
<1>3. ASSUME NEW c \in Issuances, Confirm(c) PROVE CodInv'
  <2>1. page[c].of # 0 /\ UNCHANGED <<method, goods, estimates, legacy, page>>
    BY <1>3 DEF Confirm
  <2>2. PICK charge \in {NoAmount, page[c].cod} :
          \/ FormulaRetired /\ Turned(c, "retired")
          \/ ConfirmRecorded(c, charge)
          \/ ConfirmOrdered(c, charge)
          \/ ConfirmFirst(c, charge)
    BY <1>3 DEF Confirm
  <2>3. CASE FormulaRetired /\ Turned(c, "retired")
    BY <2>1, <2>3, TurnedAwayKeeps
  <2>4. CASE ConfirmRecorded(c, charge)
    BY <2>1, <2>4, ConfirmRecordedKeeps
  <2>5. CASE ConfirmOrdered(c, charge)
    BY <2>1, <2>5, ConfirmOrderedKeeps
  <2>6. CASE ConfirmFirst(c, charge)
    BY <2>1, <2>6, ConfirmFirstKeeps
  <2> QED
    BY <2>2, <2>3, <2>4, <2>5, <2>6
<1>4. ASSUME NEW c \in Issuances, Submit(c) PROVE CodInv'
  BY <1>4, SubmitKeeps
<1>5. CASE UNCHANGED codVars
  BY <1>5 DEF codVars, CodInv, DataTyped, RowSound, OrderSound, OldRow, PagesSound, WentSound
<1> QED
  BY <1>1, <1>2, <1>3, <1>4, <1>5 DEF CodNext

\* The COD amount of a shipment is enough for what it is to pay for, an amount of
\* version 1 is not sent any more, and the order collects what its page showed
\* (confirmCodTotals, issueFromQuote): whatever is quoted, and whoever confirms.
THEOREM AmountsHold ==
    CodSpec => []CodTotalsHold
<1>1. CodInit => CodInv
  BY InvAtStart
<1>2. CodInv /\ [CodNext]_codVars => CodInv'
  BY StepKeeps
<1>3. CodInv => CodTotalsHold
  BY InvImplies
<1> QED
  BY <1>1, <1>2, <1>3, PTL DEF CodSpec

-----------------------------------------------------------------------------
(* Types *)

\* What is charged is an amount or none, and a row that is computed is of version 2 or 3.
LEMMA ChargeTyped ==
    ASSUME NEW m \in PaymentMethods, NEW g \in Nat, NEW q \in Quotes
    PROVE  /\ Charge(m, g, q) \in Amounts
           /\ Sums(m, g, q) # NoAmount => Sums(m, g, q).version \in {2, 3}
<1>1. q.price \in Nat /\ Deducted(q) \in Nat
  BY QuoteAssumption DEF Deducted
<1>2. /\ GrossUp(g + q.price) \in Nat
      /\ BreakEven(Deducted(q)) # NoAmount => BreakEven(Deducted(q)) \in Nat
  BY <1>1, GrossUpBounds, BreakEvenCovers, AmountAssumption
<1>3. CASE m = "COD"
  BY <1>2, <1>3 DEF Charge, Sums, CodAmounts, InRange, Amounts
<1>4. CASE m = "COD_ONGKIR"
  BY <1>2, <1>4 DEF Charge, Sums, CodOngkirAmounts, Amounts
<1>5. CASE m = "NON_COD"
  BY <1>5 DEF Charge, Sums, Amounts
<1> QED
  BY <1>3, <1>4, <1>5 DEF PaymentMethods

\* A row is of one of the three versions, whatever is quoted.
LEMMA VersionTyped == CodInv /\ total # NoTotal => total.sums.version \in 1 .. 3
<1> SUFFICES ASSUME CodInv, total # NoTotal PROVE total.sums.version \in 1 .. 3
  OBVIOUS
<1>1. CASE total.sums.version = 1
  BY <1>1
<1>2. CASE total.sums.version # 1
  <2>1. /\ total.sums = Sums(method, goods, estimates[total.of]) /\ total.sums # NoAmount
        /\ estimates[total.of] \in Quotes /\ method \in PaymentMethods /\ goods \in Nat
    BY <1>2 DEF CodInv, RowSound, DataTyped
  <2> QED
    BY <2>1, ChargeTyped
<1> QED
  BY <1>1, <1>2

\* A new shipment, or one with a row of version 1.
LEMMA CodInitType == CodInit => CodTypeOK
<1> SUFFICES ASSUME CodInit PROVE CodTypeOK
  OBVIOUS
<1>1. /\ method \in PaymentMethods /\ goods \in Values \ {0} /\ goods \in Nat
      /\ estimates \in Seq(Quotes) /\ Len(estimates) = 1 /\ Len(estimates) \in 1 .. MaxEstimates
      /\ estimates[1].price \in Nat
  BY QuoteAssumption DEF CodInit
<1>2. legacy \in BOOLEAN /\ page \in [Issuances -> [of : 0 .. 1, cod : Amounts]]
      /\ went \in [Issuances -> {"open", "prepared", "sent", "refused", "retired", "unavailable"}]
  BY DEF CodInit, Amounts
<1>3. /\ total.of \in 0 .. 1
      /\ placed \in [status : {"none", "queued", "attempted"}, of : 0 .. 1, cod : Amounts]
  <2>1. CASE total = NoTotal /\ placed = NoOrder
    BY <2>1 DEF NoTotal, NoOrder, Amounts
  <2>2. CASE \E s \in {"none", "queued", "attempted"} :
                /\ total = TotalOf(1, CodAmountsV1(goods, estimates[1].price))
                /\ placed = IF s = "none" THEN NoOrder
                            ELSE [status |-> s, of |-> 1, cod |-> total.sums.cod]
    <3>1. total.of = 1 /\ total.sums.cod \in Nat
      BY <1>1, <2>2 DEF TotalOf, CodAmountsV1
    <3> QED
      BY <2>2, <3>1 DEF NoOrder, Amounts
  <2> QED
    BY <2>1, <2>2 DEF CodInit
<1>4. total # NoTotal => total.sums.version \in 1 .. 3
  BY InvAtStart, VersionTyped
<1> QED
  BY <1>1, <1>2, <1>3, <1>4 DEF CodTypeOK

\* Every step keeps the types, with what CodInv says of the rows.
LEMMA CodNextType == CodTypeOK /\ CodInv /\ CodInv' /\ [CodNext]_codVars => CodTypeOK'
<1> SUFFICES ASSUME CodTypeOK, CodInv, CodInv', [CodNext]_codVars PROVE CodTypeOK'
  OBVIOUS
<1>0. /\ (total # NoTotal => total.sums.version \in 1 .. 3)'
      /\ goods \in Nat /\ Len(estimates) \in Nat \ {0} /\ MaxEstimates \in Nat
  <2>1. (total # NoTotal => total.sums.version \in 1 .. 3)'
    BY VersionTyped, PTL
  <2>2. goods \in Nat /\ Len(estimates) \in Nat \ {0} /\ MaxEstimates \in Nat
    BY QuoteAssumption DEF CodInv, DataTyped, CodTypeOK
  <2> QED
    BY <2>1, <2>2
<1>1. \A n \in 1 .. Len(estimates) : /\ Offered(n) \in Amounts
                                     /\ Offered(n) = Charge(method, goods, estimates[n])
  BY <1>0, ChargeTyped, AmountsOfState DEF CodTypeOK
<1>2. CASE EstimateAgain
  <2>1. PICK q \in Quotes : estimates' = Append(estimates, q)
    BY <1>2 DEF EstimateAgain
  <2>2. /\ estimates' \in Seq(Quotes) /\ Len(estimates') = Len(estimates) + 1
        /\ Len(estimates) < MaxEstimates
    BY <1>2, <2>1 DEF EstimateAgain, CodTypeOK
  <2>3. /\ Len(estimates') \in 1 .. MaxEstimates
        /\ 0 .. Len(estimates) \subseteq 0 .. Len(estimates')
    BY <1>0, <2>2
  <2> HIDE DEF CodInv
  <2>4. /\ placed' \in [status : {"none", "queued", "attempted"}, of : 0 .. Len(estimates'), cod : Amounts]
        /\ page' \in [Issuances -> [of : 0 .. Len(estimates'), cod : Amounts]]
        /\ total'.of \in 0 .. Len(estimates')
    BY <1>2, <2>3 DEF EstimateAgain, CodTypeOK
  <2> QED
    BY <1>0, <1>2, <2>2, <2>3, <2>4 DEF EstimateAgain, CodTypeOK
<1>3. ASSUME NEW c \in Issuances, ShowPage(c) PROVE CodTypeOK'
  <2>1. [of |-> Len(estimates), cod |-> Offered(Len(estimates))] \in [of : 0 .. Len(estimates), cod : Amounts]
    BY <1>0, <1>1
  <2> QED
    BY <1>0, <1>3, <2>1 DEF ShowPage, CodTypeOK
<1>4. ASSUME NEW c \in Issuances, Confirm(c) PROVE CodTypeOK'
  <2>1. UNCHANGED <<method, goods, estimates, legacy, page>> /\ page[c].of \in 1 .. Len(estimates)
    BY <1>0, <1>4 DEF Confirm, CodTypeOK
  <2>2. PICK charge \in {NoAmount, page[c].cod} :
          \/ FormulaRetired /\ Turned(c, "retired")
          \/ ConfirmRecorded(c, charge)
          \/ ConfirmOrdered(c, charge)
          \/ ConfirmFirst(c, charge)
    BY <1>4 DEF Confirm
  <2> DEFINE Results == {"open", "prepared", "sent", "refused", "retired", "unavailable"}
  <2>3. ASSUME NEW result \in Results, Turned(c, result) PROVE CodTypeOK'
    BY <1>0, <2>1, <2>3 DEF Turned, GoesOn, CodTypeOK
  <2>4. CASE FormulaRetired /\ Turned(c, "retired")
    BY <2>3, <2>4
  <2>5. CASE ConfirmRecorded(c, charge)
    BY <2>3, <2>5 DEF ConfirmRecorded
  <2>6. CASE ConfirmOrdered(c, charge)
    BY <2>3, <2>6 DEF ConfirmOrdered
  <2>7. CASE ConfirmFirst(c, charge)
    <3>1. \/ \E result \in Results : Turned(c, result)
          \/ /\ total' = IF method = "NON_COD" THEN total
                         ELSE TotalOf(page[c].of, AmountsFor(page[c].of))
             /\ placed' = [status |-> "queued", of |-> page[c].of, cod |-> Offered(page[c].of)]
             /\ GoesOn(c, "prepared")
      BY <2>7 DEF ConfirmFirst
    <3>2. CASE \E result \in Results : Turned(c, result)
      BY <2>3, <3>2
    <3>3. CASE /\ total' = IF method = "NON_COD" THEN total
                           ELSE TotalOf(page[c].of, AmountsFor(page[c].of))
               /\ placed' = [status |-> "queued", of |-> page[c].of, cod |-> Offered(page[c].of)]
               /\ GoesOn(c, "prepared")
      <4>1. total'.of \in 0 .. Len(estimates)
        BY <2>1, <3>3 DEF TotalOf, CodTypeOK
      <4>2. placed' \in [status : {"none", "queued", "attempted"}, of : 0 .. Len(estimates), cod : Amounts]
        BY <1>1, <2>1, <3>3
      <4> QED
        BY <1>0, <2>1, <3>3, <4>1, <4>2 DEF GoesOn, CodTypeOK
    <3> QED
      BY <3>1, <3>2, <3>3
  <2> QED
    BY <2>2, <2>4, <2>5, <2>6, <2>7
<1>5. ASSUME NEW c \in Issuances, Submit(c) PROVE CodTypeOK'
  BY <1>0, <1>5 DEF Submit, GoesOn, CodTypeOK
<1>6. CASE UNCHANGED codVars
  BY <1>6 DEF codVars, CodTypeOK
<1> QED
  BY <1>2, <1>3, <1>4, <1>5, <1>6 DEF CodNext

\* The shipment, its estimates, its row, its order and its pages are typed, whatever is quoted.
THEOREM CodTypeCorrect == CodSpec => []CodTypeOK
<1>1. CodInit => CodInv /\ CodTypeOK
  BY InvAtStart, CodInitType
<1>2. CodInv /\ CodTypeOK /\ [CodNext]_codVars => (CodInv /\ CodTypeOK)'
  BY StepKeeps, CodNextType
<1> QED
  BY <1>1, <1>2, PTL DEF CodSpec
=============================================================================
