----------------------------- MODULE CodAmounts -----------------------------
(***************************************************************************)
(* What the courier collects on delivery, and what becomes of it.  All     *)
(* amounts are whole rupiah.  Mengantar keeps 3.33% of a COD amount, which *)
(* is a fee of 3% and 11% VAT on it, rounded half up.                      *)
(*                                                                         *)
(* Version 1 of the formula added the fee to goods and shipping.  Version  *)
(* 2 raises the amount until, net of the fee, it pays for both.  Version 3 *)
(* (COD Ongkir) does so for the shipping Mengantar deducts; the goods are  *)
(* paid for elsewhere.                                                     *)
(***************************************************************************)
EXTENDS Integers

CONSTANTS MaxAmount, \* the largest value of an amount's column
          NoAmount

ASSUME AmountAssumption == MaxAmount \in Nat \ {0} /\ NoAmount \notin Int

\* (amount x 333 + half) / 10000: what Mengantar keeps.
MengantarCodFee(cod) == (cod * 333 + 5000) \div 10000

\* The VAT inside that fee, as the screens show it: 11/111 of it, half up.
VatIncluded(fee) == (fee * 22 + 111) \div 222

\* The fee's part of fee and VAT, as the columns store it: 100/111, half up.
FeeShare(markup) == (markup * 100 + 55) \div 111

\* The smallest amount of which 96.67% is at least net.
GrossUp(net) == (net * 10000 + 9666) \div 9667

\* An amount out of the column's range is no amount.
InRange(amounts) == IF amounts.cod <= MaxAmount THEN amounts ELSE NoAmount

CodAmountsV1(goods, shipping) ==
    LET fee == ((goods + shipping) * 3 + 50) \div 100
        vat == (fee * 11 + 50) \div 100
    IN [version |-> 1, goods |-> goods, shipping |-> shipping, fee |-> fee, vat |-> vat,
        cod |-> goods + shipping + fee + vat, basis |-> NoAmount]

CodAmounts(goods, shipping) ==
    LET cod == GrossUp(goods + shipping)
        markup == cod - goods - shipping
    IN IF goods = 0 THEN NoAmount
       ELSE InRange([version |-> 2, goods |-> goods, shipping |-> shipping,
                     fee |-> FeeShare(markup), vat |-> markup - FeeShare(markup),
                     cod |-> cod, basis |-> NoAmount])

BreakEven(deducted) ==
    LET charge == IF GrossUp(deducted) < 1 THEN 1 ELSE GrossUp(deducted)
    IN IF charge > MaxAmount THEN NoAmount ELSE charge

\* The COD Ongkir amount is the break-even; the goods are recorded, not collected.
CodOngkirAmounts(goods, shipping, deducted) ==
    LET charge == BreakEven(deducted)
        fee == MengantarCodFee(charge)
    IN IF goods \notin 1 .. MaxAmount \/ shipping > MaxAmount \/ charge = NoAmount THEN NoAmount
       ELSE [version |-> 3, goods |-> goods, shipping |-> shipping,
             fee |-> FeeShare(fee), vat |-> fee - FeeShare(fee),
             cod |-> charge, basis |-> deducted]

\* The CHECKs of shipment_cod_totals, by the version of the row.
RowAccepted(r) ==
    /\ r.goods > 0 /\ r.shipping >= 0 /\ r.fee >= 0 /\ r.vat >= 0
    /\ r.cod \in 1 .. MaxAmount
    /\ (r.version = 3) = (r.basis # NoAmount)
    /\ r.version # 3 => r.cod = r.goods + r.shipping + r.fee + r.vat
    /\ r.version = 1 =>
          /\ r.fee = ((r.goods + r.shipping) * 3 + 50) \div 100
          /\ r.vat = (r.fee * 11 + 50) \div 100
    /\ r.version = 2 =>
          /\ r.cod = ((r.goods + r.shipping) * 10000 + 9666) \div 9667
          /\ r.fee = ((r.cod - r.goods - r.shipping) * 100 + 55) \div 111
    /\ r.version = 3 =>
          /\ r.cod * 9667 >= r.basis * 10000
          /\ r.fee + r.vat = (r.cod * 333 + 5000) \div 10000
          /\ r.fee = ((r.fee + r.vat) * 100 + 55) \div 111

\* What rounding leaves over when net and the fee are taken from what is collected.
Rounding(cod, net) == cod - net - MengantarCodFee(cod)

\* The lines a receipt prints for a full COD amount; none when they would not add up.
Breakdown(goods, shipping, cod) ==
    LET rounding == Rounding(cod, goods + shipping)
    IN IF rounding < 0 THEN NoAmount
       ELSE [goods |-> goods, shipping |-> shipping, fee |-> MengantarCodFee(cod),
             vat |-> VatIncluded(MengantarCodFee(cod)), rounding |-> rounding]
=============================================================================
