---------------------------- MODULE MCStoreDesks ----------------------------
(***************************************************************************)
(* Instances for TLC of the modules about a store that share no state: who *)
(* runs it, how it registers, how often it may ask, its labels, its        *)
(* outlets, its ledger, what it collects, its numbers.  A behaviour plays  *)
(* in one of them, chosen at the start with its cast: the requests that    *)
(* take part.  The state spaces thus add up.                               *)
(***************************************************************************)
EXTENDS StoreAccess, Registration, RateLimits, LabelDesk, OutletDesk, LedgerBook,
        CodTotals, ShipmentNumbers, TLC

VARIABLE play \* [of : the module, cast : who takes part]

plays == <<accessVars, registrationVars, rateVars, deskVars, outletVars, ledgerVars, codVars,
           numberVars>>

-----------------------------------------------------------------------------
CONSTANTS t1, t2, ani, budi, oki, nia, dewi, root, g1, g2

\* t1 works, with two admins and an operator; t2 works with one admin; t3 is not there.
ThreeStores == t1 :> "ACTIVE" @@ t2 :> "ACTIVE" @@ "t3" :> "NONE"
Staff ==
    LET in(t, r) == [store |-> t, role |-> r, status |-> "ACTIVE"]
    IN ani :> in(t1, "TENANT_ADMIN") @@ budi :> in(t1, "TENANT_ADMIN") @@ oki :> in(t1, "OPERATOR")
          @@ dewi :> in(t2, "TENANT_ADMIN") @@ nia :> Nobody @@ root :> Nobody

Send(who, what, whom, role, attempt) ==
    [actor |-> who, action |-> what, target |-> whom, role |-> role, attempt |-> attempt]

\* Two admins against each other and a third who becomes one; a newcomer wanted by both
\* stores; an attempt used for two forms, and one that is against the rules.
Rivals == {Send(ani, "MEMBER_DEACTIVATED", budi, "OPERATOR", "x1"),
           Send(budi, "MEMBER_ROLE_CHANGED", ani, "OPERATOR", "x2"),
           Send(ani, "MEMBER_ROLE_CHANGED", oki, "TENANT_ADMIN", "x3")}
Newcomers == {Send(ani, "MEMBER_INVITED", nia, "OPERATOR", "x4"),
              Send(dewi, "MEMBER_INVITED", nia, "OPERATOR", "x5"),
              Send(ani, "MEMBER_DEACTIVATED", nia, "OPERATOR", "x6")}
Mistakes == {Send(ani, "MEMBER_DEACTIVATED", budi, "OPERATOR", "x1"),
             Send(ani, "MEMBER_DEACTIVATED", oki, "OPERATOR", "x1"),
             Send(ani, "MEMBER_INVITED", root, "OPERATOR", "x7")}
SomeForms == Rivals \cup Newcomers \cup Mistakes

Order(what, t, sure, attempt) ==
    [action |-> what, store |-> t, named |-> sure, attempt |-> attempt]
Suspension == {Order("suspend", t1, TRUE, "k1"), Order("reactivate", t1, TRUE, "k2")}
Closure == {Order("suspend", t1, TRUE, "k1"), Order("archive", t1, TRUE, "k3"),
            Order("archive", t1, FALSE, "k4"), Order("create", "t3", TRUE, "k5")}
SomeOrders == Suspension \cup Closure

AccessCasts == {Rivals \cup Suspension, Newcomers, Mistakes, Closure}

-----------------------------------------------------------------------------
CONSTANTS p1, p2, p3, m1, m2, u1, v1, i1, i2

\* Two parcels.  A label is printed under one attempt by two requests; two batches, and
\* two pages of invoices, list the parcels the other way round.
DeskWanted == p1 :> <<1>> @@ p2 :> <<1>> @@ p3 :> <<2>> @@ m1 :> <<1, 2>> @@ m2 :> <<2, 1>>
                @@ u1 :> <<1>> @@ v1 :> <<2, 1>> @@ i1 :> <<1, 2>> @@ i2 :> <<2, 1>>
DeskAttempts == p1 :> "x" @@ p2 :> "x" @@ p3 :> "y"

DeskCasts == {{p1, p2, m1, v1}, {p1, m1, m2, u1}, {p1, m1, u1, v1}, {i1, i2, m2, v1}}

-----------------------------------------------------------------------------
CONSTANTS s1, s2, s3, s4, a1, q1, o1, o2, OutletCasts

\* One form sent twice, at once or one after the other; another shipment to the same
\* phone, sent without and then with the confirmation.
OutletForms ==
    LET to(id, p, sure) == [id |-> id, pickup |-> p, phone |-> "n1", sure |-> sure]
    IN s1 :> to("d1", "w1", FALSE) @@ s2 :> to("d1", "w1", FALSE)
          @@ s3 :> to("d2", Nothing, FALSE) @@ s4 :> to("d2", "w2", TRUE)
OutletTargets == a1 :> "w2" @@ q1 :> "d1" @@ o1 :> "d1" @@ o2 :> "d1"

\* Two operators order the same shipment.  "again": the account changes more than once.
RacingCasts == {{s1, s2, a1}, {s1, s3, s4}, {s1, a1, q1, "again"}, {s1, q1, o1, o2}}
\* An order from a pickup point that is added.
OrderingCasts == {{s1, a1, q1, o1}}

-----------------------------------------------------------------------------
CONSTANTS d1, d2, d3, x1, x2, x3, y1, y2, y3

\* A shipment of each kind.  One attempt corrects an entry twice, another corrects it
\* too; one attempt closes a period twice and another period.
LedgerKinds == d1 :> "cod" @@ d2 :> "unpaid" @@ d3 :> "prepaid"
LedgerPrices ==
    LET cost(n) == [COD_PRINCIPAL |-> 100 * n, SHIPPING_COST |-> 10 * n,
                    COD_FEE_COST |-> 3 * n, UPSTREAM_PAYMENT |-> 9 * n]
    IN d1 :> cost(1) @@ d2 :> cost(2) @@ d3 :> cost(4)
LedgerCorrections ==
    LET of(attempt, d) == [attempt |-> attempt, by |-> "ani", deal |-> d, type |-> "SHIPPING_COST"]
    IN x1 :> of("a", d1) @@ x2 :> of("a", d1) @@ x3 :> of("b", d1)
LedgerClosings ==
    LET of(p) == [attempt |-> "k", by |-> "ani", period |-> p]
    IN y1 :> of(1) @@ y2 :> of(1) @@ y3 :> of(2)

LedgerCasts == {{d1, x1, x2, y1}, {d1, x1, x3}, {d1, d2, x3, y1}, {d2, d3, y1, y2}, {d1, y1, y3}}

-----------------------------------------------------------------------------
\* Prices that round, prices with a discount, nothing to pay and more than may be collected.
CodQuotes ==
    LET quote(p, n, s) == [price |-> p, normal |-> n, special |-> s]
    IN {quote(9667, NoAmount, NoAmount), quote(10000, 9999, 8001), quote(0, 0, NoAmount),
        quote(MaxAmount, MaxAmount, NoAmount)}

NumberPrefixes == [b1 |-> "AB", b2 |-> "CD"]

-----------------------------------------------------------------------------
Plays ==
    [of : {"access"}, cast : AccessCasts]
      \cup [of : {"registration"}, cast : {Accounts}]
      \cup [of : {"rates"}, cast : {Calls, Visits, Readers}]
      \cup [of : {"labels"}, cast : DeskCasts]
      \cup [of : {"outlet"}, cast : OutletCasts]
      \cup [of : {"ledger"}, cast : LedgerCasts]
      \cup [of : {"cod"}, cast : {Issuances}]
      \cup [of : {"numbers"}, cast : {Creations}]

PlayInit ==
    /\ play \in Plays
    /\ AccessInit /\ RegistrationInit /\ RateInit
    /\ IF play.of = "labels" THEN DeskInit
       ELSE DeskInit /\ parcel = [s \in Parcels |-> "ISSUED"]
    /\ IF play.of = "outlet" THEN OutletInit
       ELSE OutletInit /\ main = "w1"
    /\ LedgerInit
    /\ IF play.of = "cod" THEN CodInit
       ELSE CodInit /\ total = NoTotal /\ method = "NON_COD"
              /\ estimates = <<CHOOSE q \in Quotes : TRUE>>
              /\ goods = (CHOOSE v \in Values : TRUE)
    /\ IF play.of = "numbers" THEN NumberInit ELSE NumberInit /\ counter = Nil

\* Whoever is not in the cast does nothing.
AccessCast ==
    /\ \A g \in Requests : form'[g] \in {form[g], Nobody} \cup play.cast
    /\ \A r \in orders' \ orders : r.order \in play.cast
RateCast ==
    /\ \A c \in Calls \ play.cast : called'[c] = called[c]
    /\ \A v \in Visits \ play.cast : visited'[v] = visited[v]
    /\ DOMAIN windows' \subseteq play.cast
DeskCast ==
    /\ \A r \in (Lockers \cup Issues) \ play.cast : step'[r] = step[r]
    /\ \A p \in Prints \ play.cast : told'[p] = told[p]
OutletCast ==
    /\ \A r \in Clerks \ play.cast : stage'[r] = stage[r]
    /\ "again" \in play.cast \/ version' <= 2
LedgerCast ==
    /\ \A d \in Deals \ play.cast : deal'[d] = deal[d]
    /\ \A c \in (Corrections \cup Closings) \ play.cast : turn'[c] = turn[c]

PlayNext ==
    /\ UNCHANGED play
    /\ \/ /\ play.of = "access" /\ AccessNext /\ AccessCast
          /\ UNCHANGED <<registrationVars, rateVars, deskVars, outletVars, ledgerVars, codVars,
                         numberVars>>
       \/ /\ play.of = "registration" /\ RegistrationNext
          /\ UNCHANGED <<accessVars, rateVars, deskVars, outletVars, ledgerVars, codVars,
                         numberVars>>
       \/ /\ play.of = "rates" /\ RateNext /\ RateCast
          /\ UNCHANGED <<accessVars, registrationVars, deskVars, outletVars, ledgerVars, codVars,
                         numberVars>>
       \/ /\ play.of = "labels" /\ DeskNext /\ DeskCast
          /\ UNCHANGED <<accessVars, registrationVars, rateVars, outletVars, ledgerVars, codVars,
                         numberVars>>
       \/ /\ play.of = "outlet" /\ OutletNext /\ OutletCast
          /\ UNCHANGED <<accessVars, registrationVars, rateVars, deskVars, ledgerVars, codVars,
                         numberVars>>
       \/ /\ play.of = "ledger" /\ LedgerNext /\ LedgerCast
          /\ UNCHANGED <<accessVars, registrationVars, rateVars, deskVars, outletVars, codVars,
                         numberVars>>
       \/ /\ play.of = "cod" /\ CodNext
          /\ UNCHANGED <<accessVars, registrationVars, rateVars, deskVars, outletVars, ledgerVars,
                         numberVars>>
       \/ /\ play.of = "numbers" /\ NumberNext
          /\ UNCHANGED <<accessVars, registrationVars, rateVars, deskVars, outletVars, ledgerVars,
                         codVars>>

PlaySpec == PlayInit /\ [][PlayNext]_<<play, plays>>

-----------------------------------------------------------------------------
\* The desk that is played is well typed; the others stand still.
DesksTypeOK ==
    CASE play.of = "access" -> AccessTypeOK
      [] play.of = "registration" -> RegistrationTypeOK
      [] play.of = "rates" -> RateTypeOK
      [] play.of = "labels" -> DeskTypeOK
      [] play.of = "outlet" -> OutletTypeOK
      [] play.of = "ledger" -> LedgerTypeOK
      [] play.of = "cod" -> CodTypeOK
      [] play.of = "numbers" -> NumberTypeOK
=============================================================================
