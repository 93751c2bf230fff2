-------------------------- MODULE MCStoreDesks_proofs -------------------------
(***************************************************************************)
(* The run that plays in one of eight modules, and the theorems about      *)
(* them: each of its behaviours is a behaviour of all eight, so whatever   *)
(* is proved of a module for any requests holds of the run, whichever      *)
(* module it plays in and whoever takes part.                              *)
(***************************************************************************)
EXTENDS MCStoreDesks, StoreRecords_proofs, ShippingDesk_proofs, LedgerBook_proofs,
        CodTotals_proofs

\* A play starts where each module starts, the others at one of its states.
LEMMA PlayStarts ==
    ASSUME PlayInit
    PROVE  /\ play \in Plays
           /\ AccessInit /\ RegistrationInit /\ RateInit /\ DeskInit /\ OutletInit
           /\ LedgerInit /\ CodInit /\ NumberInit
<1>1. play \in Plays /\ AccessInit /\ RegistrationInit /\ RateInit /\ LedgerInit
  BY DEF PlayInit
<1>2. DeskInit
  BY DEF PlayInit
<1>3. OutletInit
  BY DEF PlayInit
<1>4. CodInit
  BY DEF PlayInit
<1>5. NumberInit
  BY DEF PlayInit
<1> QED BY <1>1, <1>2, <1>3, <1>4, <1>5

\* A step of a play is a step of the module it plays in, and of the others none.
LEMMA PlaySteps ==
    ASSUME [PlayNext]_<<play, plays>>
    PROVE  /\ play' = play
           /\ [AccessNext]_accessVars /\ [RegistrationNext]_registrationVars
           /\ [RateNext]_rateVars /\ [DeskNext]_deskVars /\ [OutletNext]_outletVars
           /\ [LedgerNext]_ledgerVars /\ [CodNext]_codVars /\ [NumberNext]_numberVars
<1>1. CASE UNCHANGED <<play, plays>>
  BY <1>1 DEF plays
<1>2. CASE PlayNext
  BY <1>2 DEF PlayNext
<1> QED BY <1>1, <1>2

\* Every behaviour of the run is one of each of the modules, for any casts: what is proved of
\* them holds of it.
THEOREM PlaysAreBehaviours ==
    PlaySpec => /\ AccessSpec /\ RegistrationSpec /\ RateSpec /\ DeskSpec /\ OutletSpec
                /\ LedgerSpec /\ CodSpec /\ NumberSpec
<1>1. PlaySpec => AccessSpec
  BY PlayStarts, PlaySteps, PTL DEF PlaySpec, AccessSpec
<1>2. PlaySpec => RegistrationSpec
  BY PlayStarts, PlaySteps, PTL DEF PlaySpec, RegistrationSpec
<1>3. PlaySpec => RateSpec
  BY PlayStarts, PlaySteps, PTL DEF PlaySpec, RateSpec
<1>4. PlaySpec => DeskSpec
  BY PlayStarts, PlaySteps, PTL DEF PlaySpec, DeskSpec
<1>5. PlaySpec => OutletSpec
  BY PlayStarts, PlaySteps, PTL DEF PlaySpec, OutletSpec
<1>6. PlaySpec => LedgerSpec
  BY PlayStarts, PlaySteps, PTL DEF PlaySpec, LedgerSpec
<1>7. PlaySpec => CodSpec
  BY PlayStarts, PlaySteps, PTL DEF PlaySpec, CodSpec
<1>8. PlaySpec => NumberSpec
  BY PlayStarts, PlaySteps, PTL DEF PlaySpec, NumberSpec
<1> QED BY <1>1, <1>2, <1>3, <1>4, <1>5, <1>6, <1>7, <1>8

\* A behaviour plays in the same module for good.
LEMMA PlayStays == PlaySpec => [](play \in Plays)
<1>1. PlayInit => play \in Plays
  BY PlayStarts
<1>2. play \in Plays /\ [PlayNext]_<<play, plays>> => (play \in Plays)'
  BY PlaySteps DEF Plays
<1> QED BY <1>1, <1>2, PTL DEF PlaySpec

\* Whichever module a behaviour plays in, its state is typed.
THEOREM DesksTyped == PlaySpec => []DesksTypeOK
<1> DEFINE Typed == /\ AccessTypeOK /\ RegistrationTypeOK /\ RateTypeOK /\ DeskTypeOK
                    /\ OutletTypeOK /\ LedgerTypeOK /\ CodTypeOK /\ NumberTypeOK
<1>1. PlaySpec => []Typed
  BY PlaysAreBehaviours, AccessTypeCorrect, RegistrationTypeCorrect, RateTypeCorrect,
     DeskTypeCorrect, OutletTypeCorrect, LedgerTypeCorrect, CodTypeCorrect,
     NumberTypeCorrect, PTL
<1>2. play \in Plays /\ Typed => DesksTypeOK
  BY DEF Plays, DesksTypeOK
<1> QED BY <1>1, <1>2, PlayStays, PTL

\* The promises of all modules at once: who governs a store, retries, addresses, limits,
\* decisions, queues, circles, invoices, drafts, saves, books, amounts and numbers.
THEOREM DesksKeepPromises ==
    PlaySpec => /\ [](/\ RetryAnswersAsFirst /\ AddressesAreProved /\ LimitsHold
                      /\ DecisionsStand /\ DeskAddsUp /\ NoCircularWait /\ DraftsStand
                      /\ BooksBalance /\ CodTotalsHold /\ NumbersFollow)
                /\ StoreRules /\ InvoiceStands /\ SavesAreMeant
<1>1. PlaySpec => [](/\ RetryAnswersAsFirst /\ AddressesAreProved /\ LimitsHold
                     /\ DecisionsStand /\ DeskAddsUp /\ NoCircularWait /\ DraftsStand
                     /\ BooksBalance /\ CodTotalsHold /\ NumbersFollow)
  BY PlaysAreBehaviours, RetriesAnswered, AddressesAlwaysProved, LimitsAlwaysHold,
     DecisionsAlwaysStand, DeskAlwaysAddsUp, NobodyWaitsInCircle, DraftsAlwaysStand,
     BooksAlwaysBalance, AmountsHold, NumbersAlwaysFollow, PTL
<1>2. PlaySpec => StoreRules /\ InvoiceStands /\ SavesAreMeant
  BY PlaysAreBehaviours, StoresRuled, InvoicesAlwaysStand, SavesAlwaysMeant
<1> QED BY <1>1, <1>2
=============================================================================
