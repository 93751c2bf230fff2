----------------------------- MODULE OutletDesk -----------------------------
(***************************************************************************)
(* An outlet of a store up to the moment its parcels are ordered: the      *)
(* Mengantar account it works with (its own, or the platform's), its       *)
(* pickup points, and the drafts and estimates its staff makes meanwhile.  *)
(*                                                                         *)
(* Drafts, estimates and pickup points ask Mengantar between two           *)
(* transactions.  The first one notes under which authority the question   *)
(* was asked (the source and the version of the account); the second locks *)
(* the outlet and compares.  An admin may replace the account or move the  *)
(* pickup points in between.  OrderSubmission goes on where an order is    *)
(* queued here.                                                            *)
(*                                                                         *)
(* An area of departure is part of its pickup point, a destination part of *)
(* the form.  Rate limits are in RateLimits.                               *)
(***************************************************************************)
EXTENDS Naturals, Sequences, FiniteSetsExt, SequencesExt

CONSTANTS
    Pickups,        \* pickup addresses at Mengantar
    OwnAccounts,    \* accounts the store may connect
    PlatformAllowed, \* the store's credential policy, which never changes
    PlatformAccount, PlatformPickup,
    Saves, Adds, Quotings, Orderings,
                    \* requests that save a draft, add a pickup point, estimate, order
    FormOf,         \* the form of a save: [id, pickup, phone, sure]
    TargetOf,       \* the pickup that is added, the shipment that is estimated or ordered
    Stamps,         \* the times an account may be connected at; two may share one
    MaxVersion,     \* how often the authority changes (a bound for TLC)
    MaxQuotes,      \* how often a shipment is estimated (a bound for TLC)
    Nothing

Clerks == Saves \cup Adds \cup Quotings \cup Orderings
Drafts == {FormOf[s].id : s \in Saves}
MengantarAccounts == OwnAccounts \cup {PlatformAccount}

Sources == {"private", "platform_default"}
Authorities == [source : Sources, version : 1 .. MaxVersion, stamp : Stamps \cup {Nothing},
                from : Pickups \cup {Nothing}, who : MengantarAccounts]
OpenDrafts == [status : {"DRAFT", "ESTIMATED", "SUBMISSION_QUEUED"}, pickup : Pickups,
               phone : {FormOf[s].phone : s \in Saves}]

ASSUME OutletAssumption ==
    /\ PlatformAllowed \in BOOLEAN
    /\ PlatformPickup \in Pickups /\ PlatformAccount \notin OwnAccounts
    /\ Nothing \notin Pickups \cup MengantarAccounts \cup Stamps \cup Clerks
                      \cup OpenDrafts \cup Authorities
    /\ MaxVersion \in Nat \ {0} /\ MaxQuotes \in Nat
    /\ Saves \cap (Adds \cup Quotings \cup Orderings) = {}
    /\ Adds \cap (Quotings \cup Orderings) = {} /\ Quotings \cap Orderings = {}
    /\ \A s \in Saves : FormOf[s].pickup \in Pickups \cup {Nothing} /\ FormOf[s].sure \in BOOLEAN
    /\ \A r \in Adds : TargetOf[r] \in Pickups
    /\ \A r \in Quotings \cup Orderings : TargetOf[r] \in Drafts

VARIABLES
    account,  \* the outlet's own connection, if it has one
    stamp,    \* mengantar_connections.updated_at
    version,  \* outlets.mengantar_authority_version
    points,   \* outlet_pickup_points
    main,     \* the one with is_default
    mirror,   \* outlets.default_pickup_address_id and default_origin_area_id
    draft,    \* shipments with their drafts
    quotes,   \* the estimates of a shipment, oldest first
    order,    \* the provider order of a shipment: the estimate it names, who places it
    outletLock, draftLock, \* the rows held FOR UPDATE across statements
    stage,    \* each request: where it is,
    asked,    \*   under which authority and of whom it asked Mengantar,
    named,    \*   the estimate its page showed,
    reply     \*   what it was told

outletVars == <<account, stamp, version, points, main, mirror, draft, quotes, order,
                outletLock, draftLock, stage, asked, named, reply>>

Replies == {"saved", "conflict", "duplicate", "changed", "unavailable", "ordered", "refused"}

OutletTypeOK ==
    /\ account \in OwnAccounts \cup {Nothing}
    /\ stamp \in Stamps \cup {Nothing}
    /\ (account = Nothing) = (stamp = Nothing)
    /\ version \in 1 .. MaxVersion
    /\ points \subseteq Pickups
    /\ main \in points \cup {Nothing} /\ (main = Nothing) = (points = {})
    /\ mirror = main
    /\ draft \in [Drafts -> OpenDrafts \cup {Nothing}]
    /\ quotes \in [Drafts -> Seq([source : Sources, who : MengantarAccounts])]
    /\ \A d \in Drafts :
          /\ Len(quotes[d]) <= MaxQuotes
          /\ order[d] # Nothing =>
                draft[d] # Nothing /\ draft[d].status = "SUBMISSION_QUEUED"
    /\ order \in [Drafts -> [quote : 1 .. MaxQuotes, who : MengantarAccounts] \cup {Nothing}]
    /\ outletLock \in Quotings \cup {Nothing}
    /\ draftLock \in [Drafts -> Orderings \cup {Nothing}]
    /\ stage \in [Clerks -> {"idle", "asked", "checked", "locked"}]
    /\ \A r \in Quotings \cup Orderings : stage[r] = "locked" =>
          IF r \in Quotings THEN outletLock = r ELSE draftLock[TargetOf[r]] = r
    /\ asked \in [Clerks -> Authorities \cup {Nothing}]
    /\ named \in [Orderings -> 0 .. MaxQuotes]
    /\ reply \in [Saves \cup Orderings -> Replies \cup {Nothing}]

OutletInit ==
    /\ account \in (IF PlatformAllowed THEN {Nothing} ELSE OwnAccounts)
    /\ stamp \in (IF account = Nothing THEN {Nothing} ELSE Stamps)
    /\ version = 1
    /\ \E p \in Pickups : points = {p} /\ main = p /\ mirror = p
    /\ draft = [d \in Drafts |-> Nothing]
    /\ quotes = [d \in Drafts |-> <<>>]
    /\ order = [d \in Drafts |-> Nothing]
    /\ outletLock = Nothing
    /\ draftLock = [d \in Drafts |-> Nothing]
    /\ stage = [r \in Clerks |-> "idle"]
    /\ asked = [r \in Clerks |-> Nothing]
    /\ named = [r \in Orderings |-> 0]
    /\ reply = [s \in Saves \cup Orderings |-> Nothing]

-----------------------------------------------------------------------------
(* The account of the outlet *)

\* An outlet without an own account has the platform's, if the store may use that.
Connected == account # Nothing \/ PlatformAllowed
Who == IF account = Nothing THEN PlatformAccount ELSE account
Source == IF account = Nothing THEN "platform_default" ELSE "private"

\* Where the account says a parcel leaves from.
From == IF account = Nothing THEN PlatformPickup ELSE mirror

Authority == [source |-> Source, version |-> version, stamp |-> stamp, from |-> From, who |-> Who]

\* Mutant of SameAuthority: the kind of account is compared, not the account.
SourceOnly(a, b) == a.source = b.source

SameAuthority(a, b) == a.source = b.source /\ a.version = b.version /\ a.stamp = b.stamp

Ready == mirror # Nothing /\ Connected

\* A statement that changes the outlet, or decides about it, waits for its row.
OutletFree == outletLock = Nothing
Bump == version < MaxVersion /\ version' = version + 1

clerkVars == <<stage, asked, named, reply>>
paperVars == <<draft, quotes, order, outletLock, draftLock>>

-----------------------------------------------------------------------------
(* Settings *)

ReplaceApiKey(k) ==
    /\ OutletFree
    /\ account' = k
    /\ stamp' \in Stamps
    /\ Bump
    /\ UNCHANGED <<points, main, mirror, paperVars, clerkVars>>

RestorePlatformDefault ==
    /\ OutletFree
    /\ PlatformAllowed /\ account # Nothing
    /\ account' = Nothing /\ stamp' = Nothing
    /\ Bump
    /\ UNCHANGED <<points, main, mirror, paperVars, clerkVars>>

SetDefaultPickup(p) ==
    /\ OutletFree
    /\ p \in points \ {main}
    /\ main' = p /\ mirror' = p
    /\ Bump
    /\ UNCHANGED <<account, stamp, points, paperVars, clerkVars>>

\* Mutant of HeldByDrafts: an estimated shipment counts as on its way.
HeldByNewDrafts(p) ==
    \E d \in Drafts : draft[d] # Nothing /\ draft[d].pickup = p /\ draft[d].status = "DRAFT"

HeldByDrafts(p) ==
    \E d \in Drafts : /\ draft[d] # Nothing /\ draft[d].pickup = p
                      /\ draft[d].status \in {"DRAFT", "ESTIMATED"}

\* Mutant of RemovePickup: the outlet keeps the pair of a default that is gone.
RemoveUnmirrored(p) ==
    /\ OutletFree
    /\ p \in points /\ (p = main => points = {p})
    /\ ~HeldByDrafts(p)
    /\ points' = points \ {p}
    /\ main' = IF p = main THEN Nothing ELSE main
    /\ UNCHANGED <<account, stamp, version, mirror, paperVars, clerkVars>>

RemovePickup(p) ==
    /\ OutletFree
    /\ p \in points /\ (p = main => points = {p})
    /\ ~HeldByDrafts(p)
    /\ points' = points \ {p}
    /\ IF p = main
       THEN main' = Nothing /\ mirror' = Nothing /\ Bump
       ELSE UNCHANGED <<main, mirror, version>>
    /\ UNCHANGED <<account, stamp, paperVars, clerkVars>>

\* The account answers with its pickup addresses.  Any address may be among them.
Ask(r) ==
    /\ stage[r] = "idle"
    /\ Connected
    /\ asked' = [asked EXCEPT ![r] = Authority]
    /\ stage' = [stage EXCEPT ![r] = "asked"]

AskPickups(r) ==
    /\ Ask(r)
    /\ UNCHANGED <<account, stamp, version, points, main, mirror, paperVars, named, reply>>

Return(r) ==
    /\ stage' = [stage EXCEPT ![r] = "idle"]
    /\ asked' = [asked EXCEPT ![r] = Nothing]

\* The first one becomes the default; adding one again refreshes it.
AddPickup(r) ==
    LET p == TargetOf[r]
    IN /\ stage[r] = "asked"
       /\ OutletFree
       /\ points' = points \cup {p}
       /\ main' = IF points = {} THEN p ELSE main
       /\ mirror' = main'
       /\ IF main' = p THEN Bump ELSE UNCHANGED version
       /\ Return(r)
       /\ UNCHANGED <<account, stamp, paperVars, named, reply>>

-----------------------------------------------------------------------------
(* Drafts *)

\* The destination is checked with Mengantar.
CheckArea(s) ==
    /\ Ask(s)
    /\ reply' = [reply EXCEPT ![s] = Nothing]
    /\ UNCHANGED <<account, stamp, version, points, main, mirror, paperVars, named>>

Tell(s, answer) ==
    /\ reply' = [reply EXCEPT ![s] = answer]
    /\ Return(s)
    /\ UNCHANGED <<account, stamp, version, points, main, mirror, quotes, order, outletLock,
                   draftLock, named>>

\* The shipment that has the id of the form: the same one, leaving from pickup p?
SameDraft(f, p) == draft[f.id].phone = f.phone /\ draft[f.id].pickup = p

\* The pickup a form names, or else the default.
Resolved(f) == IF f.pickup = Nothing \/ points = {} THEN main ELSE f.pickup
PickupGone(f) == points # {} /\ Resolved(f) \notin points

\* The first look for a repeated form does not resolve its pickup.
FindReplay(s) ==
    LET f == FormOf[s]
    IN /\ stage[s] = "asked"
       /\ IF draft[f.id] = Nothing
          THEN /\ stage' = [stage EXCEPT ![s] = "checked"]
               /\ UNCHANGED <<account, stamp, version, points, main, mirror, quotes, order,
                              outletLock, draftLock, asked, named, reply>>
          ELSE Tell(s, IF SameDraft(f, Nothing) THEN "saved" ELSE "conflict")
       /\ UNCHANGED draft

\* Mutant of PhoneSeen: a shipment is looked for by its id.
PhoneUnseen(f) == draft[f.id] # Nothing

\* A recent shipment goes to the same phone.
PhoneSeen(f) == \E d \in Drafts : draft[d] # Nothing /\ draft[d].phone = f.phone

CreateDraft(s, f) ==
    IF PickupGone(f) THEN Tell(s, "unavailable") /\ UNCHANGED draft
    ELSE IF draft[f.id] # Nothing
    THEN /\ Tell(s, IF SameDraft(f, Resolved(f)) THEN "saved" ELSE "conflict")
         /\ UNCHANGED draft
    ELSE IF ~Ready THEN Tell(s, "unavailable") /\ UNCHANGED draft
    ELSE /\ Tell(s, "saved")
         /\ draft' = [draft EXCEPT ![f.id] =
                         [status |-> "DRAFT", pickup |-> Resolved(f), phone |-> f.phone]]

\* The rest of the transaction, with the outlet locked to its end.
SaveDraft(s) ==
    LET f == FormOf[s]
    IN /\ stage[s] = "checked"
       /\ OutletFree
       /\ IF ~Connected THEN Tell(s, "unavailable") /\ UNCHANGED draft
          ELSE IF ~SameAuthority(asked[s], Authority) THEN Tell(s, "changed") /\ UNCHANGED draft
          ELSE IF ~f.sure /\ PhoneSeen(f) THEN Tell(s, "duplicate") /\ UNCHANGED draft
          ELSE CreateDraft(s, f)

-----------------------------------------------------------------------------
(* Estimates *)

Open(d) == draft[d] # Nothing /\ draft[d].status \in {"DRAFT", "ESTIMATED"}

\* The platform's account ships from its own address only.
PickupFits(d) == account = Nothing => draft[d].pickup = PlatformPickup

AskEstimate(r) ==
    /\ Open(TargetOf[r]) /\ PickupFits(TargetOf[r])
    /\ Ask(r)
    /\ UNCHANGED <<account, stamp, version, points, main, mirror, paperVars, named, reply>>

LockOutlet(r) ==
    /\ stage[r] = "asked"
    /\ OutletFree
    /\ IF Connected /\ SameAuthority(asked[r], Authority) /\ asked[r].from = From
       THEN /\ outletLock' = r
            /\ stage' = [stage EXCEPT ![r] = "locked"]
            /\ UNCHANGED asked
       ELSE Return(r) /\ UNCHANGED outletLock
    /\ UNCHANGED <<account, stamp, version, points, main, mirror, draft, quotes, order,
                   draftLock, named, reply>>

DraftFree(d) == draftLock[d] = Nothing

AppendEstimate(r) ==
    LET d == TargetOf[r]
    IN /\ stage[r] = "locked"
       /\ DraftFree(d)
       /\ IF Open(d)
          THEN /\ Len(quotes[d]) < MaxQuotes
               /\ draft' = [draft EXCEPT ![d].status = "ESTIMATED"]
               /\ quotes' = [quotes EXCEPT ![d] =
                                Append(@, [source |-> asked[r].source, who |-> asked[r].who])]
          ELSE UNCHANGED <<draft, quotes>>
       /\ outletLock' = Nothing
       /\ Return(r)
       /\ UNCHANGED <<account, stamp, version, points, main, mirror, order, draftLock, named,
                      reply>>

-----------------------------------------------------------------------------
(* Orders *)

\* The page shows the newest estimate, and the operator confirms it.
ConfirmOrder(r) ==
    /\ stage[r] = "idle"
    /\ Open(TargetOf[r]) /\ quotes[TargetOf[r]] # <<>>
    /\ named' = [named EXCEPT ![r] = Len(quotes[TargetOf[r]])]
    /\ reply' = [reply EXCEPT ![r] = Nothing]
    /\ stage' = [stage EXCEPT ![r] = "asked"]
    /\ UNCHANGED <<account, stamp, version, points, main, mirror, paperVars, asked>>

Refuse(r) == Return(r) /\ reply' = [reply EXCEPT ![r] = "refused"]

\* An older estimate than the newest is refused.
Orderable(d, n) ==
    /\ draft[d].status = "ESTIMATED"
    /\ n = Len(quotes[d])
    /\ mirror # Nothing

\* One statement selects the estimates and locks the shipment.  It sees the estimates that
\* are there when it starts, however long it then waits for the lock.
StartSelection(r) ==
    /\ stage[r] = "asked"
    /\ IF Orderable(TargetOf[r], named[r])
       THEN stage' = [stage EXCEPT ![r] = "checked"] /\ UNCHANGED <<asked, reply>>
       ELSE Refuse(r)
    /\ UNCHANGED <<account, stamp, version, points, main, mirror, paperVars, named>>

\* Of a shipment it waited for, the statement reads the row again, and only that.
LockSelection(r) ==
    LET d == TargetOf[r]
    IN /\ stage[r] = "checked"
       /\ DraftFree(d)
       /\ IF draft[d].status = "ESTIMATED"
          THEN /\ draftLock' = [draftLock EXCEPT ![d] = r]
               /\ stage' = [stage EXCEPT ![r] = "locked"]
               /\ UNCHANGED <<asked, reply>>
          ELSE Refuse(r) /\ UNCHANGED draftLock
       /\ UNCHANGED <<account, stamp, version, points, main, mirror, draft, quotes, order,
                      outletLock, named>>

\* The account of the outlet is compared by its source.
SourceStands(d, n) == Connected /\ quotes[d][n].source = Source

\* Mutant of OrderPolicy: which estimate is the newest was settled by the selection.
OrderPolicyAsSelected(d, n) == SourceStands(d, n) /\ draft[d].pickup = mirror

\* What the database demands of a provider order when it is written.
OrderPolicy(d, n) ==
    /\ n = Len(quotes[d])
    /\ SourceStands(d, n)
    /\ draft[d].pickup = mirror

\* The outlet is locked, the account resolved and the order written.
QueueOrder(r) ==
    LET d == TargetOf[r]
        n == named[r]
    IN /\ stage[r] = "locked"
       /\ OutletFree
       /\ IF SourceStands(d, n) /\ PickupFits(d) /\ OrderPolicy(d, n)
          THEN /\ order' = [order EXCEPT ![d] = [quote |-> n, who |-> Who]]
               /\ draft' = [draft EXCEPT ![d].status = "SUBMISSION_QUEUED"]
               /\ reply' = [reply EXCEPT ![r] = "ordered"]
               /\ Return(r)
          ELSE Refuse(r) /\ UNCHANGED <<order, draft>>
       /\ draftLock' = [draftLock EXCEPT ![d] = Nothing]
       /\ UNCHANGED <<account, stamp, version, points, main, mirror, quotes, outletLock, named>>

-----------------------------------------------------------------------------
\* Mengantar or the process fails, or the database ends a deadlock: an estimate holds the
\* outlet and wants the shipment, an order the other way round.
GiveUp(r) ==
    /\ stage[r] # "idle"
    /\ Return(r)
    /\ outletLock' = IF outletLock = r THEN Nothing ELSE outletLock
    /\ draftLock' = [d \in Drafts |-> IF draftLock[d] = r THEN Nothing ELSE draftLock[d]]
    /\ UNCHANGED <<account, stamp, version, points, main, mirror, draft, quotes, order, named,
                   reply>>

OutletNext ==
    \/ \E k \in OwnAccounts : ReplaceApiKey(k)
    \/ RestorePlatformDefault
    \/ \E p \in Pickups : SetDefaultPickup(p) \/ RemovePickup(p)
    \/ \E r \in Adds : AskPickups(r) \/ AddPickup(r)
    \/ \E s \in Saves : CheckArea(s) \/ FindReplay(s) \/ SaveDraft(s)
    \/ \E r \in Quotings : AskEstimate(r) \/ LockOutlet(r) \/ AppendEstimate(r)
    \/ \E r \in Orderings : ConfirmOrder(r) \/ StartSelection(r) \/ LockSelection(r)
                            \/ QueueOrder(r)
    \/ \E r \in Clerks : GiveUp(r)

OutletSpec == OutletInit /\ [][OutletNext]_outletVars

-----------------------------------------------------------------------------
(* Properties *)

\* "Deleting the point underneath it would send Mengantar an address it no longer has"
\* (PickupPointInUseError): the pickup of a shipment that is not ordered yet is one of the
\* outlet's, whoever removes points while the draft is saved.
OpenDraftKeepsPickup ==
    \A d \in Drafts : Open(d) => draft[d].pickup \in points

Creates(s) ==
    /\ draft[FormOf[s].id] = Nothing /\ draft'[FormOf[s].id] # Nothing
    /\ stage[s] = "checked" /\ stage'[s] # "checked"

\* What Mengantar said is used only while the outlet still works with the account that
\* said it: a draft is created, and an estimate recorded, under the account that was
\* asked, for a pickup that account ships from.
StaleAnswersRefused ==
    [][/\ \A s \in Saves : Creates(s) => asked[s].who = Who
       /\ \A d \in Drafts : quotes'[d] # quotes[d] =>
             Last(quotes'[d]).who = Who /\ PickupFits(d)]_outletVars

\* "Bind provider-order snapshots to the batch, latest estimate/service": a shipment is
\* ordered at its newest estimate, also when another one is made while the order waits for
\* the shipment, and at an account of the kind that made it.
OrderedAtNewestQuote ==
    \A d \in Drafts : order[d] # Nothing =>
        /\ order[d].quote = Len(quotes[d])
        /\ (order[d].who = PlatformAccount)
              = (quotes[d][order[d].quote].source = "platform_default")

\* A number that was sent to recently gets a second shipment only from somebody who was
\* asked and is sure, although two forms may be saved at once.
SecondShipmentIsMeant ==
    [][\A s \in Saves : Creates(s) =>
          \/ FormOf[s].sure
          \/ \A d \in Drafts : draft[d] # Nothing => draft[d].phone # FormOf[s].phone]_outletVars

\* What a draft or an order stands on stays under it: its pickup point, its quote.
DraftsStand == OpenDraftKeepsPickup /\ OrderedAtNewestQuote

\* What is saved is what was meant: with the account that answered, and not by accident twice.
SavesAreMeant == StaleAnswersRefused /\ SecondShipmentIsMeant

\* "They previously required the outlet default alone, which [...] made the database refuse
\* every COD estimate and order from a non-default pickup point": an order at the newest
\* estimate, made by an account of the kind the outlet still has, for a pickup point of the
\* outlet that its account ships from, is not refused.
EveryPickupPointShips ==
    [][\A r \in Orderings :
          LET d == TargetOf[r]
          IN stage[r] = "locked" /\ reply'[r] = "refused" =>
                \/ named[r] # Len(quotes[d])
                \/ ~SourceStands(d, named[r])
                \/ draft[d].pickup \notin points \/ ~PickupFits(d)]_outletVars

-----------------------------------------------------------------------------
(* What makes these invariants inductive *)

\* The page of an order showed an estimate, and neither it nor the shipment goes away.
ShownIsThere ==
    \A r \in Orderings : stage[r] # "idle" =>
        draft[TargetOf[r]] # Nothing /\ named[r] \in 1 .. Len(quotes[TargetOf[r]])

\* Whoever waits for an answer of Mengantar knows whom it asked.
AskedIsNoted == \A r \in Clerks \ Orderings : stage[r] # "idle" => asked[r] # Nothing

\* The version tells two accounts apart: as long as it is the one that was noted, the outlet
\* works with the account that was asked.
VersionTellsAccount ==
    \A r \in Clerks : asked[r] # Nothing =>
        /\ asked[r].version <= version
        /\ asked[r].version = version => asked[r].who = Who /\ asked[r].source = Source

\* While an estimate has the outlet, nobody changes its account; and an estimate that the
\* platform's account was asked for is one for its own address.
EstimateHoldsAccount ==
    \A r \in Quotings :
        /\ stage[r] = "locked" => asked[r].version = version
        /\ asked[r] # Nothing =>
              /\ draft[TargetOf[r]] # Nothing
              /\ asked[r].source = "platform_default" =>
                    draft[TargetOf[r]].pickup = PlatformPickup

OutletInv ==
    DraftsStand /\ ShownIsThere /\ AskedIsNoted /\ VersionTellsAccount /\ EstimateHoldsAccount
=============================================================================
