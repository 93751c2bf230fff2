------------------------ MODULE ShippingDesk_proofs -------------------------
(***************************************************************************)
(* The two desks of a store where requests wait for the rows of each       *)
(* other: drafts, estimates and orders of an outlet, and labels, handovers *)
(* and invoices. Each has its type invariant, the invariant that makes its *)
(* promises inductive, and the promises themselves.                        *)
(***************************************************************************)
EXTENDS OutletDesk, LabelDesk, FiniteSetTheorems, WellFoundedInduction, TLAPS

-----------------------------------------------------------------------------
(* An outlet up to the order (OutletDesk) *)

\* The parts of the type invariant that the steps need.
LEMMA OutletParts ==
    ASSUME OutletTypeOK
    PROVE  /\ account \in OwnAccounts \cup {Nothing} /\ stamp \in Stamps \cup {Nothing}
           /\ version \in Nat /\ version \in 1 .. MaxVersion
           /\ points \subseteq Pickups /\ mirror = main
           /\ main \in points \cup {Nothing} /\ (main = Nothing) = (points = {})
           /\ \A d \in Drafts : draft[d] # Nothing => draft[d] \in OpenDrafts
           /\ \A d \in Drafts :
                 /\ Len(quotes[d]) \in Nat /\ Len(quotes[d]) <= MaxQuotes
                 /\ quotes[d] \in Seq([source : Sources, who : MengantarAccounts])
           /\ \A r \in Clerks : asked[r] # Nothing => asked[r] \in Authorities
<1>1. /\ account \in OwnAccounts \cup {Nothing} /\ stamp \in Stamps \cup {Nothing}
      /\ version \in Nat /\ version \in 1 .. MaxVersion
      /\ points \subseteq Pickups /\ mirror = main
      /\ main \in points \cup {Nothing} /\ (main = Nothing) = (points = {})
  BY OutletAssumption DEF OutletTypeOK
<1>2. \A d \in Drafts : draft[d] # Nothing => draft[d] \in OpenDrafts
  BY DEF OutletTypeOK
<1>3. \A d \in Drafts :
         /\ quotes[d] \in Seq([source : Sources, who : MengantarAccounts])
         /\ Len(quotes[d]) <= MaxQuotes
  BY DEF OutletTypeOK
<1>4. \A d \in Drafts : Len(quotes[d]) \in Nat
  BY <1>3
<1>5. \A r \in Clerks : asked[r] # Nothing => asked[r] \in Authorities
  BY DEF OutletTypeOK
<1> QED BY <1>1, <1>2, <1>3, <1>4, <1>5

\* What an outlet is, and what the account says of it.
LEMMA AuthorityType ==
    ASSUME OutletTypeOK, Connected
    PROVE  /\ Authority \in Authorities /\ Authority # Nothing
           /\ Authority.source = Source /\ Authority.version = version /\ Authority.who = Who
           /\ Authority.stamp = stamp /\ Authority.from = From
           /\ Who \in MengantarAccounts /\ Source \in Sources
           /\ (Who = PlatformAccount) = (Source = "platform_default")
<1>1. /\ account \in OwnAccounts \cup {Nothing} /\ stamp \in Stamps \cup {Nothing}
      /\ version \in 1 .. MaxVersion
      /\ mirror \in Pickups \cup {Nothing}
  BY OutletParts
<1>2. Who \in MengantarAccounts /\ Source \in Sources /\ From \in Pickups \cup {Nothing}
  BY <1>1, OutletAssumption DEF Who, Source, From, MengantarAccounts, Sources
<1>3. (Who = PlatformAccount) = (Source = "platform_default")
  BY <1>1, OutletAssumption DEF Who, Source
<1>4. Authority \in Authorities
  BY <1>1, <1>2 DEF Authority, Authorities
<1> QED BY <1>2, <1>3, <1>4, OutletAssumption DEF Authority

\* A form has an id among the shipments, and its target is one.
LEMMA FormsName ==
    /\ \A s \in Saves : /\ FormOf[s].id \in Drafts /\ FormOf[s].pickup \in Pickups \cup {Nothing}
                        /\ FormOf[s].phone \in {FormOf[r].phone : r \in Saves}
    /\ \A r \in Adds : TargetOf[r] \in Pickups
    /\ \A r \in Quotings \cup Orderings : TargetOf[r] \in Drafts
BY OutletAssumption DEF Drafts

\* A shipment that changes its status is a shipment with the same pickup.
LEMMA StatusOfDraft ==
    ASSUME NEW x \in OpenDrafts, NEW s \in {"DRAFT", "ESTIMATED", "SUBMISSION_QUEUED"}
    PROVE  /\ [x EXCEPT !.status = s] \in OpenDrafts /\ [x EXCEPT !.status = s] # Nothing
           /\ [x EXCEPT !.status = s].pickup = x.pickup
           /\ [x EXCEPT !.status = s].status = s
<1>1. [x EXCEPT !.status = s] \in OpenDrafts
  BY DEF OpenDrafts
<1> QED BY <1>1, OutletAssumption DEF OpenDrafts

\* An outlet begins without drafts, orders or requests.
LEMMA OutletInitType == OutletInit => OutletTypeOK
<1> SUFFICES ASSUME OutletInit PROVE OutletTypeOK
  OBVIOUS
<1> USE OutletAssumption
<1>1. account \in OwnAccounts \cup {Nothing} /\ stamp \in Stamps \cup {Nothing}
      /\ (account = Nothing) = (stamp = Nothing)
  BY DEF OutletInit, MengantarAccounts
<1>2. quotes \in [Drafts -> Seq([source : Sources, who : MengantarAccounts])]
      /\ \A d \in Drafts : Len(quotes[d]) <= MaxQuotes /\ order[d] = Nothing
  BY DEF OutletInit
<1>3. \A r \in Clerks : stage[r] = "idle"
  BY DEF OutletInit
<1>4. \A r \in Quotings \cup Orderings : r \in Clerks
  BY DEF Clerks
<1> QED BY <1>1, <1>2, <1>3, <1>4 DEF OutletInit, OutletTypeOK

\* The clerks that the steps below are about.
LEMMA ClerkKinds ==
    /\ \A s \in Saves : s \in Clerks /\ s \notin Adds /\ s \notin Quotings /\ s \notin Orderings
    /\ \A s \in Adds : s \in Clerks /\ s \notin Saves /\ s \notin Quotings /\ s \notin Orderings
    /\ \A s \in Quotings : s \in Clerks /\ s \notin Saves /\ s \notin Adds /\ s \notin Orderings
    /\ \A s \in Orderings : s \in Clerks /\ s \notin Saves /\ s \notin Adds /\ s \notin Quotings
BY OutletAssumption DEF Clerks

\* A clerk that asks or returns keeps the types of what it notes.
LEMMA AskType ==
    ASSUME OutletTypeOK, NEW r \in Clerks \ Orderings, Ask(r)
    PROVE  /\ stage' \in [Clerks -> {"idle", "asked", "checked", "locked"}]
           /\ asked' \in [Clerks -> Authorities \cup {Nothing}]
           /\ stage'[r] = "asked"
           /\ \A q \in Clerks \ {r} : stage'[q] = stage[q] /\ asked'[q] = asked[q]
BY AuthorityType DEF Ask, OutletTypeOK

\* A request that returns is at rest, and the others are where they were.
LEMMA ReturnType ==
    ASSUME OutletTypeOK, NEW r \in Clerks, Return(r)
    PROVE  /\ stage' \in [Clerks -> {"idle", "asked", "checked", "locked"}]
           /\ asked' \in [Clerks -> Authorities \cup {Nothing}]
           /\ stage'[r] = "idle" /\ asked'[r] = Nothing
           /\ \A q \in Clerks \ {r} : stage'[q] = stage[q] /\ asked'[q] = asked[q]
BY DEF Return, OutletTypeOK

\* A save that is answered, and writes nothing else.
LEMMA TellType ==
    ASSUME OutletTypeOK, NEW s \in Saves, NEW a \in Replies, Tell(s, a), UNCHANGED draft
    PROVE  OutletTypeOK'
<1>1. s \in Clerks /\ Return(s)
  BY ClerkKinds DEF Tell
<1>2. /\ stage' \in [Clerks -> {"idle", "asked", "checked", "locked"}]
      /\ asked' \in [Clerks -> Authorities \cup {Nothing}]
      /\ stage'[s] = "idle"
      /\ \A q \in Clerks \ {s} : stage'[q] = stage[q]
  BY <1>1, ReturnType
<1>3. \A r \in Quotings \cup Orderings : r \in Clerks /\ r # s
  BY ClerkKinds
<1>4. reply' \in [Saves \cup Orderings -> Replies \cup {Nothing}]
  BY DEF Tell, OutletTypeOK
<1> QED BY <1>2, <1>3, <1>4 DEF Tell, OutletTypeOK

\* A new draft has a pickup point that the outlet has.
LEMMA CreateDraftType ==
    ASSUME OutletTypeOK, NEW s \in Saves, NEW f, f = FormOf[s], CreateDraft(s, f)
    PROVE  /\ OutletTypeOK'
           /\ draft'[f.id] # draft[f.id] =>
                 /\ draft[f.id] = Nothing
                 /\ draft'[f.id].pickup \in points
           /\ \A d \in Drafts \ {f.id} : draft'[d] = draft[d]
           /\ draft[f.id] # Nothing => draft'[f.id] = draft[f.id]
<1>0. f.id \in Drafts /\ f.pickup \in Pickups \cup {Nothing}
      /\ f.phone \in {FormOf[r].phone : r \in Saves}
  BY FormsName
<1>1. CASE UNCHANGED draft /\ \E a \in {"saved", "conflict", "unavailable"} : Tell(s, a)
  BY <1>1, TellType DEF Replies
<1>2. CASE ~(UNCHANGED draft /\ \E a \in {"saved", "conflict", "unavailable"} : Tell(s, a))
  <2> DEFINE new == [status |-> "DRAFT", pickup |-> Resolved(f), phone |-> f.phone]
  <2>1. ~PickupGone(f) /\ draft[f.id] = Nothing /\ Ready /\ Tell(s, "saved")
        /\ draft' = [draft EXCEPT ![f.id] = new]
    BY <1>2 DEF CreateDraft
  <2>2. points # {} /\ Resolved(f) \in points /\ points \subseteq Pickups
    BY <2>1, OutletParts DEF Ready, PickupGone
  <2>3. new \in OpenDrafts /\ new.pickup \in points
    BY <1>0, <2>2 DEF OpenDrafts
  <2> HIDE DEF new
  <2>4. draft' \in [Drafts -> OpenDrafts \cup {Nothing}]
    BY <2>1, <2>3 DEF OutletTypeOK
  <2>5. draft'[f.id] = new /\ \A d \in Drafts \ {f.id} : draft'[d] = draft[d]
    BY <1>0, <2>1 DEF OutletTypeOK
  <2>6. \A d \in Drafts : order[d] # Nothing => draft[d] # Nothing
         /\ draft[d].status = "SUBMISSION_QUEUED"
    BY DEF OutletTypeOK
  <2>7. order[f.id] = Nothing
    BY <1>0, <2>1, <2>6
  <2>8. s \in Clerks /\ Return(s) /\ \A r \in Quotings \cup Orderings : r \in Clerks /\ r # s
    BY <2>1, ClerkKinds DEF Tell
  <2>9. /\ stage' \in [Clerks -> {"idle", "asked", "checked", "locked"}]
        /\ asked' \in [Clerks -> Authorities \cup {Nothing}]
        /\ \A q \in Clerks \ {s} : stage'[q] = stage[q]
    BY <2>8, ReturnType
  <2>10. reply' \in [Saves \cup Orderings -> Replies \cup {Nothing}]
    BY <2>1 DEF Tell, OutletTypeOK, Replies
  <2>11. \A d \in Drafts : order'[d] # Nothing =>
            draft'[d] # Nothing /\ draft'[d].status = "SUBMISSION_QUEUED"
    BY <2>1, <2>5, <2>6, <2>7 DEF Tell
  <2>12. OutletTypeOK'
    <3>1. UNCHANGED <<account, stamp, version, points, main, mirror, quotes, order, outletLock,
                      draftLock, named>>
      BY <2>1 DEF Tell
    <3>2. \A r \in Quotings \cup Orderings : stage'[r] = stage[r]
      BY <2>8, <2>9
    <3>3. \A r \in Quotings \cup Orderings : stage'[r] = "locked" =>
             IF r \in Quotings THEN outletLock' = r ELSE draftLock'[TargetOf[r]] = r
      BY <3>1, <3>2 DEF OutletTypeOK
    <3>4. \A d \in Drafts : Len(quotes'[d]) <= MaxQuotes
      BY <3>1 DEF OutletTypeOK
    <3> QED BY <2>4, <2>9, <2>10, <2>11, <3>1, <3>3, <3>4 DEF OutletTypeOK
  <2> QED BY <2>1, <2>3, <2>5, <2>12
<1> QED BY <1>1, <1>2

\* A draft gets an estimate or an order: its status is all that changes, and an order goes
\* with the last status only.
LEMMA QuotesType ==
    ASSUME OutletTypeOK, NEW d \in Drafts, NEW r \in Quotings, asked[r] \in Authorities,
           Len(quotes[d]) < MaxQuotes,
           quotes' = [quotes EXCEPT ![d] =
                         Append(@, [source |-> asked[r].source, who |-> asked[r].who])]
    PROVE  /\ quotes' \in [Drafts -> Seq([source : Sources, who : MengantarAccounts])]
           /\ \A e \in Drafts : Len(quotes'[e]) <= MaxQuotes
           /\ \A e \in Drafts \ {d} : quotes'[e] = quotes[e]
           /\ Len(quotes'[d]) = Len(quotes[d]) + 1
           /\ quotes'[d][Len(quotes'[d])] = [source |-> asked[r].source, who |-> asked[r].who]
           /\ \A n \in 1 .. Len(quotes[d]) : quotes'[d][n] = quotes[d][n]
<1> DEFINE q == [source |-> asked[r].source, who |-> asked[r].who]
<1>1. q \in [source : Sources, who : MengantarAccounts]
  BY DEF Authorities
<1> HIDE DEF q
<1>2. quotes' = [quotes EXCEPT ![d] = Append(@, q)]
  BY DEF q
<1>3. quotes[d] \in Seq([source : Sources, who : MengantarAccounts])
  BY DEF OutletTypeOK
<1>4. /\ quotes'[d] = Append(quotes[d], q)
      /\ \A e \in Drafts \ {d} : quotes'[e] = quotes[e]
  BY <1>2 DEF OutletTypeOK
<1>5. /\ Append(quotes[d], q) \in Seq([source : Sources, who : MengantarAccounts])
      /\ Len(Append(quotes[d], q)) = Len(quotes[d]) + 1
      /\ Append(quotes[d], q)[Len(quotes[d]) + 1] = q
      /\ \A n \in 1 .. Len(quotes[d]) : Append(quotes[d], q)[n] = quotes[d][n]
      /\ Len(quotes[d]) \in Nat
  BY <1>1, <1>3
<1>6. \A e \in Drafts : Len(quotes[e]) <= MaxQuotes
  BY DEF OutletTypeOK
<1>7. quotes' \in [Drafts -> Seq([source : Sources, who : MengantarAccounts])]
  BY <1>2, <1>4, <1>5 DEF OutletTypeOK
<1>8. \A e \in Drafts : Len(quotes'[e]) <= MaxQuotes
  BY <1>4, <1>5, <1>6, OutletAssumption
<1>9. Len(quotes'[d]) = Len(quotes[d]) + 1
      /\ quotes'[d][Len(quotes'[d])] = q
      /\ \A n \in 1 .. Len(quotes[d]) : quotes'[d][n] = quotes[d][n]
  BY <1>4, <1>5
<1> QED BY <1>4, <1>7, <1>8, <1>9 DEF q

\* A draft that moves on changes its status and nothing else.
LEMMA StatusType ==
    ASSUME OutletTypeOK, NEW d \in Drafts, draft[d] # Nothing,
           NEW s \in {"DRAFT", "ESTIMATED", "SUBMISSION_QUEUED"},
           draft' = [draft EXCEPT ![d].status = s]
    PROVE  /\ draft' \in [Drafts -> OpenDrafts \cup {Nothing}]
           /\ draft'[d] # Nothing /\ draft'[d].status = s /\ draft'[d].pickup = draft[d].pickup
           /\ \A e \in Drafts \ {d} : draft'[e] = draft[e]
<1>1. draft[d] \in OpenDrafts
  BY OutletParts
<1>2. draft' = [draft EXCEPT ![d] = [draft[d] EXCEPT !.status = s]]
  OBVIOUS
<1> DEFINE x == [draft[d] EXCEPT !.status = s]
<1>3. x \in OpenDrafts /\ x # Nothing /\ x.pickup = draft[d].pickup /\ x.status = s
  BY <1>1, StatusOfDraft
<1> HIDE DEF x
<1>4. draft' = [draft EXCEPT ![d] = x]
  BY <1>2 DEF x
<1>5. draft \in [Drafts -> OpenDrafts \cup {Nothing}]
  BY DEF OutletTypeOK
<1>6. draft' \in [Drafts -> OpenDrafts \cup {Nothing}]
  BY <1>3, <1>4, <1>5
<1>7. draft'[d] = x /\ \A e \in Drafts \ {d} : draft'[e] = draft[e]
  BY <1>4, <1>5
<1> QED BY <1>3, <1>6, <1>7

\* Every step leaves the outlet typed, if the invariant holds before it.
LEMMA OutletNextType ==
    OutletTypeOK /\ OutletInv /\ [OutletNext]_outletVars => OutletTypeOK'
<1> SUFFICES ASSUME OutletTypeOK, OutletInv, [OutletNext]_outletVars PROVE OutletTypeOK'
  OBVIOUS
<1> USE OutletAssumption
<1>0. \A r \in Quotings \cup Orderings : stage[r] = "locked" =>
         IF r \in Quotings THEN outletLock = r ELSE draftLock[TargetOf[r]] = r
  BY DEF OutletTypeOK
\* What the settings change, as long as the locks and the papers stay.
<1>1. ASSUME UNCHANGED <<paperVars, clerkVars>>,
             account' \in OwnAccounts \cup {Nothing}, stamp' \in Stamps \cup {Nothing},
             (account' = Nothing) = (stamp' = Nothing), version' \in 1 .. MaxVersion,
             points' \subseteq Pickups, main' \in points' \cup {Nothing},
             (main' = Nothing) = (points' = {}), mirror' = main'
      PROVE  OutletTypeOK'
  BY <1>1 DEF paperVars, clerkVars, OutletTypeOK
<1>2. ASSUME Bump PROVE version' \in 1 .. MaxVersion
  BY <1>2, OutletParts DEF Bump
<1>3. ASSUME NEW k \in OwnAccounts, ReplaceApiKey(k) PROVE OutletTypeOK'
  <2>1. k # Nothing /\ stamp' # Nothing
    BY <1>3 DEF ReplaceApiKey, MengantarAccounts
  <2> QED BY <1>1, <1>2, <1>3, <2>1, OutletParts DEF ReplaceApiKey
<1>4. ASSUME RestorePlatformDefault PROVE OutletTypeOK'
  BY <1>1, <1>2, <1>4, OutletParts DEF RestorePlatformDefault
<1>5. ASSUME NEW p \in Pickups, SetDefaultPickup(p) PROVE OutletTypeOK'
  <2>1. (account = Nothing) = (stamp = Nothing) /\ p # Nothing /\ p \in points
    BY <1>5 DEF SetDefaultPickup, OutletTypeOK
  <2> QED BY <1>1, <1>2, <1>5, <2>1, OutletParts DEF SetDefaultPickup
<1>6. ASSUME NEW p \in Pickups, RemovePickup(p) PROVE OutletTypeOK'
  <2>1. (account = Nothing) = (stamp = Nothing) /\ p # Nothing /\ p \in points
        /\ points' = points \ {p}
    BY <1>6 DEF RemovePickup, OutletTypeOK
  <2>2. CASE p = main
    <3>1. points' = {} /\ main' = Nothing /\ mirror' = Nothing
      BY <1>6, <2>1, <2>2 DEF RemovePickup
    <3> QED BY <1>1, <1>2, <1>6, <2>1, <2>2, <3>1, OutletParts DEF RemovePickup
  <2>3. CASE p # main
    <3>1. main \in points' /\ main # Nothing
      BY <2>1, <2>3, OutletParts
    <3> QED BY <1>1, <1>6, <2>1, <2>3, <3>1, OutletParts DEF RemovePickup
  <2> QED BY <2>2, <2>3
\* What a clerk notes, as long as outlet and papers stay, and the locks of the others.
<1>7. ASSUME UNCHANGED <<account, stamp, version, points, main, mirror, draft, quotes, order>>,
             stage' \in [Clerks -> {"idle", "asked", "checked", "locked"}],
             asked' \in [Clerks -> Authorities \cup {Nothing}],
             named' \in [Orderings -> 0 .. MaxQuotes],
             reply' \in [Saves \cup Orderings -> Replies \cup {Nothing}],
             outletLock' \in Quotings \cup {Nothing},
             draftLock' \in [Drafts -> Orderings \cup {Nothing}],
             \A r \in Quotings \cup Orderings : stage'[r] = "locked" =>
                IF r \in Quotings THEN outletLock' = r ELSE draftLock'[TargetOf[r]] = r
      PROVE  OutletTypeOK'
  BY <1>7 DEF OutletTypeOK
<1>70. /\ stage \in [Clerks -> {"idle", "asked", "checked", "locked"}]
       /\ asked \in [Clerks -> Authorities \cup {Nothing}]
       /\ named \in [Orderings -> 0 .. MaxQuotes]
       /\ reply \in [Saves \cup Orderings -> Replies \cup {Nothing}]
       /\ outletLock \in Quotings \cup {Nothing}
       /\ draftLock \in [Drafts -> Orderings \cup {Nothing}]
  BY DEF OutletTypeOK
<1>71. ASSUME NEW r \in Clerks, stage'[r] # "locked",
              \A q \in Clerks \ {r} : stage'[q] = stage[q],
              UNCHANGED <<outletLock, draftLock>>
       PROVE  \A q \in Quotings \cup Orderings : stage'[q] = "locked" =>
                 IF q \in Quotings THEN outletLock' = q ELSE draftLock'[TargetOf[q]] = q
  BY <1>0, <1>71, ClerkKinds
<1>8. ASSUME NEW r \in Adds, AskPickups(r) PROVE OutletTypeOK'
  <2>1. r \in Clerks \ Orderings /\ r \notin Quotings /\ Ask(r)
    BY <1>8, ClerkKinds DEF AskPickups
  <2>2. UNCHANGED <<account, stamp, version, points, main, mirror, draft, quotes, order,
                    outletLock, draftLock, named>>
    BY <1>8 DEF AskPickups, paperVars
  <2>3. /\ stage' \in [Clerks -> {"idle", "asked", "checked", "locked"}]
        /\ asked' \in [Clerks -> Authorities \cup {Nothing}]
        /\ stage'[r] = "asked" /\ \A q \in Clerks \ {r} : stage'[q] = stage[q]
    BY <2>1, AskType
  <2>4. reply' \in [Saves \cup Orderings -> Replies \cup {Nothing}]
    BY <1>8, <1>70 DEF AskPickups
  <2>5. \A q \in Quotings \cup Orderings : stage'[q] = "locked" =>
           IF q \in Quotings THEN outletLock' = q ELSE draftLock'[TargetOf[q]] = q
    BY <1>71, <2>1, <2>2, <2>3
  <2> QED BY <1>7, <1>70, <2>2, <2>3, <2>4, <2>5
<1>9. ASSUME NEW r \in Adds, AddPickup(r) PROVE OutletTypeOK'
  <2>1. r \in Clerks /\ r \notin Quotings \cup Orderings /\ Return(r)
    BY <1>9, ClerkKinds DEF AddPickup
  <2>2. /\ stage' \in [Clerks -> {"idle", "asked", "checked", "locked"}]
        /\ asked' \in [Clerks -> Authorities \cup {Nothing}]
        /\ \A q \in Clerks \ {r} : stage'[q] = stage[q]
    BY <2>1, ReturnType
  <2>3. \A q \in Quotings \cup Orderings : stage'[q] = stage[q]
    BY <2>1, <2>2, ClerkKinds
  <2>4. TargetOf[r] \in Pickups /\ TargetOf[r] # Nothing
    BY FormsName
  <2>5. /\ points' \subseteq Pickups /\ main' \in points' \cup {Nothing}
        /\ (main' = Nothing) = (points' = {}) /\ mirror' = main'
    BY <1>9, <2>4, OutletParts DEF AddPickup
  <2>6. version' \in 1 .. MaxVersion
    BY <1>2, <1>9, OutletParts DEF AddPickup
  <2>7. UNCHANGED <<account, stamp, draft, quotes, order, outletLock, draftLock, named, reply>>
    BY <1>9 DEF AddPickup, paperVars
  <2>8. \A q \in Quotings \cup Orderings : stage'[q] = "locked" =>
           IF q \in Quotings THEN outletLock' = q ELSE draftLock'[TargetOf[q]] = q
    BY <1>0, <2>3, <2>7
  <2> QED BY <1>70, <2>2, <2>5, <2>6, <2>7, <2>8 DEF OutletTypeOK
<1>10. ASSUME NEW s \in Saves, CheckArea(s) PROVE OutletTypeOK'
  <2>1. s \in Clerks \ Orderings /\ s \notin Quotings /\ Ask(s)
    BY <1>10, ClerkKinds DEF CheckArea
  <2>2. UNCHANGED <<account, stamp, version, points, main, mirror, draft, quotes, order,
                    outletLock, draftLock, named>>
    BY <1>10 DEF CheckArea, paperVars
  <2>3. /\ stage' \in [Clerks -> {"idle", "asked", "checked", "locked"}]
        /\ asked' \in [Clerks -> Authorities \cup {Nothing}]
        /\ stage'[s] = "asked" /\ \A q \in Clerks \ {s} : stage'[q] = stage[q]
    BY <2>1, AskType
  <2>4. reply' \in [Saves \cup Orderings -> Replies \cup {Nothing}]
    BY <1>10, <1>70 DEF CheckArea
  <2>5. \A q \in Quotings \cup Orderings : stage'[q] = "locked" =>
           IF q \in Quotings THEN outletLock' = q ELSE draftLock'[TargetOf[q]] = q
    BY <1>71, <2>1, <2>2, <2>3
  <2> QED BY <1>7, <1>70, <2>2, <2>3, <2>4, <2>5
<1>11. ASSUME NEW s \in Saves, FindReplay(s) PROVE OutletTypeOK'
  <2>1. s \in Clerks /\ s \notin Quotings \cup Orderings
    BY ClerkKinds
  <2>2. CASE draft[FormOf[s].id] = Nothing
    <3>1. /\ stage' = [stage EXCEPT ![s] = "checked"]
          /\ UNCHANGED <<account, stamp, version, points, main, mirror, draft, quotes, order,
                          outletLock, draftLock, asked, named, reply>>
      BY <1>11, <2>2 DEF FindReplay
    <3>2. /\ stage' \in [Clerks -> {"idle", "asked", "checked", "locked"}]
          /\ stage'[s] # "locked" /\ \A q \in Clerks \ {s} : stage'[q] = stage[q]
      BY <1>70, <2>1, <3>1
    <3>3. \A q \in Quotings \cup Orderings : stage'[q] = "locked" =>
             IF q \in Quotings THEN outletLock' = q ELSE draftLock'[TargetOf[q]] = q
      BY <1>71, <2>1, <3>1, <3>2
    <3> QED BY <1>7, <1>70, <3>1, <3>2, <3>3
  <2>3. CASE draft[FormOf[s].id] # Nothing
    BY <1>11, <2>3, TellType DEF FindReplay, Replies
  <2> QED BY <2>2, <2>3
<1>12. ASSUME NEW s \in Saves, SaveDraft(s) PROVE OutletTypeOK'
  <2>1. PICK f : f = FormOf[s]
    OBVIOUS
  <2>2. \/ CreateDraft(s, f)
        \/ UNCHANGED draft /\ \E a \in {"unavailable", "changed", "duplicate"} : Tell(s, a)
    BY <1>12, <2>1 DEF SaveDraft
  <2> QED BY <2>1, <2>2, CreateDraftType, TellType DEF Replies
<1>13. ASSUME NEW r \in Quotings, AskEstimate(r) PROVE OutletTypeOK'
  <2>1. r \in Clerks \ Orderings /\ Ask(r)
    BY <1>13, ClerkKinds DEF AskEstimate
  <2>2. UNCHANGED <<account, stamp, version, points, main, mirror, draft, quotes, order,
                    outletLock, draftLock, named>>
    BY <1>13 DEF AskEstimate, paperVars
  <2>3. /\ stage' \in [Clerks -> {"idle", "asked", "checked", "locked"}]
        /\ asked' \in [Clerks -> Authorities \cup {Nothing}]
        /\ stage'[r] = "asked" /\ \A q \in Clerks \ {r} : stage'[q] = stage[q]
    BY <2>1, AskType
  <2>4. reply' \in [Saves \cup Orderings -> Replies \cup {Nothing}]
    BY <1>13, <1>70 DEF AskEstimate
  <2>5. \A q \in Quotings \cup Orderings : stage'[q] = "locked" =>
           IF q \in Quotings THEN outletLock' = q ELSE draftLock'[TargetOf[q]] = q
    BY <1>71, <2>1, <2>2, <2>3
  <2> QED BY <1>7, <1>70, <2>2, <2>3, <2>4, <2>5
<1>14. ASSUME NEW r \in Quotings, LockOutlet(r) PROVE OutletTypeOK'
  <2>1. r \in Clerks /\ outletLock = Nothing
    BY <1>14, ClerkKinds DEF LockOutlet, OutletFree
  <2>2. \A q \in Quotings : stage[q] # "locked"
    BY <1>0, <2>1, ClerkKinds
  <2>3. UNCHANGED <<account, stamp, version, points, main, mirror, draft, quotes, order,
                    draftLock, named, reply>>
    BY <1>14 DEF LockOutlet
  <2>4. CASE Connected /\ SameAuthority(asked[r], Authority) /\ asked[r].from = From
    <3>1. outletLock' = r /\ stage' = [stage EXCEPT ![r] = "locked"] /\ UNCHANGED asked
      BY <1>14, <2>4 DEF LockOutlet
    <3>2. /\ stage' \in [Clerks -> {"idle", "asked", "checked", "locked"}]
          /\ \A q \in Clerks \ {r} : stage'[q] = stage[q]
      BY <1>70, <2>1, <3>1
    <3>3. \A q \in Quotings \cup Orderings : stage'[q] = "locked" =>
             IF q \in Quotings THEN outletLock' = q ELSE draftLock'[TargetOf[q]] = q
      BY <1>0, <2>2, <2>3, <3>1, <3>2, ClerkKinds
    <3> QED BY <1>7, <1>70, <2>3, <3>1, <3>2, <3>3
  <2>5. CASE ~(Connected /\ SameAuthority(asked[r], Authority) /\ asked[r].from = From)
    <3>1. Return(r) /\ UNCHANGED outletLock
      BY <1>14, <2>5 DEF LockOutlet
    <3>2. /\ stage' \in [Clerks -> {"idle", "asked", "checked", "locked"}]
          /\ asked' \in [Clerks -> Authorities \cup {Nothing}]
          /\ stage'[r] = "idle" /\ \A q \in Clerks \ {r} : stage'[q] = stage[q]
      BY <2>1, <3>1, ReturnType
    <3>3. \A q \in Quotings \cup Orderings : stage'[q] = "locked" =>
             IF q \in Quotings THEN outletLock' = q ELSE draftLock'[TargetOf[q]] = q
      BY <1>71, <2>1, <2>3, <3>1, <3>2
    <3> QED BY <1>7, <1>70, <2>3, <3>1, <3>2, <3>3
  <2> QED BY <2>4, <2>5
<1>15. ASSUME NEW r \in Quotings, AppendEstimate(r) PROVE OutletTypeOK'
  <2>0. asked[r] \in Authorities
    BY <1>15, ClerkKinds, OutletParts DEF AppendEstimate, OutletInv, AskedIsNoted
  <2>1. PICK d : d = TargetOf[r]
    OBVIOUS
  <2>2. r \in Clerks /\ d \in Drafts /\ Return(r) /\ outletLock = r /\ outletLock' = Nothing
    BY <1>0, <1>15, <2>1, ClerkKinds, FormsName DEF AppendEstimate
  <2>3. /\ stage' \in [Clerks -> {"idle", "asked", "checked", "locked"}]
        /\ asked' \in [Clerks -> Authorities \cup {Nothing}]
        /\ stage'[r] = "idle"
        /\ \A q \in Clerks \ {r} : stage'[q] = stage[q]
    BY <2>2, ReturnType
  <2>4. \A q \in Quotings \cup Orderings : stage'[q] = "locked" =>
           IF q \in Quotings THEN outletLock' = q ELSE draftLock'[TargetOf[q]] = q
    <3>1. \A q \in Quotings : stage'[q] # "locked"
      BY <1>0, <2>2, <2>3, ClerkKinds
    <3>2. \A q \in Orderings : stage'[q] = stage[q] /\ draftLock' = draftLock
      BY <1>15, <2>2, <2>3, ClerkKinds DEF AppendEstimate
    <3> QED BY <1>0, <3>1, <3>2, ClerkKinds
  <2>5. UNCHANGED <<account, stamp, version, points, main, mirror, order, draftLock, named, reply>>
    BY <1>15 DEF AppendEstimate
  <2>6. CASE ~Open(d)
    <3>1. UNCHANGED <<draft, quotes>>
      BY <1>15, <2>1, <2>6 DEF AppendEstimate
    <3> QED BY <1>7, <2>2, <2>3, <2>4, <2>5, <3>1 DEF OutletTypeOK
  <2>7. CASE Open(d)
    <3>1. /\ Len(quotes[d]) < MaxQuotes /\ draft[d] # Nothing
          /\ draft' = [draft EXCEPT ![d].status = "ESTIMATED"]
          /\ quotes' = [quotes EXCEPT ![d] =
                           Append(@, [source |-> asked[r].source, who |-> asked[r].who])]
      BY <1>15, <2>1, <2>7 DEF AppendEstimate, Open
    <3>2. /\ draft' \in [Drafts -> OpenDrafts \cup {Nothing}]
          /\ \A e \in Drafts \ {d} : draft'[e] = draft[e]
      BY <2>2, <3>1, StatusType
    <3>3. /\ quotes' \in [Drafts -> Seq([source : Sources, who : MengantarAccounts])]
          /\ \A e \in Drafts : Len(quotes'[e]) <= MaxQuotes
      BY <2>0, <2>2, <3>1, QuotesType
    <3>4. order[d] = Nothing
      BY <2>2, <2>7 DEF OutletTypeOK, Open
    <3>5. \A e \in Drafts : order'[e] # Nothing =>
             draft'[e] # Nothing /\ draft'[e].status = "SUBMISSION_QUEUED"
      <4>1. \A e \in Drafts : order[e] # Nothing =>
               draft[e] # Nothing /\ draft[e].status = "SUBMISSION_QUEUED"
        BY DEF OutletTypeOK
      <4> QED BY <2>5, <3>2, <3>4, <4>1
    <3> QED BY <2>2, <2>3, <2>4, <2>5, <3>2, <3>3, <3>5 DEF OutletTypeOK
  <2> QED BY <2>6, <2>7
<1>16. ASSUME NEW r \in Orderings, ConfirmOrder(r) PROVE OutletTypeOK'
  <2>1. r \in Clerks /\ TargetOf[r] \in Drafts /\ r \notin Quotings
    BY ClerkKinds, FormsName
  <2>2. Len(quotes[TargetOf[r]]) \in 0 .. MaxQuotes
    BY <2>1, OutletParts
  <2>3. /\ named' = [named EXCEPT ![r] = Len(quotes[TargetOf[r]])]
        /\ reply' = [reply EXCEPT ![r] = Nothing] /\ stage' = [stage EXCEPT ![r] = "asked"]
        /\ UNCHANGED <<account, stamp, version, points, main, mirror, draft, quotes, order,
                        outletLock, draftLock, asked>>
    BY <1>16 DEF ConfirmOrder, paperVars
  <2>4. /\ named' \in [Orderings -> 0 .. MaxQuotes]
        /\ reply' \in [Saves \cup Orderings -> Replies \cup {Nothing}]
        /\ stage' \in [Clerks -> {"idle", "asked", "checked", "locked"}]
        /\ stage'[r] # "locked" /\ \A q \in Clerks \ {r} : stage'[q] = stage[q]
    BY <1>70, <2>1, <2>2, <2>3
  <2>5. \A q \in Quotings \cup Orderings : stage'[q] = "locked" =>
           IF q \in Quotings THEN outletLock' = q ELSE draftLock'[TargetOf[q]] = q
    BY <1>71, <2>1, <2>3, <2>4
  <2> QED BY <1>7, <1>70, <2>3, <2>4, <2>5
\* An order that is refused.
<1>17. ASSUME NEW r \in Orderings, Refuse(r)
       PROVE  /\ stage' \in [Clerks -> {"idle", "asked", "checked", "locked"}]
              /\ asked' \in [Clerks -> Authorities \cup {Nothing}]
              /\ reply' \in [Saves \cup Orderings -> Replies \cup {Nothing}]
              /\ stage'[r] = "idle" /\ \A q \in Clerks \ {r} : stage'[q] = stage[q]
  BY <1>17, ClerkKinds, ReturnType DEF Refuse, OutletTypeOK, Replies
<1>18. ASSUME NEW r \in Orderings, StartSelection(r) PROVE OutletTypeOK'
  <2>1. CASE Orderable(TargetOf[r], named[r])
    <3>1. /\ stage' = [stage EXCEPT ![r] = "checked"]
          /\ UNCHANGED <<account, stamp, version, points, main, mirror, draft, quotes, order,
                          outletLock, draftLock, asked, named, reply>>
      BY <1>18, <2>1 DEF StartSelection, paperVars
    <3>2. /\ stage' \in [Clerks -> {"idle", "asked", "checked", "locked"}] /\ r \in Clerks
          /\ stage'[r] # "locked" /\ \A q \in Clerks \ {r} : stage'[q] = stage[q]
      BY <1>70, <3>1, ClerkKinds
    <3>3. \A q \in Quotings \cup Orderings : stage'[q] = "locked" =>
             IF q \in Quotings THEN outletLock' = q ELSE draftLock'[TargetOf[q]] = q
      BY <1>71, <3>1, <3>2
    <3> QED BY <1>7, <1>70, <3>1, <3>2, <3>3
  <2>2. CASE ~Orderable(TargetOf[r], named[r])
    <3>1. Refuse(r)
      BY <1>18, <2>2 DEF StartSelection
    <3>2. UNCHANGED <<account, stamp, version, points, main, mirror, draft, quotes, order,
                      outletLock, draftLock, named>>
      BY <1>18, <2>2 DEF StartSelection, paperVars
    <3>3. r \in Clerks
      BY ClerkKinds
    <3>4. /\ stage' \in [Clerks -> {"idle", "asked", "checked", "locked"}]
          /\ asked' \in [Clerks -> Authorities \cup {Nothing}]
          /\ reply' \in [Saves \cup Orderings -> Replies \cup {Nothing}]
          /\ stage'[r] = "idle" /\ \A q \in Clerks \ {r} : stage'[q] = stage[q]
      BY <1>17, <3>1
    <3>5. \A q \in Quotings \cup Orderings : stage'[q] = "locked" =>
             IF q \in Quotings THEN outletLock' = q ELSE draftLock'[TargetOf[q]] = q
      BY <1>71, <3>2, <3>3, <3>4
    <3> QED BY <1>7, <1>70, <3>2, <3>4, <3>5
  <2> QED BY <2>1, <2>2
<1>19. ASSUME NEW r \in Orderings, LockSelection(r) PROVE OutletTypeOK'
  <2>1. PICK d : d = TargetOf[r]
    OBVIOUS
  <2>2. r \in Clerks /\ r \notin Quotings /\ d \in Drafts /\ draftLock[d] = Nothing
    BY <1>19, <2>1, ClerkKinds, FormsName DEF LockSelection, DraftFree
  <2>3. CASE draft[d].status = "ESTIMATED"
    <3>1. /\ draftLock' = [draftLock EXCEPT ![d] = r] /\ stage' = [stage EXCEPT ![r] = "locked"]
          /\ UNCHANGED <<asked, reply, outletLock, named>>
      BY <1>19, <2>1, <2>3 DEF LockSelection
    <3>2. \A q \in Orderings : stage[q] = "locked" => TargetOf[q] # d
      BY <1>0, <2>2, ClerkKinds
    <3>3. \A q \in Quotings \cup Orderings : stage'[q] = "locked" =>
             IF q \in Quotings THEN outletLock' = q ELSE draftLock'[TargetOf[q]] = q
      BY <1>0, <2>1, <2>2, <3>1, <3>2, ClerkKinds, FormsName DEF OutletTypeOK
    <3>4. UNCHANGED <<account, stamp, version, points, main, mirror, draft, quotes, order>>
      BY <1>19 DEF LockSelection
    <3>5. /\ stage' \in [Clerks -> {"idle", "asked", "checked", "locked"}]
          /\ draftLock' \in [Drafts -> Orderings \cup {Nothing}]
      BY <1>70, <2>2, <3>1
    <3> QED BY <1>7, <1>70, <3>1, <3>3, <3>4, <3>5
  <2>4. CASE draft[d].status # "ESTIMATED"
    <3>1. Refuse(r)
      BY <1>19, <2>1, <2>4 DEF LockSelection
    <3>2. UNCHANGED <<account, stamp, version, points, main, mirror, draft, quotes, order,
                      outletLock, draftLock, named>>
      BY <1>19, <2>1, <2>4 DEF LockSelection, paperVars
    <3>3. r \in Clerks
      BY ClerkKinds
    <3>4. /\ stage' \in [Clerks -> {"idle", "asked", "checked", "locked"}]
          /\ asked' \in [Clerks -> Authorities \cup {Nothing}]
          /\ reply' \in [Saves \cup Orderings -> Replies \cup {Nothing}]
          /\ stage'[r] = "idle" /\ \A q \in Clerks \ {r} : stage'[q] = stage[q]
      BY <1>17, <3>1
    <3>5. \A q \in Quotings \cup Orderings : stage'[q] = "locked" =>
             IF q \in Quotings THEN outletLock' = q ELSE draftLock'[TargetOf[q]] = q
      BY <1>71, <3>2, <3>3, <3>4
    <3> QED BY <1>7, <1>70, <3>2, <3>4, <3>5
  <2> QED BY <2>3, <2>4
<1>20. ASSUME NEW r \in Orderings, QueueOrder(r) PROVE OutletTypeOK'
  <2>0. draft[TargetOf[r]] # Nothing /\ named[r] \in 1 .. Len(quotes[TargetOf[r]])
    BY <1>20 DEF QueueOrder, OutletInv, ShownIsThere
  <2>1. PICK d, n : d = TargetOf[r] /\ n = named[r]
    OBVIOUS
  <2>2. r \in Clerks /\ r \notin Quotings /\ d \in Drafts /\ draftLock[d] = r
        /\ draftLock' = [draftLock EXCEPT ![d] = Nothing]
        /\ UNCHANGED <<account, stamp, version, points, main, mirror, quotes, outletLock, named>>
    BY <1>0, <1>20, <2>1, ClerkKinds, FormsName DEF QueueOrder
  <2>3. ASSUME stage'[r] = "idle", \A q \in Clerks \ {r} : stage'[q] = stage[q]
        PROVE  \A q \in Quotings \cup Orderings : stage'[q] = "locked" =>
                  IF q \in Quotings THEN outletLock' = q ELSE draftLock'[TargetOf[q]] = q
    <3>1. \A q \in Orderings \ {r} : stage[q] = "locked" =>
             TargetOf[q] # d /\ draftLock[TargetOf[q]] = q
      BY <1>0, <2>2, ClerkKinds
    <3>2. \A q \in Orderings \ {r} : stage[q] = "locked" => draftLock'[TargetOf[q]] = q
      BY <2>2, <3>1, FormsName DEF OutletTypeOK
    <3>3. \A q \in Quotings : stage'[q] = "locked" => outletLock' = q
      BY <1>0, <2>2, <2>3, ClerkKinds
    <3> QED BY <2>3, <3>2, <3>3, ClerkKinds
  <2>4. draftLock' \in [Drafts -> Orderings \cup {Nothing}]
    BY <2>2 DEF OutletTypeOK
  <2>5. CASE ~(SourceStands(d, n) /\ PickupFits(d) /\ OrderPolicy(d, n))
    <3>1. Refuse(r) /\ UNCHANGED <<order, draft>>
      BY <1>20, <2>1, <2>5 DEF QueueOrder
    <3>2. /\ stage' \in [Clerks -> {"idle", "asked", "checked", "locked"}]
          /\ asked' \in [Clerks -> Authorities \cup {Nothing}]
          /\ reply' \in [Saves \cup Orderings -> Replies \cup {Nothing}]
          /\ stage'[r] = "idle" /\ \A q \in Clerks \ {r} : stage'[q] = stage[q]
      BY <1>17, <3>1
    <3>3. \A q \in Quotings \cup Orderings : stage'[q] = "locked" =>
             IF q \in Quotings THEN outletLock' = q ELSE draftLock'[TargetOf[q]] = q
      BY <2>3, <3>2
    <3> QED BY <1>7, <1>70, <2>2, <2>4, <3>1, <3>2, <3>3
  <2>6. CASE SourceStands(d, n) /\ PickupFits(d) /\ OrderPolicy(d, n)
    <3>1. /\ order' = [order EXCEPT ![d] = [quote |-> n, who |-> Who]]
          /\ draft' = [draft EXCEPT ![d].status = "SUBMISSION_QUEUED"]
          /\ reply' = [reply EXCEPT ![r] = "ordered"] /\ Return(r)
      BY <1>20, <2>1, <2>6 DEF QueueOrder
    <3>2. Who \in MengantarAccounts /\ n \in 1 .. MaxQuotes
      BY <2>0, <2>1, <2>2, <2>6, AuthorityType, OutletParts DEF SourceStands
    <3>3. [quote |-> n, who |-> Who] \in [quote : 1 .. MaxQuotes, who : MengantarAccounts]
      BY <3>2
    <3>4. /\ order' \in [Drafts -> [quote : 1 .. MaxQuotes, who : MengantarAccounts]
                                     \cup {Nothing}]
          /\ \A e \in Drafts \ {d} : order'[e] = order[e]
      <4>1. order \in [Drafts -> [quote : 1 .. MaxQuotes, who : MengantarAccounts]
                                   \cup {Nothing}]
        BY DEF OutletTypeOK
      <4> QED BY <3>1, <3>3, <4>1
    <3>5. /\ draft' \in [Drafts -> OpenDrafts \cup {Nothing}]
          /\ draft'[d] # Nothing /\ draft'[d].status = "SUBMISSION_QUEUED"
          /\ \A e \in Drafts \ {d} : draft'[e] = draft[e]
      BY <2>0, <2>1, <2>2, <3>1, StatusType
    <3>6. \A e \in Drafts : order'[e] # Nothing =>
             draft'[e] # Nothing /\ draft'[e].status = "SUBMISSION_QUEUED"
      BY <3>4, <3>5 DEF OutletTypeOK
    <3>7. /\ stage' \in [Clerks -> {"idle", "asked", "checked", "locked"}]
          /\ asked' \in [Clerks -> Authorities \cup {Nothing}]
          /\ stage'[r] = "idle" /\ \A q \in Clerks \ {r} : stage'[q] = stage[q]
      BY <2>2, <3>1, ReturnType
    <3>8. reply' \in [Saves \cup Orderings -> Replies \cup {Nothing}]
      BY <3>1 DEF OutletTypeOK, Replies
    <3>9. \A q \in Quotings \cup Orderings : stage'[q] = "locked" =>
             IF q \in Quotings THEN outletLock' = q ELSE draftLock'[TargetOf[q]] = q
      BY <2>3, <3>7
    <3>10. \A e \in Drafts : Len(quotes'[e]) <= MaxQuotes
      BY <2>2 DEF OutletTypeOK
    <3> QED BY <2>2, <2>4, <3>4, <3>5, <3>6, <3>7, <3>8, <3>9, <3>10 DEF OutletTypeOK
  <2> QED BY <2>5, <2>6
<1>21. ASSUME NEW r \in Clerks, GiveUp(r) PROVE OutletTypeOK'
  <2>1. /\ stage' \in [Clerks -> {"idle", "asked", "checked", "locked"}]
        /\ asked' \in [Clerks -> Authorities \cup {Nothing}]
        /\ stage'[r] = "idle" /\ \A q \in Clerks \ {r} : stage'[q] = stage[q]
    BY <1>21, ReturnType DEF GiveUp
  <2>2. /\ outletLock' = IF outletLock = r THEN Nothing ELSE outletLock
        /\ draftLock' = [d \in Drafts |-> IF draftLock[d] = r THEN Nothing ELSE draftLock[d]]
        /\ UNCHANGED <<account, stamp, version, points, main, mirror, draft, quotes, order,
                       named, reply>>
    BY <1>21 DEF GiveUp
  <2>3. \A q \in Quotings \cup Orderings : stage'[q] = "locked" =>
           q # r /\ IF q \in Quotings THEN outletLock = q ELSE draftLock[TargetOf[q]] = q
    BY <1>0, <2>1, ClerkKinds
  <2>4. \A q \in Quotings \cup Orderings : stage'[q] = "locked" =>
           IF q \in Quotings THEN outletLock' = q ELSE draftLock'[TargetOf[q]] = q
    BY <2>2, <2>3, FormsName
  <2>5. outletLock' \in Quotings \cup {Nothing}
        /\ draftLock' \in [Drafts -> Orderings \cup {Nothing}]
    BY <1>70, <2>2
  <2> QED BY <1>7, <1>70, <2>1, <2>2, <2>4, <2>5
<1>22. CASE UNCHANGED outletVars
  BY <1>22 DEF outletVars, OutletTypeOK
<1> QED BY <1>3, <1>4, <1>5, <1>6, <1>8, <1>9, <1>10, <1>11, <1>12, <1>13, <1>14, <1>15, <1>16,
           <1>18, <1>19, <1>20, <1>21, <1>22 DEF OutletNext

-----------------------------------------------------------------------------
\* What a step does to a shipment: nothing; or it is saved, estimated or ordered.
DraftStep(d) ==
    \/ draft'[d] = draft[d] /\ quotes'[d] = quotes[d] /\ order'[d] = order[d]
    \/ /\ draft[d] = Nothing /\ draft'[d] # Nothing
       /\ draft'[d].pickup \in points /\ points' = points
       /\ quotes'[d] = quotes[d] /\ order'[d] = order[d]
    \/ /\ Open(d) /\ draft'[d] # Nothing /\ draft'[d].pickup = draft[d].pickup
       /\ Len(quotes'[d]) = Len(quotes[d]) + 1 /\ order'[d] = order[d] /\ points' = points
    \/ /\ draft[d] # Nothing /\ draft'[d] # Nothing /\ draft'[d].pickup = draft[d].pickup
       /\ draft'[d].status = "SUBMISSION_QUEUED" /\ quotes'[d] = quotes[d]
       /\ order'[d].quote = Len(quotes[d])
       /\ (order'[d].who = PlatformAccount)
             = (quotes[d][Len(quotes[d])].source = "platform_default")

\* What a step does to a request that asks Mengantar: nothing; or the request ends, asks,
\* has looked for an earlier save, or gets the outlet it asked for.
AskerStep(r) ==
    \/ stage'[r] = stage[r] /\ asked'[r] = asked[r]
    \/ stage'[r] = "idle" /\ asked'[r] = Nothing
    \/ /\ stage'[r] = "asked" /\ asked'[r] = Authority
       /\ Connected /\ UNCHANGED <<account, version>>
       /\ r \in Quotings => draft[TargetOf[r]] # Nothing /\ PickupFits(TargetOf[r])
    \/ stage[r] = "asked" /\ stage'[r] = "checked" /\ asked'[r] = asked[r]
    \/ /\ stage[r] = "asked" /\ stage'[r] = "locked" /\ asked'[r] = asked[r]
       /\ asked[r].version = version /\ version' = version

\* What a step does to a request that orders.
OrderStep(r) ==
    /\ asked'[r] \in {asked[r], Nothing}
    /\ stage'[r] # "idle" =>
          \/ stage[r] # "idle" /\ named'[r] = named[r]
          \/ /\ draft[TargetOf[r]] # Nothing /\ quotes[TargetOf[r]] # <<>>
             /\ named'[r] = Len(quotes[TargetOf[r]]) /\ quotes' = quotes

\* What a step does to the outlet: its account changes with the version only, and the
\* version only while nobody holds the outlet; a point that goes away is held by no draft.
AccountStep ==
    /\ version <= version' /\ (version' = version => account' = account)
    /\ version' # version => outletLock = Nothing
    /\ \/ points \subseteq points'
       \/ \E p \in Pickups : points' = points \ {p} /\ ~HeldByDrafts(p) /\ draft' = draft

\* Steps of the settings leave the papers and the requests alone.
LEMMA SettingsStep ==
    ASSUME OutletTypeOK, OutletInv,
           \/ \E k \in OwnAccounts : ReplaceApiKey(k)
           \/ RestorePlatformDefault
           \/ \E p \in Pickups : SetDefaultPickup(p) \/ RemovePickup(p)
    PROVE  /\ \A d \in Drafts : DraftStep(d)
           /\ \A r \in Clerks \ Orderings : AskerStep(r)
           /\ \A r \in Orderings : OrderStep(r)
           /\ AccountStep
<1>1. UNCHANGED <<draft, quotes, order, stage, asked, named>>
  BY DEF ReplaceApiKey, RestorePlatformDefault, SetDefaultPickup, RemovePickup, paperVars, clerkVars
<1>2. OutletFree
  BY DEF ReplaceApiKey, RestorePlatformDefault, SetDefaultPickup, RemovePickup
<1>3. version \in Nat
  BY OutletParts
<1>4. ASSUME NEW p \in Pickups, RemovePickup(p) PROVE AccountStep
  BY <1>1, <1>2, <1>3, <1>4 DEF AccountStep, RemovePickup, Bump, OutletFree
<1>5. ASSUME NEW k \in OwnAccounts, ReplaceApiKey(k) PROVE AccountStep
  BY <1>2, <1>3, <1>5 DEF AccountStep, ReplaceApiKey, Bump, OutletFree
<1>6. ASSUME RestorePlatformDefault PROVE AccountStep
  BY <1>2, <1>3, <1>6 DEF AccountStep, RestorePlatformDefault, Bump, OutletFree
<1>7. ASSUME NEW p \in Pickups, SetDefaultPickup(p) PROVE AccountStep
  BY <1>2, <1>3, <1>7 DEF AccountStep, SetDefaultPickup, Bump, OutletFree
<1>8. AccountStep
  BY <1>4, <1>5, <1>6, <1>7
<1>9. \A r \in Orderings : OrderStep(r)
  BY <1>1 DEF OrderStep
<1> QED BY <1>1, <1>8, <1>9 DEF DraftStep, AskerStep

\* A request that asks Mengantar touches itself only.
LEMMA OneAsker ==
    ASSUME NEW r \in Clerks \ Orderings, AskerStep(r),
           \A q \in Clerks \ {r} : stage'[q] = stage[q] /\ asked'[q] = asked[q],
           UNCHANGED named
    PROVE  /\ \A q \in Clerks \ Orderings : AskerStep(q)
           /\ \A q \in Orderings : OrderStep(q)
<1>1. \A q \in (Clerks \ Orderings) \ {r} : AskerStep(q)
  BY DEF AskerStep
<1>2. \A q \in Orderings : stage'[q] = stage[q] /\ asked'[q] = asked[q] /\ named'[q] = named[q]
  BY ClerkKinds
<1>3. \A q \in Orderings : OrderStep(q)
  BY <1>2 DEF OrderStep
<1> QED BY <1>1, <1>3

\* A request that orders touches itself only.
LEMMA OneOrdering ==
    ASSUME NEW r \in Orderings, OrderStep(r),
           \A q \in Clerks \ {r} : stage'[q] = stage[q] /\ asked'[q] = asked[q],
           \A q \in Orderings \ {r} : named'[q] = named[q]
    PROVE  /\ \A q \in Clerks \ Orderings : AskerStep(q)
           /\ \A q \in Orderings : OrderStep(q)
<1>1. \A q \in Clerks \ Orderings : AskerStep(q)
  BY DEF AskerStep
<1>2. \A q \in Orderings \ {r} : stage'[q] = stage[q] /\ asked'[q] = asked[q]
                                 /\ named'[q] = named[q]
  BY ClerkKinds
<1>3. \A q \in Orderings \ {r} : OrderStep(q)
  BY <1>2 DEF OrderStep
<1> QED BY <1>1, <1>3

\* As long as outlet and papers stay, nothing but the requests can matter.
LEMMA StillStep ==
    ASSUME OutletTypeOK
    PROVE  /\ UNCHANGED <<draft, quotes, order>> => \A d \in Drafts : DraftStep(d)
           /\ UNCHANGED <<account, version, points>> => AccountStep
<1>1. version \in Nat
  BY OutletParts
<1> QED BY <1>1 DEF DraftStep, AccountStep

\* A save that is answered and writes nothing.
LEMMA ToldStep ==
    ASSUME OutletTypeOK, NEW s \in Saves, NEW a, Tell(s, a)
    PROVE  /\ \A r \in Clerks \ Orderings : AskerStep(r)
           /\ \A r \in Orderings : OrderStep(r)
           /\ AccountStep
           /\ \A q \in Clerks \ {s} : stage'[q] = stage[q]
<1>1. s \in Clerks \ Orderings /\ Return(s)
  BY ClerkKinds DEF Tell
<1>2. /\ stage'[s] = "idle" /\ asked'[s] = Nothing
      /\ \A q \in Clerks \ {s} : stage'[q] = stage[q] /\ asked'[q] = asked[q]
  BY <1>1, ReturnType
<1>3. AskerStep(s) /\ UNCHANGED <<account, version, points, named>>
  BY <1>2 DEF AskerStep, Tell
<1> QED BY <1>1, <1>2, <1>3, OneAsker, StillStep

\* Saving a draft.
LEMMA SaveStep ==
    ASSUME OutletTypeOK, OutletInv, NEW s \in Saves, SaveDraft(s)
    PROVE  /\ \A d \in Drafts : DraftStep(d)
           /\ \A r \in Clerks \ Orderings : AskerStep(r)
           /\ \A r \in Orderings : OrderStep(r)
           /\ AccountStep
           /\ \A q \in Clerks \ {s} : stage'[q] = stage[q]
           /\ \A d \in Drafts : draft'[d] # draft[d] =>
                 /\ d = FormOf[s].id /\ draft[d] = Nothing
                 /\ asked[s].who = Who
                 /\ FormOf[s].sure \/ ~PhoneSeen(FormOf[s])
<1>1. PICK f : f = FormOf[s]
  OBVIOUS
<1>2. PICK a : Tell(s, a)
  <2>1. CASE CreateDraft(s, f)
    BY <2>1 DEF CreateDraft
  <2>2. CASE ~CreateDraft(s, f)
    BY <1>1, <2>2 DEF SaveDraft
  <2> QED BY <2>1, <2>2
<1>3. UNCHANGED <<quotes, order, points>> /\ f.id \in Drafts /\ s \in Clerks
  BY <1>1, <1>2, FormsName, ClerkKinds DEF Tell
<1>4. CASE UNCHANGED draft
  BY <1>2, <1>3, <1>4, ToldStep, StillStep
<1>5. CASE draft' # draft
  <2>1. CreateDraft(s, f) /\ Connected /\ SameAuthority(asked[s], Authority)
        /\ (f.sure \/ ~PhoneSeen(f)) /\ stage[s] = "checked"
    BY <1>1, <1>5 DEF SaveDraft
  <2>2. /\ draft'[f.id] # draft[f.id] => draft[f.id] = Nothing /\ draft'[f.id].pickup \in points
        /\ \A d \in Drafts \ {f.id} : draft'[d] = draft[d]
        /\ draft' \in [Drafts -> OpenDrafts \cup {Nothing}]
    BY <1>1, <2>1, CreateDraftType DEF OutletTypeOK
  <2>3. \A d \in Drafts : DraftStep(d)
    BY <1>3, <2>2 DEF DraftStep
  <2>4. asked[s] # Nothing /\ asked[s].version = version
    BY <2>1, <1>3, ClerkKinds, AuthorityType DEF OutletInv, AskedIsNoted, SameAuthority
  <2>5. asked[s].who = Who
    BY <1>3, <2>4 DEF OutletInv, VersionTellsAccount
  <2> QED BY <1>1, <1>2, <2>1, <2>2, <2>3, <2>5, ToldStep
<1> QED BY <1>4, <1>5

\* Recording an estimate.
LEMMA EstimateStep ==
    ASSUME OutletTypeOK, OutletInv, NEW r \in Quotings, AppendEstimate(r)
    PROVE  /\ \A d \in Drafts : DraftStep(d)
           /\ \A q \in Clerks \ Orderings : AskerStep(q)
           /\ \A q \in Orderings : OrderStep(q)
           /\ AccountStep
           /\ \A d \in Drafts : draft[d] = Nothing => draft'[d] = Nothing
           /\ \A d \in Drafts : quotes'[d] # quotes[d] =>
                 /\ quotes'[d][Len(quotes'[d])].who = Who
                 /\ PickupFits(d)
<1>1. PICK d : d = TargetOf[r]
  OBVIOUS
<1>2. /\ d \in Drafts /\ r \in Clerks \ Orderings /\ Return(r) /\ stage[r] = "locked"
      /\ UNCHANGED <<account, version, points, order, named>>
  BY <1>1, FormsName, ClerkKinds DEF AppendEstimate
<1>3. /\ stage'[r] = "idle" /\ asked'[r] = Nothing
      /\ \A q \in Clerks \ {r} : stage'[q] = stage[q] /\ asked'[q] = asked[q]
  BY <1>2, ReturnType
<1>4. AskerStep(r) /\ AccountStep
  BY <1>2, <1>3, StillStep DEF AskerStep
<1>5. /\ \A q \in Clerks \ Orderings : AskerStep(q)
      /\ \A q \in Orderings : OrderStep(q)
  BY <1>2, <1>3, <1>4, OneAsker
<1>6. CASE ~Open(d)
  <2>1. UNCHANGED <<draft, quotes>>
    BY <1>1, <1>6 DEF AppendEstimate
  <2> QED BY <1>2, <1>4, <1>5, <2>1, StillStep
<1>7. CASE Open(d)
  <2>1. /\ Len(quotes[d]) < MaxQuotes /\ draft[d] # Nothing
        /\ draft' = [draft EXCEPT ![d].status = "ESTIMATED"]
        /\ quotes' = [quotes EXCEPT ![d] =
                         Append(@, [source |-> asked[r].source, who |-> asked[r].who])]
    BY <1>1, <1>7 DEF AppendEstimate, Open
  <2>2. asked[r] # Nothing /\ asked[r] \in Authorities
    BY <1>2, OutletParts DEF OutletInv, AskedIsNoted
  <2>3. asked[r].version = version /\ asked[r].who = Who /\ asked[r].source = Source
    BY <1>2, <2>2 DEF OutletInv, VersionTellsAccount, EstimateHoldsAccount
  <2>4. /\ draft'[d] # Nothing /\ draft'[d].pickup = draft[d].pickup
        /\ \A e \in Drafts \ {d} : draft'[e] = draft[e]
    BY <1>2, <2>1, StatusType
  <2>5. /\ \A e \in Drafts \ {d} : quotes'[e] = quotes[e]
        /\ Len(quotes'[d]) = Len(quotes[d]) + 1
        /\ quotes'[d][Len(quotes'[d])] = [source |-> asked[r].source, who |-> asked[r].who]
    BY <1>2, <2>1, <2>2, QuotesType
  <2>6. DraftStep(d) /\ \A e \in Drafts \ {d} : DraftStep(e)
    BY <1>2, <1>7, <2>4, <2>5 DEF DraftStep
  <2>7. PickupFits(d)
    BY <1>1, <2>2, <2>3 DEF OutletInv, EstimateHoldsAccount, PickupFits, Source
  <2> QED BY <1>4, <1>5, <2>1, <2>3, <2>4, <2>5, <2>6, <2>7
<1> QED BY <1>6, <1>7

\* Writing an order.
LEMMA QueueStep ==
    ASSUME OutletTypeOK, OutletInv, NEW r \in Orderings, QueueOrder(r)
    PROVE  /\ \A d \in Drafts : DraftStep(d)
           /\ \A q \in Clerks \ Orderings : AskerStep(q)
           /\ \A q \in Orderings : OrderStep(q)
           /\ AccountStep
           /\ UNCHANGED quotes
           /\ \A d \in Drafts : draft[d] = Nothing => draft'[d] = Nothing
<1>1. PICK d, n : d = TargetOf[r] /\ n = named[r]
  OBVIOUS
<1>2. /\ d \in Drafts /\ r \in Clerks /\ stage[r] = "locked" /\ draft[d] # Nothing
      /\ UNCHANGED <<account, version, points, quotes, named>>
  BY <1>1, FormsName, ClerkKinds DEF QueueOrder, OutletInv, ShownIsThere
<1>3. Return(r)
  <2>1. CASE SourceStands(d, n) /\ PickupFits(d) /\ OrderPolicy(d, n)
    BY <1>1, <2>1 DEF QueueOrder
  <2>2. CASE ~(SourceStands(d, n) /\ PickupFits(d) /\ OrderPolicy(d, n))
    BY <1>1, <2>2 DEF QueueOrder, Refuse
  <2> QED BY <2>1, <2>2
<1>4. /\ stage'[r] = "idle" /\ asked'[r] = Nothing
      /\ \A q \in Clerks \ {r} : stage'[q] = stage[q] /\ asked'[q] = asked[q]
  BY <1>2, <1>3, ReturnType
<1>5. /\ AccountStep
      /\ \A q \in Clerks \ Orderings : AskerStep(q)
      /\ \A q \in Orderings : OrderStep(q)
  <2>1. OrderStep(r)
    BY <1>4 DEF OrderStep
  <2>2. \A q \in Orderings \ {r} : named'[q] = named[q]
    BY <1>2
  <2> QED BY <1>2, <1>4, <2>1, <2>2, OneOrdering, StillStep
<1>6. CASE ~(SourceStands(d, n) /\ PickupFits(d) /\ OrderPolicy(d, n))
  <2>1. UNCHANGED <<order, draft>>
    BY <1>1, <1>6 DEF QueueOrder
  <2> QED BY <1>2, <1>5, <2>1, StillStep
<1>7. CASE SourceStands(d, n) /\ PickupFits(d) /\ OrderPolicy(d, n)
  <2>1. /\ order' = [order EXCEPT ![d] = [quote |-> n, who |-> Who]]
        /\ draft' = [draft EXCEPT ![d].status = "SUBMISSION_QUEUED"]
    BY <1>1, <1>7 DEF QueueOrder
  <2>2. n = Len(quotes[d]) /\ Connected /\ quotes[d][n].source = Source
    BY <1>7 DEF OrderPolicy, SourceStands
  <2>3. /\ draft'[d] # Nothing /\ draft'[d].pickup = draft[d].pickup
        /\ draft'[d].status = "SUBMISSION_QUEUED"
        /\ \A e \in Drafts \ {d} : draft'[e] = draft[e]
    BY <1>2, <2>1, StatusType
  <2>4. order'[d] = [quote |-> n, who |-> Who] /\ \A e \in Drafts \ {d} : order'[e] = order[e]
    BY <1>2, <2>1 DEF OutletTypeOK
  <2>5. (Who = PlatformAccount) = (Source = "platform_default")
    BY <2>2, AuthorityType
  <2>6. DraftStep(d) /\ \A e \in Drafts \ {d} : DraftStep(e)
    BY <1>2, <2>2, <2>3, <2>4, <2>5 DEF DraftStep
  <2> QED BY <1>2, <1>5, <2>3, <2>6
<1> QED BY <1>6, <1>7

\* What a step does, whichever it is: to each shipment, to each request, to the account.
LEMMA OutletStep ==
    ASSUME OutletTypeOK, OutletInv, [OutletNext]_outletVars
    PROVE  /\ \A d \in Drafts : DraftStep(d)
           /\ \A r \in Clerks \ Orderings : AskerStep(r)
           /\ \A r \in Orderings : OrderStep(r)
           /\ AccountStep
<1>1. ASSUME NEW r \in Clerks \ Orderings, Ask(r),
             UNCHANGED <<account, version, points, paperVars, named>>,
             r \in Quotings => draft[TargetOf[r]] # Nothing /\ PickupFits(TargetOf[r])
      PROVE  /\ \A d \in Drafts : DraftStep(d)
             /\ \A q \in Clerks \ Orderings : AskerStep(q)
             /\ \A q \in Orderings : OrderStep(q)
             /\ AccountStep
  <2>1. /\ stage'[r] = "asked" /\ asked'[r] = Authority /\ Connected
        /\ \A q \in Clerks \ {r} : stage'[q] = stage[q] /\ asked'[q] = asked[q]
    BY <1>1, AskType DEF Ask, OutletTypeOK
  <2>2. AskerStep(r)
    BY <1>1, <2>1 DEF AskerStep
  <2> QED BY <1>1, <2>1, <2>2, OneAsker, StillStep DEF paperVars
<1>2. CASE \/ \E k \in OwnAccounts : ReplaceApiKey(k)
           \/ RestorePlatformDefault
           \/ \E p \in Pickups : SetDefaultPickup(p) \/ RemovePickup(p)
  BY <1>2, SettingsStep
<1>3. ASSUME NEW r \in Adds, AskPickups(r)
      PROVE  /\ \A d \in Drafts : DraftStep(d)
             /\ \A q \in Clerks \ Orderings : AskerStep(q)
             /\ \A q \in Orderings : OrderStep(q)
             /\ AccountStep
  BY <1>1, <1>3, ClerkKinds DEF AskPickups
<1>4. ASSUME NEW r \in Adds, AddPickup(r)
      PROVE  /\ \A d \in Drafts : DraftStep(d)
             /\ \A q \in Clerks \ Orderings : AskerStep(q)
             /\ \A q \in Orderings : OrderStep(q)
             /\ AccountStep
  <2>1. /\ r \in Clerks \ Orderings /\ Return(r) /\ version \in Nat
        /\ UNCHANGED <<account, draft, quotes, order, named>> /\ outletLock = Nothing
        /\ points \subseteq points' /\ version' \in {version, version + 1}
    BY <1>4, ClerkKinds, OutletParts DEF AddPickup, paperVars, OutletFree, Bump
  <2>2. /\ stage'[r] = "idle" /\ asked'[r] = Nothing
        /\ \A q \in Clerks \ {r} : stage'[q] = stage[q] /\ asked'[q] = asked[q]
    BY <2>1, ReturnType
  <2>3. AskerStep(r) /\ AccountStep
    BY <2>1, <2>2 DEF AskerStep, AccountStep
  <2> QED BY <2>1, <2>2, <2>3, OneAsker, StillStep
<1>5. ASSUME NEW s \in Saves, CheckArea(s)
      PROVE  /\ \A d \in Drafts : DraftStep(d)
             /\ \A q \in Clerks \ Orderings : AskerStep(q)
             /\ \A q \in Orderings : OrderStep(q)
             /\ AccountStep
  BY <1>1, <1>5, ClerkKinds DEF CheckArea
<1>6. ASSUME NEW s \in Saves, FindReplay(s)
      PROVE  /\ \A d \in Drafts : DraftStep(d)
             /\ \A q \in Clerks \ Orderings : AskerStep(q)
             /\ \A q \in Orderings : OrderStep(q)
             /\ AccountStep
  <2>1. CASE draft[FormOf[s].id] = Nothing
    <3>1. /\ stage' = [stage EXCEPT ![s] = "checked"] /\ stage[s] = "asked"
          /\ UNCHANGED <<account, version, points, draft, quotes, order, asked, named>>
      BY <1>6, <2>1 DEF FindReplay
    <3>2. s \in Clerks \ Orderings /\ stage'[s] = "checked"
          /\ \A q \in Clerks \ {s} : stage'[q] = stage[q] /\ asked'[q] = asked[q]
      BY <3>1, ClerkKinds DEF OutletTypeOK
    <3>3. AskerStep(s)
      BY <3>1, <3>2 DEF AskerStep
    <3> QED BY <3>1, <3>2, <3>3, OneAsker, StillStep
  <2>2. CASE draft[FormOf[s].id] # Nothing
    <3>1. PICK a : Tell(s, a)
      BY <1>6, <2>2 DEF FindReplay
    <3>2. UNCHANGED <<draft, quotes, order>>
      BY <1>6, <3>1 DEF FindReplay, Tell
    <3> QED BY <3>1, <3>2, ToldStep, StillStep
  <2> QED BY <2>1, <2>2
<1>7. ASSUME NEW r \in Quotings, AskEstimate(r)
      PROVE  /\ \A d \in Drafts : DraftStep(d)
             /\ \A q \in Clerks \ Orderings : AskerStep(q)
             /\ \A q \in Orderings : OrderStep(q)
             /\ AccountStep
  BY <1>1, <1>7, ClerkKinds DEF AskEstimate, Open
<1>8. ASSUME NEW r \in Quotings, LockOutlet(r)
      PROVE  /\ \A d \in Drafts : DraftStep(d)
             /\ \A q \in Clerks \ Orderings : AskerStep(q)
             /\ \A q \in Orderings : OrderStep(q)
             /\ AccountStep
  <2>1. r \in Clerks \ Orderings /\ stage[r] = "asked"
        /\ UNCHANGED <<account, version, points, draft, quotes, order, named>>
    BY <1>8, ClerkKinds DEF LockOutlet
  <2>2. CASE Connected /\ SameAuthority(asked[r], Authority) /\ asked[r].from = From
    <3>1. stage' = [stage EXCEPT ![r] = "locked"] /\ UNCHANGED asked
      BY <1>8, <2>2 DEF LockOutlet
    <3>2. stage'[r] = "locked"
          /\ \A q \in Clerks \ {r} : stage'[q] = stage[q] /\ asked'[q] = asked[q]
      BY <2>1, <3>1 DEF OutletTypeOK
    <3>3. asked[r].version = version
      BY <2>2, AuthorityType DEF SameAuthority
    <3>4. AskerStep(r)
      BY <2>1, <3>1, <3>2, <3>3 DEF AskerStep
    <3> QED BY <2>1, <3>2, <3>4, OneAsker, StillStep
  <2>3. CASE ~(Connected /\ SameAuthority(asked[r], Authority) /\ asked[r].from = From)
    <3>1. Return(r)
      BY <1>8, <2>3 DEF LockOutlet
    <3>2. /\ stage'[r] = "idle" /\ asked'[r] = Nothing
          /\ \A q \in Clerks \ {r} : stage'[q] = stage[q] /\ asked'[q] = asked[q]
      BY <2>1, <3>1, ReturnType
    <3>3. AskerStep(r)
      BY <3>2 DEF AskerStep
    <3> QED BY <2>1, <3>2, <3>3, OneAsker, StillStep
  <2> QED BY <2>2, <2>3
\* An order that begins, waits or is refused.
<1>9. ASSUME NEW r \in Orderings, UNCHANGED <<account, version, points, draft, quotes, order>>,
             \/ Return(r) /\ UNCHANGED named
             \/ /\ \E x \in {"checked", "locked"} : stage' = [stage EXCEPT ![r] = x]
                /\ stage[r] # "idle" /\ UNCHANGED <<asked, named>>
      PROVE  /\ \A d \in Drafts : DraftStep(d)
             /\ \A q \in Clerks \ Orderings : AskerStep(q)
             /\ \A q \in Orderings : OrderStep(q)
             /\ AccountStep
  <2>1. r \in Clerks
    BY ClerkKinds
  <2>2. /\ \A q \in Clerks \ {r} : stage'[q] = stage[q] /\ asked'[q] = asked[q]
        /\ asked'[r] \in {asked[r], Nothing} /\ UNCHANGED named
        /\ stage'[r] = "idle" \/ stage[r] # "idle"
    BY <1>9, <2>1, ReturnType DEF OutletTypeOK
  <2>3. OrderStep(r)
    BY <2>2 DEF OrderStep
  <2> QED BY <1>9, <2>2, <2>3, OneOrdering, StillStep
<1>10. ASSUME NEW r \in Orderings, ConfirmOrder(r)
       PROVE  /\ \A d \in Drafts : DraftStep(d)
              /\ \A q \in Clerks \ Orderings : AskerStep(q)
              /\ \A q \in Orderings : OrderStep(q)
              /\ AccountStep
  <2>1. /\ named' = [named EXCEPT ![r] = Len(quotes[TargetOf[r]])]
        /\ stage' = [stage EXCEPT ![r] = "asked"] /\ quotes[TargetOf[r]] # <<>>
        /\ draft[TargetOf[r]] # Nothing
        /\ UNCHANGED <<account, version, points, draft, quotes, order, asked>>
    BY <1>10 DEF ConfirmOrder, paperVars, Open
  <2>2. /\ named'[r] = Len(quotes[TargetOf[r]])
        /\ \A q \in Orderings \ {r} : named'[q] = named[q]
        /\ \A q \in Clerks \ {r} : stage'[q] = stage[q] /\ asked'[q] = asked[q]
    BY <2>1 DEF OutletTypeOK
  <2>3. OrderStep(r)
    BY <2>1, <2>2 DEF OrderStep
  <2> QED BY <2>1, <2>2, <2>3, OneOrdering, StillStep
<1>11. ASSUME NEW r \in Orderings, StartSelection(r) \/ LockSelection(r)
       PROVE  /\ \A d \in Drafts : DraftStep(d)
              /\ \A q \in Clerks \ Orderings : AskerStep(q)
              /\ \A q \in Orderings : OrderStep(q)
              /\ AccountStep
  <2>1. UNCHANGED <<account, version, points, draft, quotes, order, named>>
        /\ stage[r] # "idle"
    BY <1>11 DEF StartSelection, LockSelection, paperVars
  <2>2. CASE Refuse(r)
    BY <1>9, <2>1, <2>2 DEF Refuse
  <2>3. CASE ~Refuse(r)
    <3>1. UNCHANGED asked /\ \E x \in {"checked", "locked"} : stage' = [stage EXCEPT ![r] = x]
      BY <1>11, <2>3 DEF StartSelection, LockSelection
    <3> QED BY <1>9, <2>1, <3>1
  <2> QED BY <2>2, <2>3
<1>12. ASSUME NEW r \in Clerks, GiveUp(r)
       PROVE  /\ \A d \in Drafts : DraftStep(d)
              /\ \A q \in Clerks \ Orderings : AskerStep(q)
              /\ \A q \in Orderings : OrderStep(q)
              /\ AccountStep
  <2>1. UNCHANGED <<account, version, points, draft, quotes, order, named>> /\ Return(r)
    BY <1>12 DEF GiveUp
  <2>2. CASE r \in Orderings
    BY <1>9, <2>1, <2>2
  <2>3. CASE r \notin Orderings
    <3>1. /\ stage'[r] = "idle" /\ asked'[r] = Nothing
          /\ \A q \in Clerks \ {r} : stage'[q] = stage[q] /\ asked'[q] = asked[q]
      BY <2>1, ReturnType
    <3>2. AskerStep(r)
      BY <3>1 DEF AskerStep
    <3> QED BY <2>1, <2>3, <3>1, <3>2, OneAsker, StillStep
  <2> QED BY <2>2, <2>3
<1>13. CASE UNCHANGED outletVars
  <2>1. UNCHANGED <<account, version, points, draft, quotes, order, stage, asked, named>>
    BY <1>13 DEF outletVars
  <2>2. \A q \in Clerks \ Orderings : AskerStep(q)
    BY <2>1 DEF AskerStep
  <2>3. \A q \in Orderings : OrderStep(q)
    BY <2>1 DEF OrderStep
  <2> QED BY <2>1, <2>2, <2>3, StillStep
<1> QED BY <1>2, <1>3, <1>4, <1>5, <1>6, <1>7, <1>8, <1>10, <1>11, <1>12, <1>13,
           SaveStep, EstimateStep, QueueStep DEF OutletNext

\* Where there is no draft, nothing can be stale.
LEMMA OutletInitInv == OutletInit => OutletInv
<1> SUFFICES ASSUME OutletInit PROVE OutletInv
  OBVIOUS
<1> USE OutletAssumption
<1>1. /\ \A d \in Drafts : draft[d] = Nothing /\ order[d] = Nothing
      /\ \A r \in Clerks : stage[r] = "idle" /\ asked[r] = Nothing
  BY DEF OutletInit
<1>2. DraftsStand
  BY <1>1 DEF DraftsStand, OpenDraftKeepsPickup, OrderedAtNewestQuote, Open
<1>3. ShownIsThere /\ AskedIsNoted /\ VersionTellsAccount /\ EstimateHoldsAccount
  BY <1>1, ClerkKinds DEF ShownIsThere, AskedIsNoted, VersionTellsAccount, EstimateHoldsAccount
<1> QED BY <1>2, <1>3 DEF OutletInv

\* Every step keeps what a draft and an order stand on, and what the requests noted.
LEMMA OutletNextInv ==
    OutletTypeOK /\ OutletInv /\ [OutletNext]_outletVars => OutletInv'
<1> SUFFICES ASSUME OutletTypeOK, OutletInv, [OutletNext]_outletVars PROVE OutletInv'
  OBVIOUS
<1> USE OutletAssumption
<1>1. /\ \A d \in Drafts : DraftStep(d)
      /\ \A r \in Clerks \ Orderings : AskerStep(r)
      /\ \A r \in Orderings : OrderStep(r)
      /\ AccountStep
  BY OutletStep
<1>2. \A d \in Drafts : Len(quotes[d]) \in Nat /\ (quotes[d] # <<>> => Len(quotes[d]) # 0)
  BY OutletParts
\* A shipment stays, with its pickup, and its estimates stay under an order.
<1>3. \A d \in Drafts :
         /\ draft[d] # Nothing => draft'[d] # Nothing /\ draft'[d].pickup = draft[d].pickup
         /\ Len(quotes[d]) <= Len(quotes'[d]) /\ Len(quotes'[d]) \in Nat
  BY <1>1, <1>2 DEF DraftStep
<1>4. OpenDraftKeepsPickup'
  <2> SUFFICES ASSUME NEW d \in Drafts, Open(d)' PROVE draft'[d].pickup \in points'
    BY DEF OpenDraftKeepsPickup
  <2>1. draft'[d] # Nothing /\ draft'[d].status \in {"DRAFT", "ESTIMATED"}
    BY DEF Open
  <2>2. CASE draft[d] = Nothing
    BY <1>1, <2>1, <2>2 DEF DraftStep, Open
  <2>3. CASE draft[d] # Nothing
    <3>1. Open(d) /\ draft'[d].pickup = draft[d].pickup
      BY <1>1, <2>1, <2>3 DEF DraftStep, Open
    <3>2. draft[d].pickup \in points
      BY <3>1 DEF OutletInv, DraftsStand, OpenDraftKeepsPickup
    <3>3. CASE points \subseteq points'
      BY <3>1, <3>2, <3>3
    <3>4. CASE \E p \in Pickups : points' = points \ {p} /\ ~HeldByDrafts(p)
      <4>1. PICK p \in Pickups : points' = points \ {p} /\ ~HeldByDrafts(p)
        BY <3>4
      <4>2. draft[d].pickup # p
        BY <3>1, <4>1 DEF HeldByDrafts, Open
      <4> QED BY <3>1, <3>2, <4>1, <4>2
    <3> QED BY <1>1, <3>3, <3>4 DEF AccountStep
  <2> QED BY <2>2, <2>3
<1>5. OrderedAtNewestQuote'
  <2> SUFFICES ASSUME NEW d \in Drafts, order'[d] # Nothing
               PROVE  /\ order'[d].quote = Len(quotes'[d])
                      /\ (order'[d].who = PlatformAccount)
                            = (quotes'[d][order'[d].quote].source = "platform_default")
    BY DEF OrderedAtNewestQuote
  <2>1. CASE order'[d] = order[d]
    <3>1. draft[d] # Nothing /\ ~Open(d)
      BY <2>1 DEF OutletTypeOK, Open
    <3>2. quotes'[d] = quotes[d]
      BY <1>1, <3>1 DEF DraftStep
    <3> QED BY <2>1, <3>2 DEF OutletInv, DraftsStand, OrderedAtNewestQuote
  <2>2. CASE order'[d] # order[d]
    BY <1>1, <2>2 DEF DraftStep
  <2> QED BY <2>1, <2>2
<1>6. ShownIsThere'
  <2> SUFFICES ASSUME NEW r \in Orderings, stage'[r] # "idle"
               PROVE  /\ draft'[TargetOf[r]] # Nothing
                      /\ named'[r] \in 1 .. Len(quotes'[TargetOf[r]])
    BY DEF ShownIsThere
  <2>1. PICK d \in Drafts : d = TargetOf[r]
    BY FormsName
  <2>2. CASE stage[r] # "idle" /\ named'[r] = named[r]
    <3>1. draft[d] # Nothing /\ named[r] \in 1 .. Len(quotes[d])
      BY <2>1, <2>2 DEF OutletInv, ShownIsThere
    <3> QED BY <1>2, <1>3, <2>1, <2>2, <3>1
  <2>3. CASE draft[d] # Nothing /\ quotes[d] # <<>> /\ named'[r] = Len(quotes[d])
             /\ quotes' = quotes
    <3>1. Len(quotes[d]) \in 1 .. Len(quotes'[d])
      BY <1>2, <2>3
    <3> QED BY <1>3, <2>1, <2>3, <3>1
  <2> QED BY <1>1, <2>1, <2>2, <2>3 DEF OrderStep
<1>7. AskedIsNoted'
  <2> SUFFICES ASSUME NEW r \in Clerks \ Orderings, stage'[r] # "idle" PROVE asked'[r] # Nothing
    BY DEF AskedIsNoted
  <2>1. CASE asked'[r] = asked[r] /\ stage[r] # "idle"
    BY <2>1 DEF OutletInv, AskedIsNoted
  <2>2. CASE Connected /\ asked'[r] = Authority
    BY <2>2, AuthorityType
  <2> QED BY <1>1, <2>1, <2>2 DEF AskerStep
<1>8. /\ version \in Nat /\ version' \in Nat /\ version <= version'
      /\ version' = version => Who' = Who /\ Source' = Source
  <2>1. version \in Nat /\ version <= version' /\ (version' = version => account' = account)
    BY <1>1, OutletParts DEF AccountStep
  <2>2. version' \in Nat
    <3>1. OutletTypeOK'
      BY OutletNextType
    <3>2. version' \in 1 .. MaxVersion
      BY <3>1 DEF OutletTypeOK
    <3> QED BY <3>2
  <2> QED BY <2>1, <2>2 DEF Who, Source
<1>9. ASSUME NEW r \in Clerks, asked'[r] # Nothing, asked'[r] = asked[r]
      PROVE  /\ asked'[r].version <= version'
             /\ asked'[r].version = version' =>
                   asked'[r].who = Who' /\ asked'[r].source = Source'
  <2>1. /\ asked[r].version <= version
        /\ asked[r].version = version => asked[r].who = Who /\ asked[r].source = Source
    BY <1>9 DEF OutletInv, VersionTellsAccount
  <2>2. asked[r].version \in Nat
    BY <1>9, OutletParts DEF Authorities
  <2> QED BY <1>8, <1>9, <2>1, <2>2
<1>10. VersionTellsAccount'
  <2> SUFFICES ASSUME NEW r \in Clerks, asked'[r] # Nothing
               PROVE  /\ asked'[r].version <= version'
                      /\ asked'[r].version = version' =>
                            asked'[r].who = Who' /\ asked'[r].source = Source'
    BY DEF VersionTellsAccount
  <2>1. CASE asked'[r] = Authority /\ Connected /\ UNCHANGED version
    BY <1>8, <2>1, AuthorityType
  <2>2. asked'[r] = asked[r] \/ (asked'[r] = Authority /\ Connected /\ UNCHANGED version)
    BY <1>1 DEF AskerStep, OrderStep
  <2> QED BY <1>9, <2>1, <2>2
<1>11. EstimateHoldsAccount'
  <2> SUFFICES ASSUME NEW r \in Quotings
               PROVE  /\ stage'[r] = "locked" => asked'[r].version = version'
                      /\ asked'[r] # Nothing =>
                            /\ draft'[TargetOf[r]] # Nothing
                            /\ asked'[r].source = "platform_default" =>
                                  draft'[TargetOf[r]].pickup = PlatformPickup
    BY DEF EstimateHoldsAccount
  <2>1. PICK d \in Drafts : d = TargetOf[r]
    BY FormsName
  <2>2. r \in Clerks \ Orderings /\ AskerStep(r)
    BY <1>1, ClerkKinds
  <2>3. ASSUME stage'[r] = "locked" PROVE asked'[r].version = version'
    <3>1. CASE stage[r] = "locked" /\ asked'[r] = asked[r]
      <4>1. asked[r].version = version
        BY <3>1 DEF OutletInv, EstimateHoldsAccount
      <4>2. outletLock = r /\ r # Nothing
        BY <2>2, <3>1 DEF OutletTypeOK
      <4> QED BY <1>1, <3>1, <4>1, <4>2 DEF AccountStep
    <3> QED BY <2>2, <2>3, <3>1 DEF AskerStep
  <2>4. ASSUME asked'[r] # Nothing
        PROVE  /\ draft'[d] # Nothing
               /\ asked'[r].source = "platform_default" => draft'[d].pickup = PlatformPickup
    <3>1. CASE asked'[r] = asked[r]
      BY <1>3, <2>1, <2>4, <3>1 DEF OutletInv, EstimateHoldsAccount
    <3>2. CASE asked'[r] = Authority /\ Connected /\ draft[d] # Nothing /\ PickupFits(d)
      <4>1. asked'[r].source = "platform_default" => account = Nothing
        BY <3>2, AuthorityType DEF Source
      <4> QED BY <1>3, <3>2, <4>1 DEF PickupFits
    <3> QED BY <2>1, <2>2, <2>4, <3>1, <3>2 DEF AskerStep
  <2> QED BY <2>1, <2>3, <2>4
<1> QED BY <1>4, <1>5, <1>6, <1>7, <1>10, <1>11 DEF OutletInv, DraftsStand

\* What is saved was meant, step by step: a draft is created by a save that was checked with
\* the account the outlet has, and an estimate recorded of the account the outlet has.
LEMMA OutletNextMeant ==
    ASSUME OutletTypeOK, OutletInv, [OutletNext]_outletVars
    PROVE  /\ \A s \in Saves : Creates(s) =>
                 /\ asked[s].who = Who
                 /\ \/ FormOf[s].sure
                    \/ \A d \in Drafts : draft[d] # Nothing => draft[d].phone # FormOf[s].phone
           /\ \A d \in Drafts : quotes'[d] # quotes[d] =>
                 Last(quotes'[d]).who = Who /\ PickupFits(d)
<1>1. ASSUME NEW s \in Saves, Creates(s)
      PROVE  /\ asked[s].who = Who
             /\ \/ FormOf[s].sure
                \/ \A d \in Drafts : draft[d] # Nothing => draft[d].phone # FormOf[s].phone
  <2>1. PICK d \in Drafts : d = FormOf[s].id
    BY FormsName
  <2>2. draft[d] = Nothing /\ draft'[d] # Nothing /\ stage'[s] # stage[s] /\ s \in Clerks
    BY <1>1, <2>1, ClerkKinds DEF Creates
  <2>3. \E q \in Saves : SaveDraft(q)
    <3>1. ~\E r \in Quotings : AppendEstimate(r)
      BY <2>2, EstimateStep
    <3>2. ~\E r \in Orderings : QueueOrder(r)
      BY <2>2, QueueStep
    <3> QED BY <2>2, <3>1, <3>2 DEF OutletNext, outletVars, ReplaceApiKey,
          RestorePlatformDefault, SetDefaultPickup, RemovePickup, AskPickups, AddPickup,
          CheckArea, FindReplay, AskEstimate, LockOutlet, ConfirmOrder, StartSelection,
          LockSelection, GiveUp, paperVars
  <2>4. PICK q \in Saves : SaveDraft(q)
    BY <2>3
  <2>5. q = s
    BY <2>2, <2>4, SaveStep
  <2>6. asked[s].who = Who /\ (FormOf[s].sure \/ ~PhoneSeen(FormOf[s]))
    BY <2>2, <2>4, <2>5, SaveStep
  <2> QED BY <2>6 DEF PhoneSeen
<1>2. ASSUME NEW d \in Drafts, quotes'[d] # quotes[d]
      PROVE  Last(quotes'[d]).who = Who /\ PickupFits(d)
  <2>1. \E r \in Quotings : AppendEstimate(r)
    <3>1. ~\E r \in Orderings : QueueOrder(r)
      BY <1>2, QueueStep
    <3>2. ~\E s \in Saves : SaveDraft(s)
      <4>1. \A s \in Saves : \A a : Tell(s, a) => quotes' = quotes
        BY DEF Tell
      <4>2. \A s \in Saves : SaveDraft(s) => \E a : Tell(s, a)
        BY DEF SaveDraft, CreateDraft
      <4> QED BY <1>2, <4>1, <4>2
    <3>3. ~\E s \in Saves : FindReplay(s)
      BY <1>2 DEF FindReplay, Tell
    <3> QED BY <1>2, <3>1, <3>2, <3>3 DEF OutletNext, outletVars, ReplaceApiKey,
          RestorePlatformDefault, SetDefaultPickup, RemovePickup, AskPickups, AddPickup,
          CheckArea, AskEstimate, LockOutlet, ConfirmOrder, StartSelection,
          LockSelection, GiveUp, paperVars
  <2>2. quotes'[d][Len(quotes'[d])].who = Who /\ PickupFits(d)
    BY <1>2, <2>1, EstimateStep
  <2> QED BY <2>2 DEF Last
<1> QED BY <1>1, <1>2

\* The state of an outlet is typed: whoever holds its row or a shipment's is at work, and an
\* order has a shipment that is queued.  The steps keep it only together with OutletInv.
THEOREM OutletTypeCorrect == OutletSpec => []OutletTypeOK
<1>1. OutletInit => OutletTypeOK /\ OutletInv
  BY OutletInitType, OutletInitInv
<1>2. OutletTypeOK /\ OutletInv /\ [OutletNext]_outletVars => (OutletTypeOK /\ OutletInv)'
  BY OutletNextType, OutletNextInv
<1> QED BY <1>1, <1>2, PTL DEF OutletSpec

\* What the drafts, estimates and orders of an outlet rest on holds in every state, for any
\* accounts, pickup points and requests of any kind.
THEOREM OutletSound == OutletSpec => []OutletInv
<1>1. OutletInit => OutletTypeOK /\ OutletInv
  BY OutletInitType, OutletInitInv
<1>2. OutletTypeOK /\ OutletInv /\ [OutletNext]_outletVars => (OutletTypeOK /\ OutletInv)'
  BY OutletNextType, OutletNextInv
<1> QED BY <1>1, <1>2, PTL DEF OutletSpec

\* The pickup of an open shipment is never removed under it (PickupPointInUseError), and an
\* order names the newest estimate, at an account of the kind that made it.
THEOREM DraftsAlwaysStand == OutletSpec => []DraftsStand
<1>1. OutletInv => DraftsStand
  BY DEF OutletInv
<1> QED BY <1>1, OutletSound, PTL

\* However often the account is replaced while Mengantar is asked, an answer is used under
\* the account that gave it only; and a second shipment to a number is never an accident.
THEOREM SavesAlwaysMeant == OutletSpec => SavesAreMeant
<1> DEFINE Fresh == /\ \A s \in Saves : Creates(s) => asked[s].who = Who
                    /\ \A d \in Drafts : quotes'[d] # quotes[d] =>
                          Last(quotes'[d]).who = Who /\ PickupFits(d)
           Sure == \A s \in Saves : Creates(s) =>
                      \/ FormOf[s].sure
                      \/ \A d \in Drafts : draft[d] # Nothing =>
                            draft[d].phone # FormOf[s].phone
<1>1. OutletTypeOK /\ OutletInv /\ [OutletNext]_outletVars => [Fresh]_outletVars
  BY OutletNextMeant
<1>2. OutletTypeOK /\ OutletInv /\ [OutletNext]_outletVars => [Sure]_outletVars
  BY OutletNextMeant
<1>3. OutletSpec => [][Fresh]_outletVars
  BY <1>1, OutletTypeCorrect, OutletSound, PTL DEF OutletSpec
<1>4. OutletSpec => [][Sure]_outletVars
  BY <1>2, OutletTypeCorrect, OutletSound, PTL DEF OutletSpec
<1> QED BY <1>3, <1>4 DEF SavesAreMeant, StaleAnswersRefused, SecondShipmentIsMeant

-----------------------------------------------------------------------------
(* From the resi to the courier (LabelDesk) *)

\* A finite set of parcels has a smallest and a largest one.
LEMMA Extremes ==
    ASSUME NEW S, S \subseteq Nat, IsFiniteSet(S), S # {}
    PROVE  /\ Min(S) \in S /\ \A t \in S : Min(S) <= t
           /\ \E s \in S : \A t \in S : t <= s
<1>1. IsWellFoundedOn(StrictSubsetOrdering(S), SUBSET S)
  BY FS_StrictSubsetOrderingWellFounded, FS_FiniteSubsetsOfFinite
<1>2. \E s \in S : \A t \in S : s <= t
  <2> DEFINE T == {{t \in S : t < s} : s \in S}
  <2>1. T \subseteq SUBSET S /\ T # {}
    OBVIOUS
  <2>2. PICK X \in T : \A Y \in T : ~(<<Y, X>> \in StrictSubsetOrdering(S))
    BY <1>1, <2>1, WFMin
  <2>3. PICK s \in S : X = {t \in S : t < s}
    OBVIOUS
  <2>4. ASSUME NEW t \in S, t < s PROVE FALSE
    <3>1. {u \in S : u < t} \in T
      OBVIOUS
    <3>2. s \in Nat /\ t \in Nat /\ ~(t < t) /\ \A u \in S : u \in Nat
      OBVIOUS
    <3>3. \A u \in S : u < t => u < s
      BY <2>4, <3>2
    <3>4. {u \in S : u < t} \subseteq X /\ {u \in S : u < t} # X
      BY <2>3, <2>4, <3>2, <3>3
    <3> QED BY <2>2, <3>1, <3>4, <2>3 DEF StrictSubsetOrdering
  <2>5. \A t \in S : s \in Nat /\ t \in Nat
    OBVIOUS
  <2> QED BY <2>4, <2>5
<1>3. \E s \in S : \A t \in S : t <= s
  <2> DEFINE T == {{t \in S : t > s} : s \in S}
  <2>1. T \subseteq SUBSET S /\ T # {}
    OBVIOUS
  <2>2. PICK X \in T : \A Y \in T : ~(<<Y, X>> \in StrictSubsetOrdering(S))
    BY <1>1, <2>1, WFMin
  <2>3. PICK s \in S : X = {t \in S : t > s}
    OBVIOUS
  <2>4. ASSUME NEW t \in S, t > s PROVE FALSE
    <3>1. {u \in S : u > t} \in T
      OBVIOUS
    <3>2. s \in Nat /\ t \in Nat /\ ~(t > t) /\ \A u \in S : u \in Nat
      OBVIOUS
    <3>3. \A u \in S : u > t => u > s
      BY <2>4, <3>2
    <3>4. {u \in S : u > t} \subseteq X /\ {u \in S : u > t} # X
      BY <2>3, <2>4, <3>2, <3>3
    <3> QED BY <2>2, <3>1, <3>4, <2>3 DEF StrictSubsetOrdering
  <2>5. \A t \in S : s \in Nat /\ t \in Nat
    OBVIOUS
  <2> QED BY <2>4, <2>5
<1> QED BY <1>2, <1>3 DEF Min

\* Requests of different kinds are different, and none of them is nobody.
LEMMA RequestKinds ==
    /\ \A r \in Lockers : r \notin Issues /\ r # NoRequest
    /\ \A i \in Issues : i \notin Lockers /\ i # NoRequest
    /\ \A p \in Prints : p \in Lockers /\ p \notin Marks /\ p \notin Undos /\ p \notin Moves
    /\ \A m \in Marks : m \in Lockers /\ m \notin Prints /\ m \notin Undos /\ m \notin Moves
    /\ \A u \in Undos : u \in Lockers /\ u \notin Prints /\ u \notin Marks /\ u \notin Moves
    /\ \A v \in Moves : v \in Lockers /\ v \notin Prints /\ v \notin Marks /\ v \notin Undos
BY DeskAssumption DEF Lockers

\* A request lists each of its parcels once.
LEMMA WantedRows ==
    ASSUME NEW r \in Lockers \cup Issues
    PROVE  /\ ToSet(Wanted[r]) \subseteq Parcels /\ ToSet(Wanted[r]) \subseteq Nat
           /\ ToSet(Wanted[r]) # {} /\ IsFiniteSet(ToSet(Wanted[r]))
           /\ Cardinality(ToSet(Wanted[r])) = Len(Wanted[r]) /\ Len(Wanted[r]) \in Nat \ {0}
           /\ \A n \in 1 .. Len(Wanted[r]) : Wanted[r][n] \in Parcels
<1> DEFINE w == Wanted[r]
           T == ToSet(w)
<1>1. w \in Seq(Parcels) /\ w # <<>> /\ IsInjective(w)
  BY DeskAssumption
<1> HIDE DEF w
<1>2. /\ w \in [1 .. Len(w) -> Parcels] /\ Len(w) \in Nat \ {0} /\ DOMAIN w = 1 .. Len(w)
      /\ w[1] \in T
  BY <1>1 DEF ToSet
<1>3. T \subseteq Parcels /\ \A n \in 1 .. Len(w) : w[n] \in T
  BY <1>2 DEF ToSet
<1>4. w \in Surjection(1 .. Len(w), T)
  <2>1. w \in [1 .. Len(w) -> T]
    BY <1>2, <1>3
  <2>2. \A t \in T : \E n \in 1 .. Len(w) : w[n] = t
    BY <1>2 DEF ToSet
  <2> QED BY <2>1, <2>2 DEF Surjection
<1>5. w \in Injection(1 .. Len(w), T)
  <2>1. w \in [1 .. Len(w) -> T]
    BY <1>2, <1>3
  <2> QED BY <1>1, <2>1 DEF Injection
<1>6. IsFiniteSet(1 .. Len(w)) /\ Cardinality(1 .. Len(w)) = Len(w)
  BY <1>2, FS_Interval
<1>7. IsFiniteSet(T) /\ Cardinality(T) = Len(w)
  BY <1>4, <1>5, <1>6, FS_Surjection
<1>8. T # {} /\ T \subseteq Nat
  BY <1>2, <1>3, DeskAssumption
<1> QED BY <1>2, <1>3, <1>7, <1>8 DEF w

\* The numbers of what is listed.
LEMMA ListDomain ==
    ASSUME NEW X, NEW w \in Seq(X)
    PROVE  DOMAIN w = 1 .. Len(w) /\ \A n \in 1 .. Len(w) : w[n] \in X
OBVIOUS

\* A request for one parcel wants just that.
LEMMA WantedOne ==
    ASSUME NEW r \in Prints \cup Undos
    PROVE  ToSet(Wanted[r]) = {ParcelOf(r)} /\ ParcelOf(r) \in Parcels
<1>1. r \in Lockers /\ Len(Wanted[r]) = 1 /\ Wanted[r] \in Seq(Parcels)
  BY DeskAssumption, RequestKinds
<1>2. DOMAIN Wanted[r] = {1}
  BY <1>1
<1> QED BY <1>1, <1>2 DEF ToSet, ParcelOf

\* What an event adds to those of its parcel.
LEMMA AppendSet ==
    ASSUME NEW X, NEW w \in Seq(X), NEW x \in X
    PROVE  /\ ToSet(Append(w, x)) = ToSet(w) \cup {x}
           /\ Append(w, x) \in Seq(X) /\ Append(w, x) # <<>> /\ Last(Append(w, x)) = x
           /\ IsInjective(w) /\ x \notin ToSet(w) => IsInjective(Append(w, x))
<1>1. /\ DOMAIN w = 1 .. Len(w) /\ Len(w) \in Nat
      /\ DOMAIN Append(w, x) = 1 .. Len(w) + 1 /\ Append(w, x) \in Seq(X)
      /\ Len(Append(w, x)) = Len(w) + 1
      /\ Append(w, x)[Len(w) + 1] = x
      /\ \A n \in 1 .. Len(w) : Append(w, x)[n] = w[n]
  OBVIOUS
<1>2. ToSet(Append(w, x)) = ToSet(w) \cup {x}
  BY <1>1 DEF ToSet
<1>3. Append(w, x) # <<>> /\ Last(Append(w, x)) = x
  BY <1>1 DEF Last
<1>4. ASSUME IsInjective(w), x \notin ToSet(w) PROVE IsInjective(Append(w, x))
  <2>1. \A n \in 1 .. Len(w) : w[n] # x
    BY <1>1, <1>4 DEF ToSet
  <2>2. \A m, n \in 1 .. Len(w) : w[m] = w[n] => m = n
    BY <1>1, <1>4 DEF IsInjective
  <2>3. ASSUME NEW m \in 1 .. Len(w) + 1, NEW n \in 1 .. Len(w) + 1,
               Append(w, x)[m] = Append(w, x)[n]
        PROVE  m = n
    BY <1>1, <2>1, <2>2, <2>3
  <2> QED BY <1>1, <2>3 DEF IsInjective
<1> QED BY <1>1, <1>2, <1>3, <1>4

-----------------------------------------------------------------------------
\* What the requests hold, apart from what they write: a request that locks shipments,
LockerOK(r) ==
    /\ step[r] \in {"idle", "locking", "locked", "decided"}
    /\ Held(r) \subseteq ToSet(Wanted[r])
    /\ step[r] = "idle" => Held(r) = {}
    /\ step[r] \in {"locked", "decided"} => Held(r) = ToSet(Wanted[r])
    /\ step[r] = "locking" =>
          /\ Held(r) # ToSet(Wanted[r])
          /\ \A s \in Held(r) : \A t \in ToSet(Wanted[r]) \ Held(r) : s < t
    /\ plan[r] \subseteq Held(r) /\ (plan[r] # {} => step[r] = "decided")
    /\ r \in Prints /\ step[r] = "decided" => plan[r] = {ParcelOf(r)}

\* one that draws invoices,
IssueOK(i) ==
    /\ step[i] \in {"idle", "listing", "drawing"}
    /\ item[i] <= Len(Wanted[i]) + 1
    /\ step[i] = "drawing" => item[i] <= Len(Wanted[i])
    /\ plan[i] \subseteq {Wanted[i][n] : n \in 1 .. item[i] - 1}
    /\ \A s \in plan[i] : \A j \in Issues \ {i} : s \notin plan[j]
    /\ {s \in Parcels : i \in keyShare[s]} = plan[i]

\* and all of them.
RequestsOK ==
    /\ rowLock \in [Parcels -> Lockers \cup {NoRequest}]
    /\ keyShare \in [Parcels -> SUBSET Issues]
    /\ step \in [Lockers \cup Issues -> {"idle", "locking", "locked", "decided", "listing",
                                         "drawing"}]
    /\ plan \in [Lockers \cup Issues -> SUBSET Parcels]
    /\ item \in [Issues -> Nat \ {0}]
    /\ \A r \in Lockers : LockerOK(r)
    /\ \A i \in Issues : IssueOK(i)

\* A request that nothing happens to stays as it was.
LEMMA LockerRests ==
    ASSUME NEW r \in Lockers, LockerOK(r), UNCHANGED <<step[r], plan[r], Held(r)>>
    PROVE  LockerOK(r)'
BY DEF LockerOK

\* An invoice request that a step does not move stays in order.
LEMMA IssueRests ==
    ASSUME NEW i \in Issues, IssueOK(i), UNCHANGED <<step[i], plan[i], item[i]>>,
           {s \in Parcels : i \in keyShare'[s]} = {s \in Parcels : i \in keyShare[s]},
           \A s \in plan[i] : \A j \in Issues \ {i} : s \notin plan'[j]
    PROVE  IssueOK(i)'
BY DEF IssueOK

\* The row a request waits for is the smallest that it wants and has not.
LEMMA NextRowWanted ==
    ASSUME RequestsOK, NEW r \in Lockers, step[r] = "locking"
    PROVE  /\ NextRow(r) \in ToSet(Wanted[r]) \ Held(r)
           /\ \A t \in ToSet(Wanted[r]) \ Held(r) : NextRow(r) <= t
           /\ NextRow(r) \in Parcels
<1>1. Held(r) \subseteq ToSet(Wanted[r]) /\ Held(r) # ToSet(Wanted[r])
  BY DEF RequestsOK, LockerOK
<1>2. /\ ToSet(Wanted[r]) \subseteq Parcels /\ ToSet(Wanted[r]) \subseteq Nat
      /\ IsFiniteSet(ToSet(Wanted[r]))
  BY WantedRows
<1> DEFINE S == {s \in ToSet(Wanted[r]) : rowLock[s] # r}
<1>3. S = ToSet(Wanted[r]) \ Held(r)
  BY <1>2 DEF Held
<1>4. S # {} /\ S \subseteq Nat /\ IsFiniteSet(S)
  BY <1>1, <1>2, <1>3, FS_Subset
<1>5. NextRow(r) = Min(S)
  BY DEF NextRow
<1> HIDE DEF S
<1>6. Min(S) \in S /\ \A t \in S : Min(S) <= t
  BY <1>4, Extremes
<1> QED BY <1>2, <1>3, <1>5, <1>6

\* Locking a row: the next one, until there is none left.
LEMMA LockRowRequests ==
    ASSUME RequestsOK, NEW r \in Lockers, LockRow(r)
    PROVE  RequestsOK'
<1> DEFINE n == NextRow(r)
           w == ToSet(Wanted[r])
<1>1. /\ n \in w \ Held(r) /\ n \in Parcels /\ \A t \in w \ Held(r) : n <= t
      /\ step[r] = "locking" /\ rowLock[n] = NoRequest
  BY NextRowWanted DEF LockRow, RowFree
<1>2. /\ w \subseteq Nat /\ IsFiniteSet(w) /\ Cardinality(w) = Len(Wanted[r])
  BY WantedRows
<1>3. /\ rowLock' = [rowLock EXCEPT ![n] = r]
      /\ step' = IF Cardinality(Held(r)) + 1 = Len(Wanted[r])
                 THEN [step EXCEPT ![r] = "locked"] ELSE step
      /\ UNCHANGED <<keyShare, plan, item>>
  BY DEF LockRow
<1>4. LockerOK(r) /\ r \notin Issues /\ r # NoRequest
  BY RequestKinds DEF RequestsOK
<1> HIDE DEF n, w
<1>5. /\ rowLock' \in [Parcels -> Lockers \cup {NoRequest}]
      /\ step' \in [Lockers \cup Issues -> {"idle", "locking", "locked", "decided", "listing",
                                            "drawing"}]
      /\ \A q \in (Lockers \cup Issues) \ {r} : step'[q] = step[q]
      /\ step'[r] \in {"locking", "locked"}
  BY <1>1, <1>3 DEF RequestsOK
<1>6. /\ Held(r)' = Held(r) \cup {n}
      /\ \A q \in Lockers \ {r} : Held(q)' = Held(q)
  <2>1. rowLock'[n] = r /\ \A s \in Parcels \ {n} : rowLock'[s] = rowLock[s]
    BY <1>1, <1>3 DEF RequestsOK
  <2>2. \A q \in Lockers : rowLock[n] # q
    BY <1>1, RequestKinds
  <2> QED BY <1>1, <2>1, <2>2 DEF Held
<1>7. Held(r) \subseteq w /\ plan[r] = {}
      /\ \A s \in Held(r) : \A t \in w \ Held(r) : s < t
  BY <1>1, <1>4 DEF LockerOK, w
<1>8. step'[r] = "locked" <=> Held(r)' = w
  <2>1. /\ IsFiniteSet(Held(r)) /\ Cardinality(Held(r)) \in Nat
        /\ IsFiniteSet(Held(r)') /\ Cardinality(Held(r)') = Cardinality(Held(r)) + 1
    BY <1>1, <1>2, <1>6, <1>7, FS_Subset, FS_AddElement, FS_CardinalityType
  <2>2. Held(r)' \subseteq w
    BY <1>1, <1>6, <1>7
  <2>3. Cardinality(Held(r)') = Len(Wanted[r]) <=> Held(r)' = w
    BY <1>2, <2>1, <2>2, FS_Subset
  <2>4. step'[r] = "locked" <=> Cardinality(Held(r)) + 1 = Len(Wanted[r])
    BY <1>1, <1>3 DEF RequestsOK
  <2> QED BY <2>1, <2>3, <2>4
<1>9. \A s \in Held(r)' : \A t \in w \ Held(r)' : s < t
  <2> SUFFICES ASSUME NEW s \in Held(r)', NEW t \in w \ Held(r)' PROVE s < t
    OBVIOUS
  <2>1. t \in w \ Held(r) /\ t # n /\ n <= t /\ t \in Nat /\ n \in Nat
    BY <1>1, <1>2, <1>6
  <2>2. CASE s = n
    BY <2>1, <2>2
  <2>3. CASE s \in Held(r)
    BY <1>7, <2>1, <2>3
  <2> QED BY <1>6, <2>2, <2>3
<1>10. LockerOK(r)'
  BY <1>1, <1>3, <1>5, <1>6, <1>7, <1>8, <1>9 DEF LockerOK, w
<1>11. \A q \in Lockers : LockerOK(q)'
  BY <1>3, <1>5, <1>6, <1>10, LockerRests DEF RequestsOK
<1>12. \A i \in Issues : IssueOK(i)'
  <2> SUFFICES ASSUME NEW i \in Issues PROVE IssueOK(i)'
    OBVIOUS
  <2>1. IssueOK(i) /\ UNCHANGED <<step[i], plan[i], item[i], keyShare, plan>>
    BY <1>3, <1>4, <1>5 DEF RequestsOK
  <2> QED BY <2>1 DEF IssueOK
<1> QED BY <1>3, <1>5, <1>11, <1>12 DEF RequestsOK

\* Beginning, deciding, or going on to the next invoice: a step changes, and maybe a plan.
LEMMA OneRequest ==
    ASSUME RequestsOK, NEW r \in Lockers, UNCHANGED <<rowLock, keyShare, item>>,
           NEW x \in {"locking", "decided"}, NEW writes \in SUBSET ToSet(Wanted[r]),
           step' = [step EXCEPT ![r] = x], plan' = [plan EXCEPT ![r] = writes],
           x = "locking" => step[r] = "idle" /\ writes = {},
           x = "decided" => /\ step[r] = "locked"
                            /\ r \in Prints => writes = {ParcelOf(r)}
    PROVE  RequestsOK'
<1>1. /\ LockerOK(r) /\ ToSet(Wanted[r]) \subseteq Parcels /\ ToSet(Wanted[r]) # {}
      /\ r \notin Issues
  BY WantedRows, RequestKinds DEF RequestsOK
<1>2. /\ step' \in [Lockers \cup Issues -> {"idle", "locking", "locked", "decided", "listing",
                                            "drawing"}]
      /\ plan' \in [Lockers \cup Issues -> SUBSET Parcels]
      /\ \A q \in (Lockers \cup Issues) \ {r} : step'[q] = step[q] /\ plan'[q] = plan[q]
      /\ step'[r] = x /\ plan'[r] = writes
  BY <1>1 DEF RequestsOK
<1>3. \A q \in Lockers : Held(q)' = Held(q)
  BY DEF Held
<1>4. LockerOK(r)'
  <2>1. CASE x = "locking"
    BY <1>1, <1>2, <1>3, <2>1 DEF LockerOK
  <2>2. CASE x = "decided"
    BY <1>1, <1>2, <1>3, <2>2 DEF LockerOK
  <2> QED BY <2>1, <2>2
<1>5. \A q \in Lockers : LockerOK(q)'
  BY <1>2, <1>3, <1>4, LockerRests DEF RequestsOK
<1>6. \A i \in Issues : IssueOK(i)'
  <2> SUFFICES ASSUME NEW i \in Issues PROVE IssueOK(i)'
    OBVIOUS
  <2>1. IssueOK(i) /\ UNCHANGED <<step[i], plan[i], item[i], keyShare>>
    BY <1>1, <1>2 DEF RequestsOK
  <2>2. \A j \in Issues : plan'[j] = plan[j]
    BY <1>1, <1>2
  <2> QED BY <2>1, <2>2 DEF IssueOK
<1> QED BY <1>2, <1>5, <1>6 DEF RequestsOK

\* A transaction that ends, whichever it is, lets go of everything.
LEMMA EndRequests ==
    ASSUME RequestsOK, NEW r \in Lockers \cup Issues, EndRequest(r),
           item' = item \/ (r \in Issues /\ item' = [item EXCEPT ![r] = 1])
    PROVE  /\ RequestsOK'
           /\ step'[r] = "idle" /\ plan'[r] = {}
           /\ \A q \in (Lockers \cup Issues) \ {r} : step'[q] = step[q] /\ plan'[q] = plan[q]
<1>1. /\ step' = [step EXCEPT ![r] = "idle"]
      /\ plan' = [plan EXCEPT ![r] = {}]
      /\ rowLock' = [s \in Parcels |-> IF rowLock[s] = r THEN NoRequest ELSE rowLock[s]]
      /\ keyShare' = [s \in Parcels |-> keyShare[s] \ {r}]
  BY DEF EndRequest
<1>2. /\ step' \in [Lockers \cup Issues -> {"idle", "locking", "locked", "decided", "listing",
                                            "drawing"}]
      /\ plan' \in [Lockers \cup Issues -> SUBSET Parcels]
      /\ \A q \in (Lockers \cup Issues) \ {r} : step'[q] = step[q] /\ plan'[q] = plan[q]
      /\ step'[r] = "idle" /\ plan'[r] = {}
  BY <1>1 DEF RequestsOK
<1>3. /\ rowLock' \in [Parcels -> Lockers \cup {NoRequest}]
      /\ keyShare' \in [Parcels -> SUBSET Issues]
      /\ item' \in [Issues -> Nat \ {0}]
      /\ \A i \in Issues : item'[i] = item[i] \/ (i = r /\ item'[i] = 1)
  BY <1>1 DEF RequestsOK
<1>4. /\ \A q \in Lockers \ {r} : Held(q)' = Held(q)
      /\ r \in Lockers => Held(r)' = {}
  BY <1>1, RequestKinds DEF Held
<1>5. \A q \in Lockers : LockerOK(q)'
  <2> SUFFICES ASSUME NEW q \in Lockers PROVE LockerOK(q)'
    OBVIOUS
  <2>1. CASE q = r
    BY <1>2, <1>4, <2>1 DEF LockerOK
  <2>2. CASE q # r
    BY <1>2, <1>4, <2>2, LockerRests DEF RequestsOK
  <2> QED BY <2>1, <2>2
<1>6. \A i \in Issues : IssueOK(i)'
  <2> SUFFICES ASSUME NEW i \in Issues PROVE IssueOK(i)'
    OBVIOUS
  <2>0. IssueOK(i) /\ Len(Wanted[i]) \in Nat /\ item[i] \in Nat
    BY WantedRows DEF RequestsOK
  <2>1. CASE i = r
    <3>1. item'[i] <= Len(Wanted[i]) + 1
      BY <1>3, <2>0 DEF IssueOK
    <3>2. {s \in Parcels : i \in keyShare'[s]} = {}
      BY <1>1, <2>1
    <3> QED BY <1>2, <2>1, <3>1, <3>2 DEF IssueOK
  <2>2. CASE i # r
    <3>1. UNCHANGED <<step[i], plan[i], item[i]>>
      BY <1>2, <1>3, <2>2
    <3>2. {s \in Parcels : i \in keyShare'[s]} = {s \in Parcels : i \in keyShare[s]}
      BY <1>1, <2>2
    <3>3. \A j \in Issues : plan'[j] \subseteq plan[j]
      BY <1>2
    <3>4. \A s \in plan[i] : \A j \in Issues \ {i} : s \notin plan'[j]
      BY <2>0, <3>3 DEF IssueOK
    <3> QED BY <2>0, <3>1, <3>2, <3>4, IssueRests
  <2> QED BY <2>1, <2>2
<1> QED BY <1>2, <1>3, <1>5, <1>6 DEF RequestsOK

\* A request that goes through its list.
LEMMA ListRequests ==
    ASSUME RequestsOK, NEW i \in Issues, UNCHANGED <<rowLock, keyShare, plan>>,
           NEW x \in {"listing", "drawing"}, NEW n \in Nat \ {0},
           step' = [step EXCEPT ![i] = x], item' = [item EXCEPT ![i] = n],
           item[i] <= n, n <= Len(Wanted[i]) + 1, x = "drawing" => n <= Len(Wanted[i])
    PROVE  RequestsOK'
<1>1. /\ step' \in [Lockers \cup Issues -> {"idle", "locking", "locked", "decided", "listing",
                                            "drawing"}]
      /\ item' \in [Issues -> Nat \ {0}]
      /\ \A q \in (Lockers \cup Issues) \ {i} : step'[q] = step[q]
      /\ \A j \in Issues \ {i} : item'[j] = item[j]
      /\ step'[i] = x /\ item'[i] = n /\ i \notin Lockers
  BY RequestKinds DEF RequestsOK
<1>2. \A q \in Lockers : LockerOK(q)'
  <2> SUFFICES ASSUME NEW q \in Lockers PROVE LockerOK(q)'
    OBVIOUS
  <2>1. UNCHANGED <<step[q], plan[q], Held(q)>> /\ LockerOK(q)
    BY <1>1 DEF Held, RequestsOK
  <2> QED BY <2>1, LockerRests
<1>3. \A j \in Issues \ {i} : IssueOK(j)'
  <2> SUFFICES ASSUME NEW j \in Issues \ {i} PROVE IssueOK(j)'
    OBVIOUS
  <2>1. IssueOK(j) /\ UNCHANGED <<step[j], item[j], plan, keyShare>>
    BY <1>1 DEF RequestsOK
  <2> QED BY <2>1 DEF IssueOK
<1>4. IssueOK(i)'
  <2>1. IssueOK(i) /\ item[i] \in Nat
    BY DEF RequestsOK
  <2>2. {Wanted[i][k] : k \in 1 .. item[i] - 1} \subseteq {Wanted[i][k] : k \in 1 .. n - 1}
    BY <2>1
  <2>3. plan'[i] \subseteq {Wanted[i][k] : k \in 1 .. item'[i] - 1}
    BY <1>1, <2>1, <2>2 DEF IssueOK
  <2> QED BY <1>1, <2>1, <2>3 DEF IssueOK
<1> QED BY <1>1, <1>2, <1>3, <1>4 DEF RequestsOK

\* An invoice that is drawn is drawn by nobody else.
LEMMA DrawRequests ==
    ASSUME RequestsOK, NEW i \in Issues, DrawInvoice(i)
    PROVE  RequestsOK'
<1>1. PICK s : s = Item(i)
  OBVIOUS
<1>2. /\ step[i] = "drawing" /\ Drawing(s) = {} /\ UNCHANGED rowLock
      /\ step' = [step EXCEPT ![i] = "listing"] /\ item' = [item EXCEPT ![i] = item[i] + 1]
  BY <1>1 DEF DrawInvoice, NextItem
<1>3. IssueOK(i) /\ item[i] \in Nat \ {0} /\ i \notin Lockers /\ item[i] <= Len(Wanted[i])
  BY <1>2, RequestKinds DEF RequestsOK, IssueOK
<1>4. s \in Parcels /\ s = Wanted[i][item[i]] /\ Len(Wanted[i]) \in Nat
  BY <1>1, <1>3, WantedRows DEF Item
<1>5. CASE UNCHANGED <<plan, keyShare>>
  <2>1. /\ item[i] + 1 \in Nat \ {0} /\ item[i] <= item[i] + 1
        /\ item[i] + 1 <= Len(Wanted[i]) + 1
    BY <1>3, <1>4
  <2> QED BY <1>2, <1>5, <2>1, ListRequests
<1>6. CASE ~UNCHANGED <<plan, keyShare>>
  <2>1. /\ plan' = [plan EXCEPT ![i] = plan[i] \cup {s}]
        /\ keyShare' = [keyShare EXCEPT ![s] = keyShare[s] \cup {i}]
    BY <1>1, <1>6 DEF DrawInvoice
  <2>2. /\ step' \in [Lockers \cup Issues -> {"idle", "locking", "locked", "decided", "listing",
                                              "drawing"}]
        /\ item' \in [Issues -> Nat \ {0}]
        /\ plan' \in [Lockers \cup Issues -> SUBSET Parcels]
        /\ \A q \in (Lockers \cup Issues) \ {i} : step'[q] = step[q] /\ plan'[q] = plan[q]
        /\ \A j \in Issues \ {i} : item'[j] = item[j]
        /\ step'[i] = "listing" /\ item'[i] = item[i] + 1 /\ plan'[i] = plan[i] \cup {s}
    BY <1>2, <1>3, <1>4, <2>1 DEF RequestsOK
  <2>3. /\ keyShare' \in [Parcels -> SUBSET Issues]
        /\ keyShare'[s] = keyShare[s] \cup {i}
        /\ \A t \in Parcels \ {s} : keyShare'[t] = keyShare[t]
    BY <1>4, <2>1 DEF RequestsOK
  <2>4. \A j \in Issues : s \notin plan[j]
    BY <1>2 DEF Drawing
  <2>5. \A q \in Lockers : LockerOK(q)'
    <3> SUFFICES ASSUME NEW q \in Lockers PROVE LockerOK(q)'
      OBVIOUS
    <3>1. UNCHANGED <<step[q], plan[q], Held(q)>> /\ LockerOK(q)
      BY <1>2, <1>3, <2>2 DEF Held, RequestsOK
    <3> QED BY <3>1, LockerRests
  <2>6. \A j \in Issues \ {i} : IssueOK(j)'
    <3> SUFFICES ASSUME NEW j \in Issues \ {i} PROVE IssueOK(j)'
      OBVIOUS
    <3>1. IssueOK(j) /\ UNCHANGED <<step[j], plan[j], item[j]>>
      BY <2>2 DEF RequestsOK
    <3>2. {t \in Parcels : j \in keyShare'[t]} = {t \in Parcels : j \in keyShare[t]}
      BY <2>3
    <3>3. \A t \in plan[j] : \A k \in Issues \ {j} : t \notin plan'[k]
      BY <2>2, <2>4, <3>1 DEF IssueOK
    <3> QED BY <3>1, <3>2, <3>3, IssueRests
  <2>7. IssueOK(i)'
    <3>1. plan'[i] \subseteq {Wanted[i][n] : n \in 1 .. item'[i] - 1}
      <4>1. plan[i] \subseteq {Wanted[i][n] : n \in 1 .. item[i] - 1}
        BY <1>3 DEF IssueOK
      <4>2. {Wanted[i][n] : n \in 1 .. item[i] - 1} \subseteq {Wanted[i][n] : n \in 1 .. item[i]}
        BY <1>3
      <4>3. s \in {Wanted[i][n] : n \in 1 .. item[i]}
        BY <1>3, <1>4
      <4>4. item'[i] - 1 = item[i]
        BY <1>3, <2>2
      <4> QED BY <2>2, <4>1, <4>2, <4>3, <4>4
    <3>2. \A t \in plan'[i] : \A j \in Issues \ {i} : t \notin plan'[j]
      BY <1>3, <2>2, <2>4 DEF IssueOK
    <3>3. {t \in Parcels : i \in keyShare'[t]} = plan'[i]
      <4>1. {t \in Parcels : i \in keyShare[t]} = plan[i]
        BY <1>3 DEF IssueOK
      <4> QED BY <1>4, <2>2, <2>3, <4>1
    <3>4. item'[i] <= Len(Wanted[i]) + 1
      BY <1>3, <1>4, <2>2
    <3> QED BY <2>2, <3>1, <3>2, <3>3, <3>4 DEF IssueOK
  <2> QED BY <1>2, <2>2, <2>3, <2>5, <2>6, <2>7 DEF RequestsOK
<1> QED BY <1>5, <1>6

\* What the requests hold stays consistent, whatever becomes of the parcels.
LEMMA RequestsNext ==
    ASSUME RequestsOK, [DeskNext]_deskVars
    PROVE  RequestsOK'
<1>1. ASSUME NEW r \in Lockers, BeginRequest(r) PROVE RequestsOK'
  <2>1. plan[r] = {}
    BY <1>1 DEF BeginRequest, RequestsOK, LockerOK
  <2>2. plan' = [plan EXCEPT ![r] = {}]
    BY <1>1, <2>1 DEF BeginRequest, RequestsOK
  <2>3. /\ step[r] = "idle" /\ step' = [step EXCEPT ![r] = "locking"]
        /\ UNCHANGED <<rowLock, keyShare, item>>
    BY <1>1 DEF BeginRequest
  <2> QED BY <2>2, <2>3, OneRequest
<1>2. ASSUME NEW r \in Lockers, LockRow(r) PROVE RequestsOK'
  BY <1>2, LockRowRequests
<1>3. ASSUME NEW r \in Lockers \cup Issues, AbortRequest(r) PROVE RequestsOK'
  <2>1. EndRequest(r) /\ (item' = item \/ (r \in Issues /\ item' = [item EXCEPT ![r] = 1]))
    BY <1>3 DEF AbortRequest
  <2> QED BY <2>1, EndRequests
<1>4. ASSUME UNCHANGED <<desk, rowLock, keyShare, item>> PROVE RequestsOK'
  <2>1. \A q \in Lockers : LockerOK(q)'
    BY <1>4 DEF RequestsOK, LockerOK, Held, desk
  <2>2. \A i \in Issues : IssueOK(i)'
    BY <1>4 DEF RequestsOK, IssueOK, desk
  <2> QED BY <1>4, <2>1, <2>2 DEF RequestsOK, desk
<1>5. ASSUME NEW p \in Prints, ReplayPrint(p) PROVE RequestsOK'
  BY <1>4, <1>5 DEF ReplayPrint
<1>6. ASSUME NEW p \in Prints, ReplayAfterLock(p) \/ RecordPrint(p) PROVE RequestsOK'
  <2>1. EndRequest(p) /\ item' = item
    BY <1>6 DEF ReplayAfterLock, RecordPrint
  <2> QED BY <2>1, EndRequests, RequestKinds
<1>7. ASSUME NEW r \in Lockers, NEW writes \in SUBSET ToSet(Wanted[r]), step[r] = "locked",
             Decide(r, writes), r \in Prints => writes = {ParcelOf(r)}
      PROVE  RequestsOK'
  <2>1. /\ step' = [step EXCEPT ![r] = "decided"] /\ plan' = [plan EXCEPT ![r] = writes]
        /\ UNCHANGED <<rowLock, keyShare, item>>
    BY <1>7 DEF Decide
  <2> QED BY <1>7, <2>1, OneRequest
<1>8. ASSUME NEW p \in Prints, DecidePrint(p) PROVE RequestsOK'
  <2>1. p \in Lockers /\ {ParcelOf(p)} \in SUBSET ToSet(Wanted[p])
    BY RequestKinds, WantedOne
  <2> QED BY <1>7, <1>8, <2>1 DEF DecidePrint
<1>9. ASSUME NEW m \in Marks, DecideMark(m) PROVE RequestsOK'
  <2>1. m \in Lockers /\ m \notin Prints /\ step[m] = "locked"
        /\ \E writes \in SUBSET ToSet(Wanted[m]) : Decide(m, writes)
    BY <1>9, RequestKinds DEF DecideMark
  <2> QED BY <1>7, <2>1
<1>10. ASSUME NEW u \in Undos, DecideUndo(u) PROVE RequestsOK'
  <2>1. u \in Lockers /\ u \notin Prints /\ step[u] = "locked"
        /\ ToSet(Wanted[u]) = {ParcelOf(u)}
    BY <1>10, RequestKinds, WantedOne DEF DecideUndo
  <2>2. \E writes \in SUBSET ToSet(Wanted[u]) : Decide(u, writes)
    BY <1>10, <2>1 DEF DecideUndo
  <2> QED BY <1>7, <2>1, <2>2
<1>11. ASSUME NEW r \in Marks \cup Undos, RecordHandover(r) PROVE RequestsOK'
  <2>1. EndRequest(r) /\ item' = item /\ r \in Lockers
    BY <1>11, RequestKinds DEF RecordHandover
  <2> QED BY <2>1, EndRequests
<1>12. ASSUME NEW v \in Moves, MoveParcels(v) PROVE RequestsOK'
  <2>1. EndRequest(v) /\ item' = item /\ v \in Lockers
    BY <1>12, RequestKinds DEF MoveParcels
  <2> QED BY <2>1, EndRequests
<1>13. ASSUME NEW i \in Issues, BeginInvoices(i) \/ StartInvoice(i) PROVE RequestsOK'
  <2>1. item[i] \in Nat \ {0} /\ item[i] <= item[i] /\ item[i] <= Len(Wanted[i]) + 1
    BY WantedRows DEF RequestsOK, IssueOK
  <2>2. item' = [item EXCEPT ![i] = item[i]]
    BY <1>13 DEF BeginInvoices, StartInvoice, RequestsOK
  <2>3. CASE BeginInvoices(i)
    <3>1. step' = [step EXCEPT ![i] = "listing"] /\ UNCHANGED <<rowLock, keyShare, plan>>
      BY <2>3 DEF BeginInvoices
    <3> QED BY <2>1, <2>2, <3>1, ListRequests
  <2>4. CASE StartInvoice(i)
    <3>1. step' = [step EXCEPT ![i] = "drawing"] /\ UNCHANGED <<rowLock, keyShare, plan>>
          /\ item[i] <= Len(Wanted[i])
      BY <2>4 DEF StartInvoice
    <3> QED BY <2>1, <2>2, <3>1, ListRequests
  <2> QED BY <1>13, <2>3, <2>4
<1>14. ASSUME NEW i \in Issues, SkipInvoice(i) PROVE RequestsOK'
  <2>1. item[i] \in Nat \ {0} /\ Len(Wanted[i]) \in Nat /\ item[i] <= Len(Wanted[i])
    BY <1>14, WantedRows DEF RequestsOK, SkipInvoice
  <2>2. /\ item' = [item EXCEPT ![i] = item[i] + 1] /\ step' = [step EXCEPT ![i] = "listing"]
        /\ UNCHANGED <<rowLock, keyShare, plan>>
    BY <1>14 DEF SkipInvoice, NextItem
  <2>3. item[i] + 1 \in Nat \ {0} /\ item[i] <= item[i] + 1 /\ item[i] + 1 <= Len(Wanted[i]) + 1
    BY <2>1
  <2> QED BY <2>2, <2>3, ListRequests
<1>15. ASSUME NEW i \in Issues, DrawInvoice(i) PROVE RequestsOK'
  BY <1>15, DrawRequests
<1>16. ASSUME NEW i \in Issues, CommitInvoices(i) PROVE RequestsOK'
  <2>1. EndRequest(i) /\ item' = [item EXCEPT ![i] = 1]
    BY <1>16 DEF CommitInvoices
  <2> QED BY <2>1, EndRequests
<1>17. CASE UNCHANGED deskVars
  BY <1>4, <1>17 DEF deskVars, desk
<1> QED BY <1>1, <1>2, <1>3, <1>5, <1>6, <1>8, <1>9, <1>10, <1>11, <1>12, <1>13, <1>14, <1>15,
           <1>16, <1>17 DEF DeskNext

-----------------------------------------------------------------------------
\* What is known of the parcels: the types, and nobody has an invoice that is being drawn.
ParcelTypes ==
    /\ parcel \in [Parcels -> ParcelStatuses]
    /\ resi \subseteq Parcels
    /\ printed \in [Parcels -> Seq(Attempts)]
    /\ blocked \subseteq PrintEvents
    /\ handovers \in [Parcels -> Seq(HandoverKinds)]
    /\ invoice \in [Parcels -> Invoices]
    /\ told \in [Prints -> PrintOutcomes \cup {NoAnswer}]

\* Whoever draws an invoice draws the first of its parcel.
InvoiceFree == \A i \in Issues : \A s \in plan[i] : invoice[s] = NoRequest

\* The invariant is what the requests hold, and what is known of the parcels.
LEMMA DeskHalves ==
    (DeskTypeOK /\ DeskInv) <=>
        (RequestsOK /\ ParcelTypes /\ ParcelsFollow /\ InvoiceFree
           /\ DecisionsStand /\ AttemptRecordedOnce)
<1>1. ASSUME DeskTypeOK, DeskInv
      PROVE  RequestsOK /\ ParcelTypes /\ ParcelsFollow /\ InvoiceFree
               /\ DecisionsStand /\ AttemptRecordedOnce
  <2>1. ASSUME NEW r \in Lockers PROVE LockerOK(r)
    BY <1>1 DEF DeskTypeOK, DeskInv, RowsInOrder, PlansUnderLocks, LockerOK
  <2>2. ASSUME NEW i \in Issues PROVE IssueOK(i) /\ \A s \in plan[i] : invoice[s] = NoRequest
    <3>1. /\ step[i] \in {"idle", "listing", "drawing"}
          /\ step[i] = "drawing" => item[i] <= Len(Wanted[i])
          /\ plan[i] \subseteq {Wanted[i][n] : n \in 1 .. item[i] - 1}
          /\ \A s \in plan[i] : invoice[s] = NoRequest /\ Drawing(s) = {i}
      BY <1>1 DEF DeskInv, DrawnOnce
    <3>2. \A s \in plan[i] : \A j \in Issues \ {i} : s \notin plan[j]
      BY <3>1 DEF Drawing
    <3>3. item[i] <= Len(Wanted[i]) + 1 /\ {s \in Parcels : i \in keyShare[s]} = plan[i]
      BY <1>1 DEF DeskTypeOK
    <3> QED BY <3>1, <3>2, <3>3 DEF IssueOK
  <2>3. RequestsOK
    BY <1>1, <2>1, <2>2 DEF DeskTypeOK, RequestsOK
  <2>4. ParcelTypes
    BY <1>1 DEF DeskTypeOK, ParcelTypes
  <2> QED BY <1>1, <2>2, <2>3, <2>4 DEF DeskInv, InvoiceFree
<1>2. ASSUME RequestsOK, ParcelTypes, ParcelsFollow, InvoiceFree, DecisionsStand,
             AttemptRecordedOnce
      PROVE  DeskTypeOK /\ DeskInv
  <2>1. ASSUME NEW r \in Lockers
        PROVE  LockerOK(r) /\ (step[r] = "idle" => plan[r] = {})
    BY <1>2 DEF RequestsOK, LockerOK
  <2>2. ASSUME NEW i \in Issues
        PROVE  IssueOK(i) /\ \A s \in plan[i] : invoice[s] = NoRequest /\ Drawing(s) = {i}
    BY <1>2 DEF RequestsOK, InvoiceFree, IssueOK, Drawing
  <2>3. RowsInOrder
    BY <2>1 DEF RowsInOrder, LockerOK
  <2>4. PlansUnderLocks
    BY <2>1, RequestKinds DEF PlansUnderLocks, LockerOK
  <2>5. DrawnOnce
    BY <2>2 DEF DrawnOnce, IssueOK
  <2>6. DeskTypeOK
    <3>1. \A r \in Lockers :
             /\ step[r] = "idle" => Held(r) = {} /\ plan[r] = {}
             /\ step[r] \in {"locked", "decided"} => Held(r) = ToSet(Wanted[r])
      BY <2>1 DEF LockerOK
    <3>2. \A i \in Issues : item[i] <= Len(Wanted[i]) + 1
                            /\ {s \in Parcels : i \in keyShare[s]} = plan[i]
      BY <2>2 DEF IssueOK
    <3> QED BY <1>2, <3>1, <3>2 DEF DeskTypeOK, RequestsOK, ParcelTypes
  <2> QED BY <1>2, <2>3, <2>4, <2>5, <2>6 DEF DeskInv
<1> QED BY <1>1, <1>2

\* What an attempt was recorded as is one of the outcomes.
LEMMA OutcomeTypes ==
    ASSUME ParcelTypes
    PROVE  /\ \A a : PrintReplay(a) \subseteq PrintOutcomes
           /\ \A s \in Parcels : PrintCandidate(s) \in PrintOutcomes
           /\ \A p \in Prints : AttemptOf[p] \in Attempts /\ ParcelOf(p) \in Parcels
<1>1. ASSUME NEW a PROVE PrintReplay(a) \subseteq PrintOutcomes
  <2>1. "PRINTED" \in PrintOutcomes
    BY DEF PrintOutcomes
  <2>2. \A e \in blocked : e.reason \in PrintOutcomes
    BY DEF ParcelTypes, PrintEvents
  <2> QED BY <2>1, <2>2 DEF PrintReplay
<1>2. ASSUME NEW s \in Parcels PROVE PrintCandidate(s) \in PrintOutcomes
  BY DEF PrintCandidate, PrintOutcomes
<1>3. \A p \in Prints : AttemptOf[p] \in Attempts /\ ParcelOf(p) \in Parcels
  BY WantedOne DEF Attempts
<1> QED BY <1>1, <1>2, <1>3

\* Every step keeps the types of what it writes.
LEMMA ParcelTypesNext ==
    ASSUME RequestsOK, ParcelTypes, [DeskNext]_deskVars
    PROVE  ParcelTypes'
<1>1. ASSUME UNCHANGED <<parcel, resi, printed, blocked, handovers, invoice, told>>
      PROVE  ParcelTypes'
  BY <1>1 DEF ParcelTypes
<1>2. ASSUME NEW r \in Lockers, BeginRequest(r) \/ LockRow(r) PROVE ParcelTypes'
  BY <1>1, <1>2 DEF BeginRequest, LockRow
<1>3. ASSUME UNCHANGED <<parcel, resi, printed, blocked, handovers, invoice>>,
             told' \in [Prints -> PrintOutcomes \cup {NoAnswer}]
      PROVE  ParcelTypes'
  BY <1>3 DEF ParcelTypes
<1>4. ASSUME NEW r \in Lockers \cup Issues, AbortRequest(r) PROVE ParcelTypes'
  <2>1. told' \in [Prints -> PrintOutcomes \cup {NoAnswer}]
    BY <1>4 DEF AbortRequest, ParcelTypes
  <2> QED BY <1>3, <1>4, <2>1 DEF AbortRequest
<1>5. ASSUME NEW p \in Prints, ReplayPrint(p) \/ ReplayAfterLock(p) PROVE ParcelTypes'
  <2>1. PICK x \in PrintReplay(AttemptOf[p]) : told' = [told EXCEPT ![p] = x]
    BY <1>5 DEF ReplayPrint, ReplayAfterLock
  <2>2. x \in PrintOutcomes
    BY OutcomeTypes
  <2>3. told' \in [Prints -> PrintOutcomes \cup {NoAnswer}]
    BY <2>1, <2>2 DEF ParcelTypes
  <2> QED BY <1>3, <1>5, <2>3 DEF ReplayPrint, ReplayAfterLock
<1>6. ASSUME NEW r \in Lockers, NEW writes, Decide(r, writes) PROVE ParcelTypes'
  BY <1>1, <1>6 DEF Decide
<1>7. ASSUME NEW p \in Prints, RecordPrint(p) PROVE ParcelTypes'
  <2>1. PICK s, x, a : s = ParcelOf(p) /\ x = PrintCandidate(s) /\ a = AttemptOf[p]
    OBVIOUS
  <2>2. s \in Parcels /\ x \in PrintOutcomes /\ a \in Attempts
    BY <2>1, OutcomeTypes
  <2>3. /\ printed' = IF x = "PRINTED" THEN [printed EXCEPT ![s] = Append(printed[s], a)]
                      ELSE printed
        /\ blocked' = IF x = "PRINTED" THEN blocked
                      ELSE blocked \cup {[attempt |-> a, reason |-> x]}
        /\ \E answer \in {x, NoAnswer} : told' = [told EXCEPT ![p] = answer]
        /\ UNCHANGED <<parcel, resi, handovers, invoice>>
    BY <1>7, <2>1 DEF RecordPrint
  <2>4. printed' \in [Parcels -> Seq(Attempts)]
    <3>1. Append(printed[s], a) \in Seq(Attempts)
      BY <2>2 DEF ParcelTypes
    <3> QED BY <2>3, <3>1 DEF ParcelTypes
  <2>5. blocked' \subseteq PrintEvents
    <3>1. x # "PRINTED" => [attempt |-> a, reason |-> x] \in PrintEvents
      BY <2>2 DEF PrintEvents
    <3> QED BY <2>3, <3>1 DEF ParcelTypes
  <2>6. told' \in [Prints -> PrintOutcomes \cup {NoAnswer}]
    BY <2>2, <2>3 DEF ParcelTypes
  <2> QED BY <2>3, <2>4, <2>5, <2>6 DEF ParcelTypes
<1>8. ASSUME NEW r \in Marks \cup Undos, RecordHandover(r) PROVE ParcelTypes'
  <2>1. PICK kind \in HandoverKinds :
           /\ handovers' = [s \in Parcels |-> IF s \in plan[r] THEN Append(handovers[s], kind)
                                              ELSE handovers[s]]
           /\ UNCHANGED <<parcel, resi, printed, blocked, invoice, told>>
    BY <1>8 DEF RecordHandover, HandoverKinds
  <2>2. \A s \in Parcels : handovers[s] \in Seq(HandoverKinds)
    BY DEF ParcelTypes
  <2>3. \A s \in Parcels : Append(handovers[s], kind) \in Seq(HandoverKinds)
    BY <2>2
  <2>4. handovers' \in [Parcels -> Seq(HandoverKinds)]
    BY <2>1, <2>2, <2>3
  <2> QED BY <2>1, <2>4 DEF ParcelTypes
<1>9. ASSUME NEW v \in Moves, MoveParcels(v) PROVE ParcelTypes'
  BY <1>9 DEF MoveParcels, ParcelTypes
<1>10. ASSUME NEW i \in Issues,
              BeginInvoices(i) \/ SkipInvoice(i) \/ StartInvoice(i) \/ DrawInvoice(i)
       PROVE  ParcelTypes'
  BY <1>1, <1>10 DEF BeginInvoices, SkipInvoice, StartInvoice, DrawInvoice, NextItem
<1>11. ASSUME NEW i \in Issues, CommitInvoices(i) PROVE ParcelTypes'
  BY <1>11 DEF CommitInvoices, ParcelTypes, Invoices
<1>12. CASE UNCHANGED deskVars
  BY <1>1, <1>12 DEF deskVars
<1>13. ASSUME NEW r \in Lockers,
              \/ r \in Prints /\ DecidePrint(r)
              \/ r \in Marks /\ DecideMark(r)
              \/ r \in Undos /\ DecideUndo(r)
       PROVE  ParcelTypes'
  BY <1>6, <1>13 DEF DecidePrint, DecideMark, DecideUndo
<1> QED BY <1>2, <1>4, <1>5, <1>7, <1>8, <1>9, <1>10, <1>11, <1>12, <1>13, RequestKinds
        DEF DeskNext

-----------------------------------------------------------------------------
\* What is decided about a parcel is read of these.
RowStands(s) ==
    /\ parcel'[s] = parcel[s] /\ (s \in resi' <=> s \in resi)
    /\ printed'[s] = printed[s] /\ handovers'[s] = handovers[s]

\* What a step does to a request that locks rows: nothing; or the request begins or ends, or
\* it takes its decision.
PlanStep(r) ==
    \/ plan'[r] = plan[r] /\ step'[r] = step[r]
    \/ plan'[r] = {} /\ step'[r] # "decided"
    \/ /\ step[r] = "locked" /\ step'[r] = "decided"
       /\ UNCHANGED <<parcel, resi, printed, blocked, handovers>>
       /\ r \in Prints => PrintReplay(AttemptOf[r]) = {} /\ plan'[r] = {ParcelOf(r)}
       /\ r \in Marks => plan'[r] = {s \in ToSet(Wanted[r]) :
                                        HandoverRefusal(s) = "NONE" /\ ~HandedOver(s)}
       /\ r \in Undos => plan'[r] = {s \in {ParcelOf(r)} : Undoable(s)}

\* What a request means to write changes only when it decides, under its locks, or ends.
LEMMA PlanSteps ==
    ASSUME RequestsOK, [DeskNext]_deskVars, NEW r \in Lockers
    PROVE  PlanStep(r)
<1>0. LockerOK(r) /\ r \notin Issues
  BY RequestKinds DEF RequestsOK
<1>1. ASSUME NEW q \in Lockers, BeginRequest(q) PROVE PlanStep(r)
  BY <1>0, <1>1 DEF BeginRequest, PlanStep, RequestsOK, LockerOK
<1>2. ASSUME NEW q \in Lockers, LockRow(q) PROVE PlanStep(r)
  <2>1. CASE q = r
    <3>1. plan'[r] = plan[r] /\ plan[r] = {}
      BY <1>0, <1>2, <2>1 DEF LockRow, LockerOK
    <3>2. step'[r] # "decided"
      BY <1>2, <2>1 DEF LockRow, RequestsOK
    <3> QED BY <3>1, <3>2 DEF PlanStep
  <2>2. CASE q # r
    BY <1>2, <2>2 DEF LockRow, PlanStep, RequestsOK
  <2> QED BY <2>1, <2>2
<1>3. ASSUME NEW q \in Lockers \cup Issues, EndRequest(q) PROVE PlanStep(r)
  BY <1>3 DEF EndRequest, PlanStep, RequestsOK
<1>4. ASSUME NEW q \in Lockers, NEW writes, Decide(q, writes), q # r PROVE PlanStep(r)
  BY <1>4 DEF Decide, PlanStep, RequestsOK
<1>5. ASSUME NEW p \in Prints, ReplayPrint(p) PROVE PlanStep(r)
  BY <1>5 DEF ReplayPrint, PlanStep, desk
<1>6. ASSUME NEW p \in Prints, DecidePrint(p) PROVE PlanStep(r)
  <2>1. CASE p = r
    <3>1. step[r] = "locked" /\ Decide(r, {ParcelOf(r)}) /\ PrintReplay(AttemptOf[r]) = {}
      BY <1>6, <2>1 DEF DecidePrint
    <3>2. step'[r] = "decided" /\ plan'[r] = {ParcelOf(r)}
          /\ UNCHANGED <<parcel, resi, printed, blocked, handovers>>
      BY <3>1 DEF Decide, RequestsOK
    <3> QED BY <2>1, <3>1, <3>2, RequestKinds DEF PlanStep
  <2>2. CASE p # r
    BY <1>4, <1>6, <2>2, RequestKinds DEF DecidePrint
  <2> QED BY <2>1, <2>2
<1>7. ASSUME NEW m \in Marks, DecideMark(m) PROVE PlanStep(r)
  <2> DEFINE W == {s \in ToSet(Wanted[m]) : HandoverRefusal(s) = "NONE" /\ ~HandedOver(s)}
  <2>0. step[m] = "locked" /\ Decide(m, W)
    BY <1>7 DEF DecideMark
  <2>1. CASE m = r
    <3>2. step'[r] = "decided" /\ plan'[r] = W
          /\ UNCHANGED <<parcel, resi, printed, blocked, handovers>>
      BY <2>0, <2>1 DEF Decide, RequestsOK
    <3> QED BY <2>0, <2>1, <3>2, RequestKinds DEF PlanStep
  <2>2. CASE m # r
    BY <1>4, <2>0, <2>2, RequestKinds
  <2> QED BY <2>1, <2>2
<1>8. ASSUME NEW u \in Undos, DecideUndo(u) PROVE PlanStep(r)
  <2> DEFINE W == {s \in {ParcelOf(u)} : Undoable(s)}
  <2>0. step[u] = "locked" /\ Decide(u, W)
    BY <1>8 DEF DecideUndo
  <2>1. CASE u = r
    <3>2. step'[r] = "decided" /\ plan'[r] = W
          /\ UNCHANGED <<parcel, resi, printed, blocked, handovers>>
      BY <2>0, <2>1 DEF Decide, RequestsOK
    <3> QED BY <2>0, <2>1, <3>2, RequestKinds DEF PlanStep
  <2>2. CASE u # r
    BY <1>4, <2>0, <2>2, RequestKinds
  <2> QED BY <2>1, <2>2
<1>9. ASSUME NEW i \in Issues,
             BeginInvoices(i) \/ SkipInvoice(i) \/ StartInvoice(i) \/ DrawInvoice(i)
      PROVE  PlanStep(r)
  <2>1. i # r
    BY <1>0
  <2>2. step'[r] = step[r]
    BY <1>9, <2>1 DEF BeginInvoices, SkipInvoice, StartInvoice, DrawInvoice, NextItem, RequestsOK
  <2>3. plan'[r] = plan[r]
    BY <1>9, <2>1 DEF BeginInvoices, SkipInvoice, StartInvoice, DrawInvoice, NextItem, RequestsOK
  <2> QED BY <2>2, <2>3 DEF PlanStep
<1>10. CASE UNCHANGED deskVars
  BY <1>10 DEF deskVars, desk, PlanStep
<1>11. ASSUME NEW p \in Prints, ReplayAfterLock(p) \/ RecordPrint(p) PROVE PlanStep(r)
  BY <1>3, <1>11, RequestKinds DEF ReplayAfterLock, RecordPrint
<1>12. ASSUME NEW q \in Marks \cup Undos, RecordHandover(q) PROVE PlanStep(r)
  BY <1>3, <1>12, RequestKinds DEF RecordHandover
<1>13. ASSUME NEW v \in Moves, MoveParcels(v) PROVE PlanStep(r)
  BY <1>3, <1>13, RequestKinds DEF MoveParcels
<1>14. ASSUME NEW i \in Issues, CommitInvoices(i) PROVE PlanStep(r)
  BY <1>3, <1>14 DEF CommitInvoices
<1>15. ASSUME NEW q \in Lockers \cup Issues, AbortRequest(q) PROVE PlanStep(r)
  BY <1>3, <1>15 DEF AbortRequest
<1> QED BY <1>1, <1>2, <1>5, <1>6, <1>7, <1>8, <1>9, <1>10, <1>11, <1>12, <1>13, <1>14, <1>15
        DEF DeskNext

\* What a parcel is decided by changes only under the lock of a request that then ends.
LEMMA RowSteps ==
    ASSUME RequestsOK, ParcelTypes, ParcelsFollow, [DeskNext]_deskVars, NEW s \in Parcels
    PROVE  \/ RowStands(s)
           \/ \E r \in Lockers : s \in Held(r) /\ step'[r] = "idle" /\ plan'[r] = {}
<1>1. CASE UNCHANGED <<parcel, resi, printed, handovers>>
  BY <1>1 DEF RowStands
<1>2. ASSUME NEW r \in Lockers, EndRequest(r), step[r] \in {"locked", "decided"}
      PROVE  step'[r] = "idle" /\ plan'[r] = {} /\ Held(r) = ToSet(Wanted[r])
             /\ plan[r] \subseteq Held(r)
  BY <1>2 DEF EndRequest, RequestsOK, LockerOK
<1>3. ASSUME NEW p \in Prints, RecordPrint(p)
      PROVE  RowStands(s) \/ \E r \in Lockers : s \in Held(r) /\ step'[r] = "idle" /\ plan'[r] = {}
  <2>1. p \in Lockers /\ step'[p] = "idle" /\ plan'[p] = {} /\ Held(p) = ToSet(Wanted[p])
    BY <1>2, <1>3, RequestKinds DEF RecordPrint
  <2>2. ToSet(Wanted[p]) = {ParcelOf(p)} /\ ParcelOf(p) \in Parcels
    BY WantedOne
  <2>3. CASE s = ParcelOf(p)
    BY <2>1, <2>2, <2>3
  <2>4. CASE s # ParcelOf(p)
    BY <1>3, <2>2, <2>4 DEF RecordPrint, RowStands, ParcelTypes
  <2> QED BY <2>3, <2>4
<1>4. ASSUME NEW q \in Marks \cup Undos, RecordHandover(q)
      PROVE  RowStands(s) \/ \E r \in Lockers : s \in Held(r) /\ step'[r] = "idle" /\ plan'[r] = {}
  <2>1. /\ q \in Lockers /\ step'[q] = "idle" /\ plan'[q] = {}
        /\ plan[q] \subseteq Held(q)
    BY <1>2, <1>4, RequestKinds DEF RecordHandover
  <2>2. s \notin plan[q] => RowStands(s)
    BY <1>4 DEF RecordHandover, RowStands
  <2> QED BY <2>1, <2>2
<1>5. ASSUME NEW v \in Moves, MoveParcels(v)
      PROVE  RowStands(s) \/ \E r \in Lockers : s \in Held(r) /\ step'[r] = "idle" /\ plan'[r] = {}
  <2>1. v \in Lockers /\ step'[v] = "idle" /\ plan'[v] = {} /\ Held(v) = ToSet(Wanted[v])
    BY <1>2, <1>5, RequestKinds DEF MoveParcels
  <2>2. CASE s \in ToSet(Wanted[v])
    BY <2>1, <2>2
  <2>3. CASE s \notin ToSet(Wanted[v])
    <3>1. parcel'[s] = parcel[s] /\ UNCHANGED <<printed, handovers>>
          /\ resi' = resi \cup {t \in Parcels : parcel'[t] = "ISSUED"}
      BY <1>5, <2>3 DEF MoveParcels
    <3>2. s \in resi' <=> s \in resi
      BY <3>1 DEF ParcelsFollow
    <3> QED BY <3>1, <3>2 DEF RowStands
  <2> QED BY <2>2, <2>3
<1>6. \/ \E p \in Prints : RecordPrint(p)
      \/ \E q \in Marks \cup Undos : RecordHandover(q)
      \/ \E v \in Moves : MoveParcels(v)
      \/ UNCHANGED <<parcel, resi, printed, handovers>>
  BY DEF DeskNext, deskVars, BeginRequest, LockRow, AbortRequest, ReplayPrint, ReplayAfterLock,
         DecidePrint, DecideMark, DecideUndo, Decide, BeginInvoices, SkipInvoice, StartInvoice,
         DrawInvoice, NextItem, CommitInvoices
<1> QED BY <1>1, <1>3, <1>4, <1>5, <1>6

\* The event of a print is the one answer of its attempt, and of no other.
LEMMA RecordedAs ==
    ASSUME ParcelTypes, NEW p \in Prints, RecordPrint(p), NEW a
    PROVE  IF a = AttemptOf[p]
           THEN PrintReplay(a) = {} /\ PrintReplay(a)' = {PrintCandidate(ParcelOf(p))}
           ELSE PrintReplay(a)' = PrintReplay(a)
<1>1. PICK s, x, b : s = ParcelOf(p) /\ x = PrintCandidate(s) /\ b = AttemptOf[p]
  OBVIOUS
<1>2. s \in Parcels /\ x \in PrintOutcomes /\ b \in Attempts
  BY <1>1, OutcomeTypes
<1>3. /\ printed' = IF x = "PRINTED" THEN [printed EXCEPT ![s] = Append(printed[s], b)]
                    ELSE printed
      /\ blocked' = IF x = "PRINTED" THEN blocked
                    ELSE blocked \cup {[attempt |-> b, reason |-> x]}
      /\ PrintReplay(b) = {}
  BY <1>1 DEF RecordPrint, EventKey
<1>4. CASE x = "PRINTED"
  <2>1. ToSet(Append(printed[s], b)) = ToSet(printed[s]) \cup {b}
    BY <1>2, AppendSet DEF ParcelTypes
  <2>2. /\ ToSet(printed'[s]) = ToSet(printed[s]) \cup {b}
        /\ \A t \in Parcels \ {s} : printed'[t] = printed[t]
        /\ blocked' = blocked
    BY <1>2, <1>3, <1>4, <2>1 DEF ParcelTypes
  <2>3. CASE a = b
    <3>1. s \in {t \in Parcels : a \in ToSet(printed'[t])}
      BY <1>2, <2>2, <2>3
    <3>2. {e.reason : e \in {e \in blocked' : e.attempt = a}} = {}
      BY <1>3, <2>2, <2>3 DEF PrintReplay
    <3>3. PrintReplay(a)' = {"PRINTED"}
      BY <3>1, <3>2 DEF PrintReplay
    <3> QED BY <1>1, <1>3, <1>4, <2>3, <3>3
  <2>4. CASE a # b
    <3>1. {t \in Parcels : a \in ToSet(printed'[t])} = {t \in Parcels : a \in ToSet(printed[t])}
      BY <2>2, <2>4
    <3> QED BY <1>1, <2>2, <2>4, <3>1 DEF PrintReplay
  <2> QED BY <2>3, <2>4
<1>5. CASE x # "PRINTED"
  <2>1. printed' = printed /\ blocked' = blocked \cup {[attempt |-> b, reason |-> x]}
    BY <1>3, <1>5
  <2>2. CASE a = b
    <3>1. {t \in Parcels : a \in ToSet(printed'[t])} = {}
      BY <1>3, <2>1, <2>2 DEF PrintReplay
    <3>2. {e \in blocked' : e.attempt = a} = {[attempt |-> b, reason |-> x]}
      <4>1. \A e \in blocked : e.attempt # b
        BY <1>3 DEF PrintReplay
      <4> QED BY <2>1, <2>2, <4>1
    <3>3. {e.reason : e \in {e \in blocked' : e.attempt = a}} = {x}
      <4>1. PICK y : y = [attempt |-> b, reason |-> x]
        OBVIOUS
      <4>2. y.reason = x /\ {e \in blocked' : e.attempt = a} = {y}
        BY <3>2, <4>1
      <4> QED BY <4>2
    <3>4. PrintReplay(a)' = {"PRINTED" : t \in {t \in Parcels : a \in ToSet(printed'[t])}}
                              \cup {e.reason : e \in {e \in blocked' : e.attempt = a}}
      BY DEF PrintReplay
    <3>5. PrintReplay(a)' = {x}
      BY <3>1, <3>3, <3>4
    <3> QED BY <1>1, <1>3, <2>2, <3>5
  <2>3. CASE a # b
    <3>1. {e \in blocked' : e.attempt = a} = {e \in blocked : e.attempt = a}
      BY <2>1, <2>3
    <3> QED BY <1>1, <2>1, <2>3, <3>1 DEF PrintReplay
  <2> QED BY <2>2, <2>3
<1> QED BY <1>4, <1>5

\* An attempt is recorded by a request of it, as what its parcel is then, and only once.
LEMMA ReplaySteps ==
    ASSUME RequestsOK, ParcelTypes, [DeskNext]_deskVars, NEW a
    PROVE  \/ PrintReplay(a)' = PrintReplay(a)
           \/ \E p \in Prints : /\ AttemptOf[p] = a /\ PrintReplay(a) = {}
                                /\ PrintReplay(a)' = {PrintCandidate(ParcelOf(p))}
                                /\ step[p] = "decided" /\ step'[p] = "idle" /\ plan'[p] = {}
<1>1. CASE UNCHANGED <<printed, blocked>>
  BY <1>1 DEF PrintReplay
<1>2. ASSUME NEW p \in Prints, RecordPrint(p)
      PROVE  IF a = AttemptOf[p]
             THEN PrintReplay(a) = {} /\ PrintReplay(a)' = {PrintCandidate(ParcelOf(p))}
             ELSE PrintReplay(a)' = PrintReplay(a)
  BY <1>2, RecordedAs
<1>3. ASSUME NEW p \in Prints, RecordPrint(p)
      PROVE  step[p] = "decided" /\ step'[p] = "idle" /\ plan'[p] = {}
  BY <1>3, RequestKinds DEF RecordPrint, EndRequest, RequestsOK
<1>4. \/ \E p \in Prints : RecordPrint(p)
      \/ UNCHANGED <<printed, blocked>>
  BY DEF DeskNext, deskVars, BeginRequest, LockRow, AbortRequest, ReplayPrint, ReplayAfterLock,
         DecidePrint, DecideMark, DecideUndo, Decide, BeginInvoices, SkipInvoice, StartInvoice,
         DrawInvoice, NextItem, CommitInvoices, RecordHandover, MoveParcels
<1> QED BY <1>1, <1>2, <1>3, <1>4

\* The resi and the label of a parcel stay with its status and its handover.
LEMMA ParcelsFollowNext ==
    ASSUME RequestsOK, ParcelTypes, ParcelsFollow, [DeskNext]_deskVars
    PROVE  ParcelsFollow'
<1> SUFFICES ASSUME NEW s \in Parcels
             PROVE  /\ parcel'[s] = "ISSUED" => s \in resi'
                    /\ parcel'[s] = "AWAITING_UPSTREAM_PAYMENT" => s \notin resi'
                    /\ HandedOver(s)' => WasPrinted(s)'
  BY DEF ParcelsFollow
<1>1. /\ parcel[s] = "ISSUED" => s \in resi
      /\ parcel[s] = "AWAITING_UPSTREAM_PAYMENT" => s \notin resi
      /\ HandedOver(s) => WasPrinted(s)
  BY DEF ParcelsFollow
<1>2. CASE RowStands(s)
  BY <1>1, <1>2 DEF RowStands, HandedOver, WasPrinted
<1>3. CASE \E p \in Prints : RecordPrint(p)
  <2>1. PICK p \in Prints : RecordPrint(p)
    BY <1>3
  <2>2. UNCHANGED <<parcel, resi, handovers>>
    BY <2>1 DEF RecordPrint
  <2>3. printed'[s] = printed[s] \/ printed'[s] = Append(printed[s], AttemptOf[p])
    BY <2>1 DEF RecordPrint, ParcelTypes
  <2>4. printed[s] \in Seq(Attempts) /\ AttemptOf[p] \in Attempts
    BY OutcomeTypes DEF ParcelTypes
  <2>5. printed[s] # <<>> => printed'[s] # <<>>
    BY <2>3, <2>4, AppendSet
  <2> QED BY <1>1, <2>2, <2>5 DEF HandedOver, WasPrinted
<1>4. CASE \E r \in Marks \cup Undos : RecordHandover(r)
  <2>1. PICK r \in Marks \cup Undos : RecordHandover(r)
    BY <1>4
  <2>2. UNCHANGED <<parcel, resi, printed>>
    BY <2>1 DEF RecordHandover
  <2>3. CASE s \in plan[r] /\ r \in Marks
    <3>1. WasPrinted(s)
      BY <2>1, <2>3 DEF RecordHandover, HandoverPolicy
    <3> QED BY <1>1, <2>2, <3>1 DEF WasPrinted
  <2>4. CASE s \in plan[r] /\ r \notin Marks
    <3>1. handovers'[s] = Append(handovers[s], "UNDONE") /\ handovers[s] \in Seq(HandoverKinds)
      BY <2>1, <2>4 DEF RecordHandover, ParcelTypes
    <3>2. Last(handovers'[s]) = "UNDONE"
      BY <3>1, AppendSet DEF HandoverKinds
    <3> QED BY <1>1, <2>2, <3>2 DEF HandedOver
  <2>5. CASE s \notin plan[r]
    BY <1>1, <2>1, <2>2, <2>5 DEF RecordHandover, HandedOver, WasPrinted
  <2> QED BY <2>3, <2>4, <2>5
<1>5. CASE \E v \in Moves : MoveParcels(v)
  <2>1. PICK v \in Moves : MoveParcels(v)
    BY <1>5
  <2>2. /\ resi' = resi \cup {t \in Parcels : parcel'[t] = "ISSUED"}
        /\ UNCHANGED <<printed, handovers>>
    BY <2>1 DEF MoveParcels
  <2>3. parcel'[s] = "AWAITING_UPSTREAM_PAYMENT" => parcel[s] = "AWAITING_UPSTREAM_PAYMENT"
    BY <2>1 DEF MoveParcels
  <2> QED BY <1>1, <2>2, <2>3 DEF HandedOver, WasPrinted
<1>6. \/ \E p \in Prints : RecordPrint(p)
      \/ \E r \in Marks \cup Undos : RecordHandover(r)
      \/ \E v \in Moves : MoveParcels(v)
      \/ UNCHANGED <<parcel, resi, printed, handovers>>
  BY DEF DeskNext, deskVars, BeginRequest, LockRow, AbortRequest, ReplayPrint, ReplayAfterLock,
         DecidePrint, DecideMark, DecideUndo, Decide, BeginInvoices, SkipInvoice, StartInvoice,
         DrawInvoice, NextItem, CommitInvoices
<1>7. UNCHANGED <<parcel, resi, printed, handovers>> => RowStands(s)
  BY DEF RowStands
<1> QED BY <1>2, <1>3, <1>4, <1>5, <1>6, <1>7

\* What a request has planned was decided under locks that it still holds.
LEMMA DecisionsNext ==
    ASSUME RequestsOK, ParcelTypes, ParcelsFollow, DecisionsStand, [DeskNext]_deskVars
    PROVE  DecisionsStand'
<1>1. RequestsOK' /\ ParcelsFollow' /\ ParcelTypes'
  BY RequestsNext, ParcelsFollowNext, ParcelTypesNext
\* A parcel that is locked by a request which goes on is as it was.
<1>2. ASSUME NEW r \in Lockers, plan'[r] = plan[r] /\ step'[r] = step[r], step[r] = "decided",
             NEW s \in Held(r)
      PROVE  s \in Parcels /\ RowStands(s)
  <2>1. s \in Parcels /\ rowLock[s] = r
    BY DEF Held
  <2>2. ~\E q \in Lockers : s \in Held(q) /\ step'[q] = "idle" /\ plan'[q] = {}
    BY <1>2, <2>1 DEF Held
  <2> QED BY <2>1, <2>2, RowSteps
<1>3. ASSUME NEW r \in Marks \cup Undos, NEW s \in plan'[r], NEW kind,
             kind = IF r \in Marks THEN "HANDED_OVER" ELSE "UNDONE"
      PROVE  HandoverPolicy(s, kind)' /\ HandoverOrder(s, kind)'
  <2>1. r \in Lockers /\ r \notin Prints /\ PlanStep(r) /\ LockerOK(r)
         /\ (r \in Marks <=> r \notin Undos)
    BY RequestKinds, PlanSteps DEF RequestsOK
  <2>2. CASE plan'[r] = plan[r] /\ step'[r] = step[r]
    <3>1. step[r] = "decided" /\ s \in Held(r)
      BY <1>3, <2>1, <2>2 DEF LockerOK
    <3>2. RowStands(s)
      BY <1>2, <2>1, <2>2, <3>1
    <3>3. HandoverPolicy(s, kind) /\ HandoverOrder(s, kind)
      BY <1>3, <2>2 DEF DecisionsStand, DatabaseAgrees
    <3> QED BY <3>2, <3>3 DEF RowStands, HandoverPolicy, HandoverOrder, HandedOver, WasPrinted
  <2>3. CASE UNCHANGED <<parcel, resi, printed, blocked, handovers>>
             /\ (r \in Marks => plan'[r] = {t \in ToSet(Wanted[r]) :
                                               HandoverRefusal(t) = "NONE" /\ ~HandedOver(t)})
             /\ (r \in Undos => plan'[r] = {t \in {ParcelOf(r)} : Undoable(t)})
    <3>1. HandoverPolicy(s, kind) /\ HandoverOrder(s, kind)
      <4>1. CASE r \in Marks
        <5>1. HandoverRefusal(s) = "NONE" /\ ~HandedOver(s) /\ kind = "HANDED_OVER"
          BY <1>3, <2>3, <4>1
        <5> QED BY <5>1 DEF HandoverRefusal, HandoverPolicy, HandoverOrder
      <4>2. CASE r \in Undos
        <5>1. Undoable(s) /\ kind = "UNDONE"
          BY <1>3, <2>1, <2>3, <4>2
        <5> QED BY <5>1 DEF Undoable, HandoverPolicy, HandoverOrder
      <4> QED BY <4>1, <4>2
    <3> QED BY <2>3, <3>1 DEF HandoverPolicy, HandoverOrder, HandedOver, WasPrinted
  <2> QED BY <1>3, <2>1, <2>2, <2>3 DEF PlanStep
<1>4. ASSUME NEW p \in Prints, NEW s \in plan'[p]
      PROVE  PrintPolicy(s, PrintCandidate(s))' /\ EventKey(AttemptOf[p])'
  <2>1. p \in Lockers /\ PlanStep(p) /\ LockerOK(p) /\ ToSet(Wanted[p]) = {ParcelOf(p)}
        /\ ParcelOf(p) \in Parcels
    BY RequestKinds, PlanSteps, WantedOne DEF RequestsOK
  <2>2. s \in Parcels
    BY <1>1, <1>4, <2>1 DEF RequestsOK
  <2>3. PrintPolicy(s, PrintCandidate(s))'
    <3>1. /\ parcel'[s] = "ISSUED" => s \in resi'
          /\ parcel'[s] = "AWAITING_UPSTREAM_PAYMENT" => s \notin resi'
      BY <1>1, <2>2 DEF ParcelsFollow
    <3> QED BY <3>1 DEF PrintPolicy, PrintCandidate
  <2>4. EventKey(AttemptOf[p])'
    <3>1. CASE plan'[p] = plan[p] /\ step'[p] = step[p]
      <4>1. step[p] = "decided" /\ plan[p] = {ParcelOf(p)} /\ ParcelOf(p) \in Held(p)
        BY <1>4, <2>1, <3>1 DEF LockerOK
      <4>2. PrintReplay(AttemptOf[p]) = {}
        BY <4>1 DEF DecisionsStand, DatabaseAgrees, EventKey
      <4>3. ASSUME NEW q \in Prints, AttemptOf[q] = AttemptOf[p], step[q] = "decided",
                   plan'[q] = {}
            PROVE  FALSE
        <5>1. ParcelOf(q) = ParcelOf(p)
          BY <4>3, DeskAssumption DEF ParcelOf
        <5>2. LockerOK(q)
          BY RequestKinds DEF RequestsOK
        <5>3. plan[q] = {ParcelOf(q)} /\ ParcelOf(q) \in Held(q)
          BY <4>3, <5>2 DEF LockerOK
        <5>4. q = p
          BY <4>1, <5>1, <5>3 DEF Held
        <5> QED BY <3>1, <4>1, <4>3, <5>4
      <4> QED BY <4>2, <4>3, ReplaySteps DEF EventKey
    <3>2. CASE UNCHANGED <<printed, blocked>> /\ PrintReplay(AttemptOf[p]) = {}
      BY <3>2 DEF EventKey, PrintReplay
    <3> QED BY <1>4, <2>1, <3>1, <3>2 DEF PlanStep
  <2> QED BY <2>3, <2>4
<1>5. DatabaseAgrees'
  BY <1>3, <1>4 DEF DatabaseAgrees
<1>6. ASSUME NEW m \in Marks, step'[m] = "decided"
      PROVE  plan'[m] = {s \in ToSet(Wanted[m]) : ScanState(s)' = "READY"}
  <2>1. m \in Lockers /\ PlanStep(m) /\ LockerOK(m) /\ ToSet(Wanted[m]) \subseteq Parcels
    BY RequestKinds, PlanSteps, WantedRows DEF RequestsOK
  <2>2. CASE plan'[m] = plan[m] /\ step'[m] = step[m]
    <3>1. Held(m) = ToSet(Wanted[m])
      BY <1>6, <2>1, <2>2 DEF LockerOK
    <3>2. \A s \in ToSet(Wanted[m]) : RowStands(s)
      BY <1>2, <1>6, <2>1, <2>2, <3>1
    <3>3. \A s \in ToSet(Wanted[m]) : ScanState(s)' = ScanState(s)
      BY <3>2 DEF RowStands, ScanState, HandoverRefusal, HandedOver, WasPrinted
    <3>4. plan[m] = {s \in ToSet(Wanted[m]) : ScanState(s) = "READY"}
      BY <1>6, <2>2 DEF DecisionsStand, WholeBatchMarked
    <3> QED BY <2>2, <3>3, <3>4
  <2>3. CASE UNCHANGED <<parcel, resi, printed, blocked, handovers>>
             /\ plan'[m] = {s \in ToSet(Wanted[m]) :
                               HandoverRefusal(s) = "NONE" /\ ~HandedOver(s)}
    <3>1. \A s : ScanState(s) = "READY" <=> HandoverRefusal(s) = "NONE" /\ ~HandedOver(s)
      BY DEF ScanState, HandoverRefusal
    <3>2. \A s : ScanState(s)' = ScanState(s)
      BY <2>3 DEF ScanState, HandoverRefusal, HandedOver, WasPrinted
    <3> QED BY <2>3, <3>1, <3>2
  <2>4. CASE plan'[m] = {} /\ step'[m] # "decided"
    BY <1>6, <2>4
  <2> QED BY <2>1, <2>2, <2>3, <2>4 DEF PlanStep
<1>7. WholeBatchMarked'
  BY <1>6 DEF WholeBatchMarked
<1> QED BY <1>5, <1>7 DEF DecisionsStand

\* No attempt is recorded twice, and whoever is told is told what was recorded.
LEMMA RecordedNext ==
    ASSUME RequestsOK, ParcelTypes, AttemptRecordedOnce, [DeskNext]_deskVars
    PROVE  AttemptRecordedOnce'
<1>1. ASSUME NEW s \in Parcels PROVE IsInjective(printed'[s])
  <2>1. IsInjective(printed[s])
    BY DEF AttemptRecordedOnce
  <2>2. CASE printed'[s] = printed[s]
    BY <2>1, <2>2
  <2>3. ASSUME NEW p \in Prints, RecordPrint(p), printed'[s] # printed[s]
        PROVE  IsInjective(printed'[s])
    <3>1. printed'[s] = Append(printed[s], AttemptOf[p]) /\ PrintReplay(AttemptOf[p]) = {}
      BY <2>3 DEF RecordPrint, EventKey, ParcelTypes
    <3>2. AttemptOf[p] \notin ToSet(printed[s])
      BY <3>1 DEF PrintReplay
    <3>3. printed[s] \in Seq(Attempts) /\ AttemptOf[p] \in Attempts
      BY OutcomeTypes DEF ParcelTypes
    <3> QED BY <2>1, <3>1, <3>2, <3>3, AppendSet
  <2>4. UNCHANGED printed \/ \E p \in Prints : RecordPrint(p)
    BY DEF DeskNext, deskVars, BeginRequest, LockRow, AbortRequest, ReplayPrint,
           ReplayAfterLock, DecidePrint, DecideMark, DecideUndo, Decide, BeginInvoices,
           SkipInvoice, StartInvoice, DrawInvoice, NextItem, CommitInvoices, RecordHandover,
           MoveParcels
  <2> QED BY <2>2, <2>3, <2>4
<1>2. ASSUME NEW a \in Attempts PROVE Cardinality(PrintReplay(a)') <= 1
  <2>1. CASE PrintReplay(a)' = PrintReplay(a)
    BY <2>1 DEF AttemptRecordedOnce
  <2>2. ASSUME NEW x, PrintReplay(a)' = {x} PROVE Cardinality(PrintReplay(a)') <= 1
    <3>1. Cardinality({x}) = 1
      BY FS_Singleton
    <3> QED BY <2>2, <3>1
  <2>3. \/ PrintReplay(a)' = PrintReplay(a)
        \/ \E p \in Prints : PrintReplay(a)' = {PrintCandidate(ParcelOf(p))}
    BY ReplaySteps
  <2> QED BY <2>1, <2>2, <2>3
<1>3. ASSUME NEW a, PrintReplay(a) # {} PROVE PrintReplay(a)' = PrintReplay(a)
  BY <1>3, ReplaySteps
<1>4. ASSUME NEW p \in Prints, told'[p] # NoAnswer PROVE told'[p] \in PrintReplay(AttemptOf[p])'
  <2>1. CASE told'[p] = told[p]
    <3>1. told[p] \in PrintReplay(AttemptOf[p])
      BY <1>4, <2>1 DEF AttemptRecordedOnce
    <3> QED BY <1>3, <2>1, <3>1
  <2>2. CASE told'[p] # told[p]
    <3>1. ASSUME NEW q \in Prints, ReplayPrint(q) \/ ReplayAfterLock(q)
          PROVE  told'[p] \in PrintReplay(AttemptOf[p])'
      <4>1. PICK x \in PrintReplay(AttemptOf[q]) : told' = [told EXCEPT ![q] = x]
        BY <3>1 DEF ReplayPrint, ReplayAfterLock
      <4>2. q = p /\ told'[p] = x
        BY <2>2, <4>1 DEF ParcelTypes
      <4> QED BY <1>3, <4>1, <4>2
    <3>2. ASSUME NEW q \in Prints, RecordPrint(q)
          PROVE  told'[p] \in PrintReplay(AttemptOf[p])'
      <4>1. \E x \in {PrintCandidate(ParcelOf(q)), NoAnswer} : told' = [told EXCEPT ![q] = x]
        BY <3>2 DEF RecordPrint
      <4>2. q = p /\ told'[p] = PrintCandidate(ParcelOf(p))
        BY <1>4, <2>2, <4>1 DEF ParcelTypes
      <4>3. PrintReplay(AttemptOf[p])' = {PrintCandidate(ParcelOf(p))}
        BY <3>2, <4>2, RecordedAs
      <4> QED BY <4>2, <4>3
    <3>3. ASSUME NEW q \in Lockers \cup Issues, AbortRequest(q)
          PROVE  told'[p] \in PrintReplay(AttemptOf[p])'
      BY <1>4, <2>2, <3>3 DEF AbortRequest, ParcelTypes
    <3>4. \/ \E q \in Prints : ReplayPrint(q) \/ ReplayAfterLock(q) \/ RecordPrint(q)
          \/ \E q \in Lockers \cup Issues : AbortRequest(q)
      BY <2>2 DEF DeskNext, deskVars, BeginRequest, LockRow, DecidePrint, DecideMark, DecideUndo,
             Decide, BeginInvoices, SkipInvoice, StartInvoice, DrawInvoice, NextItem,
             CommitInvoices, RecordHandover, MoveParcels
    <3> QED BY <3>1, <3>2, <3>3, <3>4
  <2> QED BY <2>1, <2>2
<1> QED BY <1>1, <1>2, <1>4 DEF AttemptRecordedOnce

\* An invoice is written by the request that draws it, where there was none.
LEMMA InvoiceSteps ==
    ASSUME RequestsOK, ParcelTypes, InvoiceFree, [DeskNext]_deskVars
    PROVE  /\ InvoiceFree'
           /\ \A s \in Parcels : invoice[s] # NoRequest => invoice'[s] = invoice[s]
<1>0. \A i \in Issues : IssueOK(i)
  BY DEF RequestsOK
<1>1. \A i \in Issues : \A s \in plan[i] : invoice[s] = NoRequest /\ s \in Parcels
  BY DEF InvoiceFree, RequestsOK
<1>2. ASSUME NEW i \in Issues, CommitInvoices(i)
      PROVE  /\ InvoiceFree'
             /\ \A s \in Parcels : invoice[s] # NoRequest => invoice'[s] = invoice[s]
  <2>1. /\ invoice' = [s \in Parcels |-> IF s \in plan[i] THEN i ELSE invoice[s]]
        /\ plan' = [plan EXCEPT ![i] = {}]
    BY <1>2 DEF CommitInvoices, EndRequest
  <2>2. plan'[i] = {} /\ \A j \in Issues \ {i} : plan'[j] = plan[j]
    BY <2>1 DEF RequestsOK
  <2>3. \A j \in Issues \ {i} : \A s \in plan[j] : s \notin plan[i]
    BY <1>0 DEF IssueOK
  <2>4. InvoiceFree'
    BY <1>1, <2>1, <2>2, <2>3 DEF InvoiceFree
  <2> QED BY <1>1, <2>1, <2>4
<1>3. ASSUME NEW i \in Issues, DrawInvoice(i) PROVE InvoiceFree' /\ UNCHANGED invoice
  <2>1. PICK s : s = Item(i)
    OBVIOUS
  <2>2. UNCHANGED invoice
    BY <1>3 DEF DrawInvoice, NextItem
  <2>3. \/ UNCHANGED plan
        \/ invoice[s] = NoRequest /\ plan' = [plan EXCEPT ![i] = plan[i] \cup {s}]
    BY <1>3, <2>1 DEF DrawInvoice
  <2>4. \A j \in Issues : plan'[j] = plan[j]
                          \/ (invoice[s] = NoRequest /\ plan'[j] = plan[j] \cup {s})
    BY <2>3 DEF RequestsOK
  <2> QED BY <1>1, <2>2, <2>4 DEF InvoiceFree
<1>4. ASSUME UNCHANGED invoice, \A i \in Issues : plan'[i] \subseteq plan[i]
      PROVE  /\ InvoiceFree'
             /\ \A s \in Parcels : invoice[s] # NoRequest => invoice'[s] = invoice[s]
  BY <1>1, <1>4 DEF InvoiceFree
<1>5. ASSUME NEW r \in Lockers \cup Issues, EndRequest(r)
      PROVE  \A i \in Issues : plan'[i] \subseteq plan[i]
  BY <1>5 DEF EndRequest, RequestsOK
<1>6. ASSUME NEW r \in Lockers, NEW writes, Decide(r, writes)
      PROVE  UNCHANGED invoice /\ \A i \in Issues : plan'[i] \subseteq plan[i]
  BY <1>6, RequestKinds DEF Decide, RequestsOK
<1>7. ASSUME NEW r \in Lockers \cup Issues,
             \/ AbortRequest(r)
             \/ r \in Prints /\ (ReplayAfterLock(r) \/ RecordPrint(r))
             \/ r \in Marks \cup Undos /\ RecordHandover(r)
             \/ r \in Moves /\ MoveParcels(r)
      PROVE  UNCHANGED invoice /\ \A i \in Issues : plan'[i] \subseteq plan[i]
  <2>1. EndRequest(r) /\ UNCHANGED invoice
    BY <1>7 DEF AbortRequest, ReplayAfterLock, RecordPrint, RecordHandover, MoveParcels
  <2> QED BY <1>5, <2>1
<1>8. ASSUME NEW r \in Lockers,
             \/ r \in Prints /\ DecidePrint(r)
             \/ r \in Marks /\ DecideMark(r)
             \/ r \in Undos /\ DecideUndo(r)
      PROVE  UNCHANGED invoice /\ \A i \in Issues : plan'[i] \subseteq plan[i]
  BY <1>6, <1>8 DEF DecidePrint, DecideMark, DecideUndo
<1>9. ASSUME \/ \E r \in Lockers : BeginRequest(r) \/ LockRow(r)
             \/ \E p \in Prints : ReplayPrint(p)
             \/ \E i \in Issues : BeginInvoices(i) \/ SkipInvoice(i) \/ StartInvoice(i)
             \/ UNCHANGED deskVars
      PROVE  UNCHANGED invoice /\ \A i \in Issues : plan'[i] \subseteq plan[i]
  <2>1. UNCHANGED <<invoice, plan>>
    BY <1>9 DEF BeginRequest, LockRow, ReplayPrint, BeginInvoices, SkipInvoice, StartInvoice,
                NextItem, deskVars, desk
  <2> QED BY <2>1
<1>10. \A p \in Prints : p \in Lockers
  BY RequestKinds
<1>11. \A p \in Marks \cup Undos \cup Moves : p \in Lockers
  BY RequestKinds
<1> QED BY <1>2, <1>3, <1>4, <1>7, <1>8, <1>9, <1>10, <1>11 DEF DeskNext

\* Nothing is locked, decided or drawn in the beginning.
LEMMA DeskInitInv == DeskInit => DeskTypeOK /\ DeskInv
<1> SUFFICES ASSUME DeskInit PROVE DeskTypeOK /\ DeskInv
  OBVIOUS
<1>1. \A r \in Lockers : Held(r) = {}
  BY RequestKinds DEF DeskInit, Held
<1>2. \A r \in Lockers : LockerOK(r)
  BY <1>1 DEF DeskInit, LockerOK
<1>3. \A i \in Issues : IssueOK(i)
  <2> SUFFICES ASSUME NEW i \in Issues PROVE IssueOK(i)
    OBVIOUS
  <2>1. Len(Wanted[i]) \in Nat
    BY WantedRows
  <2>2. step[i] = "idle" /\ item[i] = 1 /\ plan[i] = {}
        /\ {s \in Parcels : i \in keyShare[s]} = {}
    BY DEF DeskInit
  <2> QED BY <2>1, <2>2 DEF IssueOK
<1>4. RequestsOK
  BY <1>2, <1>3 DEF DeskInit, RequestsOK
<1>5. ParcelTypes
  BY DEF DeskInit, ParcelTypes, ParcelStatuses, Invoices
<1>6. ParcelsFollow
  BY DEF DeskInit, ParcelsFollow, HandedOver
<1>7. \A r \in Lockers \cup Issues : plan[r] = {} /\ step[r] = "idle"
  BY DEF DeskInit
<1>8. InvoiceFree /\ DecisionsStand
  BY <1>7, RequestKinds DEF InvoiceFree, DecisionsStand, DatabaseAgrees, WholeBatchMarked
<1>9. AttemptRecordedOnce
  <2>1. \A s \in Parcels : printed[s] = <<>> /\ ToSet(<<>>) = {}
    BY DEF DeskInit, ToSet
  <2>2. \A s \in Parcels : IsInjective(printed[s])
    BY <2>1 DEF IsInjective
  <2>3. \A a \in Attempts : PrintReplay(a) = {}
    BY <2>1 DEF DeskInit, PrintReplay
  <2>4. \A a \in Attempts : Cardinality(PrintReplay(a)) <= 1
    BY <2>3, FS_EmptySet
  <2>5. \A p \in Prints : told[p] = NoAnswer
    BY DEF DeskInit
  <2> QED BY <2>2, <2>4, <2>5 DEF AttemptRecordedOnce
<1> QED BY <1>4, <1>5, <1>6, <1>8, <1>9, DeskHalves

\* Every step keeps the invariant.
LEMMA DeskNextInv ==
    DeskTypeOK /\ DeskInv /\ [DeskNext]_deskVars => (DeskTypeOK /\ DeskInv)'
<1> SUFFICES ASSUME DeskTypeOK /\ DeskInv, [DeskNext]_deskVars PROVE (DeskTypeOK /\ DeskInv)'
  OBVIOUS
<1>1. /\ RequestsOK /\ ParcelTypes /\ ParcelsFollow /\ InvoiceFree
      /\ DecisionsStand /\ AttemptRecordedOnce
  BY DeskHalves
<1>2. RequestsOK' /\ ParcelTypes' /\ ParcelsFollow'
  BY <1>1, RequestsNext, ParcelTypesNext, ParcelsFollowNext
<1>3. InvoiceFree' /\ DecisionsStand' /\ AttemptRecordedOnce'
  BY <1>1, InvoiceSteps, DecisionsNext, RecordedNext
<1>4. (RequestsOK /\ ParcelTypes /\ ParcelsFollow /\ InvoiceFree
         /\ DecisionsStand /\ AttemptRecordedOnce)'
  BY <1>2, <1>3
<1> QED BY <1>4, DeskHalves, PTL

\* The state of the desk is typed: a request at rest holds nothing, one that decides holds
\* every row it wants, an invoice request the parcels it draws.
THEOREM DeskTypeCorrect == DeskSpec => []DeskTypeOK
BY DeskInitInv, DeskNextInv, PTL DEF DeskSpec

\* Rows are taken in order, decisions taken under them, invoices drawn by one request each:
\* the invariant that the properties of the desk rest on.
THEOREM DeskSound == DeskSpec => []DeskInv
BY DeskInitInv, DeskNextInv, PTL DEF DeskSpec

\* What a request decides about its parcels is still so when it writes, and a batch marks
\* exactly its parcels that are ready then.
THEOREM DecisionsAlwaysStand == DeskSpec => []DecisionsStand
<1>1. DeskInv => DecisionsStand
  BY DEF DeskInv
<1> QED BY <1>1, DeskSound, PTL

\* An attempt to print is recorded once and answered alike, and a parcel with a resi is in
\* exactly one queue, which counts what it lists.
THEOREM DeskAlwaysAddsUp == DeskSpec => []DeskAddsUp
<1>1. DeskTypeOK /\ DeskInv => DeskAddsUp
  <2> SUFFICES ASSUME DeskTypeOK, DeskInv PROVE DeskAddsUp
    OBVIOUS
  <2>1. ParcelsFollow /\ AttemptRecordedOnce /\ resi \subseteq Parcels
    BY DEF DeskInv, DeskTypeOK
  <2>2. Listed("semua") = Listed("belum") \cup Listed("sudah") \cup Listed("diserahkan")
    BY DEF Listed
  <2>3. Listed("belum") \cap Listed("diserahkan") = {}
    <3> SUFFICES ASSUME NEW s \in resi, HandedOver(s), ~WasPrinted(s) PROVE FALSE
      BY DEF Listed
    <3> QED BY <2>1 DEF ParcelsFollow
  <2>4. \A entry \in {"batal", "semua", "belum", "sudah", "diserahkan"} :
           Counted(entry) = Listed(entry)
    BY DEF Counted, Listed
  <2>5. \A s \in Parcels : ScanState(s) = "READY" <=> s \in Listed("sudah")
    BY <2>1 DEF ParcelsFollow, ScanState, HandoverRefusal, Listed
  <2> QED BY <2>1, <2>2, <2>3, <2>4, <2>5 DEF DeskAddsUp, QueuesAddUp
<1> QED BY <1>1, DeskTypeCorrect, DeskSound, PTL

\* "A repeated or concurrent request returns the invoice that won": however many requests
\* draw the invoice of a parcel, the first one that commits stays.
THEOREM InvoicesAlwaysStand == DeskSpec => InvoiceStands
<1>1. DeskTypeOK /\ DeskInv /\ [DeskNext]_deskVars
         => [\A s \in Parcels : invoice[s] # NoRequest => invoice'[s] = invoice[s]]_deskVars
  BY DeskHalves, InvoiceSteps
<1> QED BY <1>1, DeskTypeCorrect, DeskSound, PTL DEF DeskSpec, InvoiceStands

\* The parcel that a request waits for, above all that it has.
Target(r) == IF r \in Lockers THEN NextRow(r) ELSE Item(r)

\* Whoever waits for another waits for a parcel, and the other one, unless it draws invoices
\* out of order, for a larger one.
LEMMA WaitsUpwards ==
    ASSUME RequestsOK, NEW r \in Lockers \cup Issues, NEW q \in Lockers \cup Issues,
           WaitsFor(r, q)
    PROVE  /\ Target(r) \in Parcels
           /\ \A p \in Lockers \cup Issues :
                 WaitsFor(q, p) /\ ~(q \in Issues /\ OutOfOrder(q)) => Target(r) < Target(q)
<1>1. /\ r \in Lockers => step[r] = "locking"
      /\ r \in Issues => step[r] = "drawing" /\ item[r] \in 1 .. Len(Wanted[r])
  <2>1. r \in Issues => /\ IssueOK(r) /\ item[r] \in Nat \ {0} /\ step[r] # "locking"
                        /\ Len(Wanted[r]) \in Nat
    BY WantedRows DEF RequestsOK, IssueOK
  <2>2. r \in Lockers => LockerOK(r)
    BY DEF RequestsOK
  <2>3. step[r] \in {"locking", "drawing"}
    BY DEF WaitsFor
  <2>4. step[r] = "drawing" /\ r \in Issues => item[r] \in 1 .. Len(Wanted[r])
    BY <2>1 DEF IssueOK
  <2> QED BY <2>1, <2>2, <2>3, <2>4 DEF LockerOK
<1>2. Target(r) \in Parcels
  <2>1. CASE r \in Lockers
    BY <1>1, <2>1, NextRowWanted DEF Target
  <2>2. CASE r \in Issues
    BY <1>1, <2>2, WantedRows, RequestKinds DEF Target, Item
  <2> QED BY <2>1, <2>2
\* The other one has the parcel.
<1>3. \/ q \in Lockers /\ Target(r) \in Held(q)
      \/ q \in Issues /\ Target(r) \in plan[q]
  <2>1. /\ r \in Lockers => rowLock[NextRow(r)] = q \/ q \in keyShare[NextRow(r)]
        /\ r \in Issues => rowLock[Item(r)] = q \/ q \in Drawing(Item(r))
    BY <1>1 DEF WaitsFor
  <2>2. rowLock[Target(r)] = q => q \in Lockers /\ Target(r) \in Held(q)
    BY <1>2, RequestKinds DEF Held, RequestsOK
  <2>3. q \in keyShare[Target(r)] => q \in Issues /\ Target(r) \in plan[q]
    BY <1>2 DEF RequestsOK, IssueOK
  <2>4. q \in Drawing(Target(r)) => q \in Issues /\ Target(r) \in plan[q]
    BY DEF Drawing
  <2> QED BY <2>1, <2>2, <2>3, <2>4, RequestKinds DEF Target
<1>4. ASSUME NEW p \in Lockers \cup Issues, WaitsFor(q, p), ~(q \in Issues /\ OutOfOrder(q))
      PROVE  Target(r) < Target(q)
  <2>1. CASE q \in Lockers
    <3>1. step[q] = "locking" /\ LockerOK(q) /\ Target(r) \in Held(q)
      BY <1>3, <1>4, <2>1, RequestKinds DEF WaitsFor, RequestsOK, LockerOK
    <3>2. NextRow(q) \in ToSet(Wanted[q]) \ Held(q)
      BY <2>1, <3>1, NextRowWanted
    <3> QED BY <2>1, <3>1, <3>2 DEF Target, LockerOK
  <2>2. CASE q \in Issues
    <3>1. IssueOK(q) /\ item[q] \in Nat \ {0} /\ Len(Wanted[q]) \in Nat /\ step[q] = "drawing"
          /\ q \notin Lockers
      BY <1>4, <2>2, WantedRows, RequestKinds DEF WaitsFor, RequestsOK, IssueOK
    <3>2. item[q] \in 1 .. Len(Wanted[q])
      BY <3>1 DEF IssueOK
    <3>3. PICK n \in 1 .. item[q] - 1 : Target(r) = Wanted[q][n]
      BY <1>3, <2>2, <3>1, RequestKinds DEF IssueOK
    \* It lists each parcel once, and has none that is larger.
    <3>4. /\ DOMAIN Wanted[q] = 1 .. Len(Wanted[q]) /\ IsInjective(Wanted[q])
          /\ Wanted[q][n] \in Nat /\ Wanted[q][item[q]] \in Nat
      <4>1. Wanted[q] \in Seq(Parcels) /\ IsInjective(Wanted[q]) /\ Parcels \subseteq Nat
        BY <2>2, DeskAssumption
      <4>2. n \in 1 .. Len(Wanted[q])
        BY <3>1, <3>2, <3>3
      <4>3. /\ DOMAIN Wanted[q] = 1 .. Len(Wanted[q])
            /\ \A k \in 1 .. Len(Wanted[q]) : Wanted[q][k] \in Parcels
        BY <4>1, ListDomain
      <4> QED BY <3>2, <4>1, <4>2, <4>3
    <3>5. Wanted[q][n] # Wanted[q][item[q]]
      BY <3>1, <3>2, <3>3, <3>4 DEF IsInjective
    <3>6. ~(Wanted[q][n] > Wanted[q][item[q]])
      BY <1>3, <1>4, <2>2, <3>1, <3>3 DEF OutOfOrder, Item
    <3> QED BY <3>1, <3>3, <3>4, <3>5, <3>6 DEF Target, Item
  <2> QED BY <2>1, <2>2
<1> QED BY <1>2, <1>4

\* A circle of requests that wait for each other has a page in it that draws invoices out of
\* order: of the parcels that are waited for, one is the largest, and whoever has that waits
\* for a larger one still.
LEMMA CirclesAreOutOfOrder ==
    ASSUME RequestsOK, NEW waiting, waiting # {}, waiting \subseteq Lockers \cup Issues,
           \A r \in waiting : \E q \in waiting : WaitsFor(r, q)
    PROVE  \E i \in waiting \cap Issues : step[i] = "drawing" /\ OutOfOrder(i)
<1> SUFFICES ASSUME \A i \in waiting \cap Issues : step[i] = "drawing" => ~OutOfOrder(i)
             PROVE  FALSE
  OBVIOUS
<1> DEFINE S == {Target(r) : r \in waiting}
<1>1. \A r \in waiting : Target(r) \in Parcels
  BY WaitsUpwards
<1>2. S # {} /\ S \subseteq Parcels
  BY <1>1
<1>3. S \subseteq Nat /\ IsFiniteSet(S)
  BY <1>2, DeskAssumption, FS_Subset
<1> HIDE DEF S
<1>4. PICK s \in S : \A t \in S : t <= s
  BY <1>2, <1>3, Extremes
<1> USE DEF S
<1>5. PICK r \in waiting : s = Target(r)
  OBVIOUS
<1>6. PICK q \in waiting : WaitsFor(r, q)
  OBVIOUS
<1>7. PICK p \in waiting : WaitsFor(q, p)
  OBVIOUS
<1>8. ~(q \in Issues /\ OutOfOrder(q))
  BY <1>7 DEF WaitsFor, RequestsOK, IssueOK
<1>9. Target(r) < Target(q)
  BY <1>6, <1>7, <1>8, WaitsUpwards
<1>10. Target(q) <= s /\ s \in Nat /\ Target(q) \in Nat
  BY <1>3, <1>4
<1> QED BY <1>5, <1>9, <1>10

\* Requests never wait for each other in a circle, whatever they print, mark, undo or move and
\* in whichever order they list it (NextRow: ORDER BY id), unless the page of a batch draws
\* invoices out of order among them (issueMissingBatchInvoices).
THEOREM NobodyWaitsInCircle == DeskSpec => []NoCircularWait
<1>1. DeskTypeOK /\ DeskInv => NoCircularWait
  <2> SUFFICES ASSUME DeskTypeOK, DeskInv,
                      NEW waiting, waiting # {}, waiting \subseteq Lockers \cup Issues,
                      \A r \in waiting : \E q \in waiting : WaitsFor(r, q)
               PROVE  \E i \in waiting \cap Issues : OutOfOrder(i)
    BY DEF NoCircularWait
  <2> QED BY DeskHalves, CirclesAreOutOfOrder
<1> QED BY <1>1, DeskTypeCorrect, DeskSound, PTL
=============================================================================
