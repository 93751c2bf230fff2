----------------------------- MODULE LabelDesk -----------------------------
(***************************************************************************)
(* From the resi to the courier: the label of a parcel is printed, the     *)
(* parcel is marked as handed over (and the mark undone), and its invoice  *)
(* is drawn, while cancellations, status pulls and the webhook change the  *)
(* status of the same parcels.                                             *)
(*                                                                         *)
(* Each request is one transaction.  It takes the rows of its shipments    *)
(* FOR UPDATE one after the other, decides on what it reads then, inserts  *)
(* its events and commits.  Drawing an invoice takes no row for itself,    *)
(* but its foreign key holds the shipment against FOR UPDATE, and its      *)
(* unique key waits for whoever is drawing the same invoice.               *)
(*                                                                         *)
(* A request may be sent again, after any answer or none; a print carries  *)
(* the identifier of its attempt, which becomes that of its event.         *)
(***************************************************************************)
EXTENDS Naturals, Sequences, FiniteSetsExt, SequencesExt

CONSTANTS
    Parcels,  \* the shipments, by the order of their ids
    Prints, Marks, Undos, Moves, Issues,
              \* requests that print a label, record handovers, undo one, change
              \* the status of shipments, draw invoices
    Wanted,   \* the parcels of a request, as listed
    AttemptOf, \* the attempt of a print
    NoRequest, NoAnswer

Lockers == Prints \cup Marks \cup Undos \cup Moves
Attempts == {AttemptOf[p] : p \in Prints}
ParcelOf(r) == Wanted[r][1]

ASSUME DeskAssumption ==
    /\ Parcels \subseteq Nat /\ IsFiniteSet(Parcels)
    /\ \A r \in Lockers \cup Issues :
          /\ Wanted[r] \in Seq(Parcels) /\ Wanted[r] # <<>> /\ IsInjective(Wanted[r])
          /\ r \in Prints \cup Undos => Len(Wanted[r]) = 1
    /\ \A p, q \in Prints : AttemptOf[p] = AttemptOf[q] => Wanted[p] = Wanted[q]
    /\ NoRequest \notin Lockers \cup Issues
    /\ Prints \cap (Marks \cup Undos \cup Moves) = {}
    /\ Marks \cap (Undos \cup Moves) = {} /\ Undos \cap Moves = {}
    /\ Lockers \cap Issues = {}

VARIABLES
    parcel,    \* shipments.status
    resi,      \* parcels whose order is ISSUED and has a resi
    printed,   \* print_events PRINTED of a parcel, in their sequence
    blocked,   \* print_events BLOCKED, with their reason
    handovers, \* shipment_handover_events of a parcel, in their sequence
    invoice,   \* shipment_invoices of a parcel: the request that drew it
    rowLock,   \* who has a shipment FOR UPDATE
    keyShare,  \* who refers to it in an insert of its own
    step, plan, \* each request: where it is, what it inserts at its commit
    told,      \* the answer to a print
    item       \* the item of its list that an invoice request is at

desk == <<step, plan>>
deskVars == <<parcel, resi, printed, blocked, handovers, invoice, rowLock, keyShare, step,
              plan, told, item>>

ParcelStatuses == {"AWAITING_UPSTREAM_PAYMENT", "ISSUED", "IN_TRANSIT", "CANCELLED"}
PrintOutcomes == {"PRINTED", "AWAITING_UPSTREAM_PAYMENT", "NOT_ISSUED", "CANCELLED"}
PrintEvents == [attempt : Attempts, reason : PrintOutcomes \ {"PRINTED"}]
HandoverKinds == {"HANDED_OVER", "UNDONE"}
Invoices == Issues \cup {NoRequest}

Held(r) == {s \in Parcels : rowLock[s] = r}

DeskTypeOK ==
    /\ parcel \in [Parcels -> ParcelStatuses]
    /\ resi \subseteq Parcels
    /\ printed \in [Parcels -> Seq(Attempts)]
    /\ blocked \subseteq PrintEvents
    /\ handovers \in [Parcels -> Seq(HandoverKinds)]
    /\ invoice \in [Parcels -> Invoices]
    /\ rowLock \in [Parcels -> Lockers \cup {NoRequest}]
    /\ keyShare \in [Parcels -> SUBSET Issues]
    /\ step \in [Lockers \cup Issues -> {"idle", "locking", "locked", "decided", "listing",
                                         "drawing"}]
    /\ plan \in [Lockers \cup Issues -> SUBSET Parcels]
    /\ told \in [Prints -> PrintOutcomes \cup {NoAnswer}]
    /\ item \in [Issues -> Nat \ {0}]
    /\ \A i \in Issues : item[i] <= Len(Wanted[i]) + 1
    \* A request that is not at work holds nothing, one that decides holds all it wants.
    /\ \A r \in Lockers :
          /\ step[r] = "idle" => Held(r) = {} /\ plan[r] = {}
          /\ step[r] \in {"locked", "decided"} => Held(r) = ToSet(Wanted[r])
    /\ \A i \in Issues : {s \in Parcels : i \in keyShare[s]} = plan[i]

DeskInit ==
    /\ parcel \in [Parcels -> {"AWAITING_UPSTREAM_PAYMENT", "ISSUED"}]
    /\ resi = {s \in Parcels : parcel[s] = "ISSUED"}
    /\ printed = [s \in Parcels |-> <<>>]
    /\ blocked = {}
    /\ handovers = [s \in Parcels |-> <<>>]
    /\ invoice = [s \in Parcels |-> NoRequest]
    /\ rowLock = [s \in Parcels |-> NoRequest]
    /\ keyShare = [s \in Parcels |-> {}]
    /\ step = [r \in Lockers \cup Issues |-> "idle"]
    /\ plan = [r \in Lockers \cup Issues |-> {}]
    /\ told = [p \in Prints |-> NoAnswer]
    /\ item = [i \in Issues |-> 1]

-----------------------------------------------------------------------------
(* What is read of a parcel *)

HandedOver(s) == handovers[s] # <<>> /\ Last(handovers[s]) = "HANDED_OVER"
WasPrinted(s) == printed[s] # <<>>

\* loadPrintCandidate: what a print of it is recorded as.
PrintCandidate(s) ==
    IF parcel[s] \in {"CANCELLED", "AWAITING_UPSTREAM_PAYMENT"} THEN parcel[s]
    ELSE IF parcel[s] = "ISSUED" /\ s \in resi THEN "PRINTED"
    ELSE "NOT_ISSUED"

\* Mutant of PrintReplay: only a label that was printed answers its attempt.
PrintReplayPrinted(a) == {"PRINTED" : s \in {s \in Parcels : a \in ToSet(printed[s])}}

\* The event of an attempt: at most one answer.
PrintReplay(a) ==
    {"PRINTED" : s \in {s \in Parcels : a \in ToSet(printed[s])}}
        \cup {e.reason : e \in {e \in blocked : e.attempt = a}}

\* Mutant of HandoverRefusal: only the order is asked about, not the label.
HandoverRefusalUnprinted(s) ==
    IF parcel[s] = "CANCELLED" THEN "ORDER_CANCELLED"
    ELSE IF parcel[s] = "IN_TRANSIT" THEN "PICKED_UP"
    ELSE IF s \notin resi \/ parcel[s] # "ISSUED" THEN "NOT_ISSUED"
    ELSE "NONE"

HandoverRefusal(s) ==
    IF parcel[s] = "CANCELLED" THEN "ORDER_CANCELLED"
    ELSE IF parcel[s] = "IN_TRANSIT" THEN "PICKED_UP"
    ELSE IF s \notin resi \/ parcel[s] # "ISSUED" THEN "NOT_ISSUED"
    ELSE IF ~WasPrinted(s) THEN "NOT_PRINTED"
    ELSE "NONE"

\* What a scanned code is told.
ScanState(s) ==
    IF HandoverRefusal(s) # "NONE" THEN HandoverRefusal(s)
    ELSE IF HandedOver(s) THEN "HANDED_OVER" ELSE "READY"

\* The rows of the page of issued labels for each of its entries.
Listed(entry) ==
    {s \in resi :
        CASE entry = "batal"      -> parcel[s] = "CANCELLED"
          [] entry = "semua"      -> parcel[s] = "ISSUED"
          [] entry = "belum"      -> parcel[s] = "ISSUED" /\ ~WasPrinted(s)
          [] entry = "sudah"      -> parcel[s] = "ISSUED" /\ WasPrinted(s) /\ ~HandedOver(s)
          [] entry = "diserahkan" -> parcel[s] = "ISSUED" /\ HandedOver(s)}

\* What the panel beside it counts.
Counted(entry) ==
    LET cohort == {s \in resi : parcel[s] \in {"ISSUED", "CANCELLED"}}
        printable(s) == parcel[s] = "ISSUED"
        ready(s) == printable(s) /\ WasPrinted(s) /\ ~HandedOver(s)
    IN {s \in cohort :
           CASE entry = "batal"      -> parcel[s] = "CANCELLED"
             [] entry = "semua"      -> printable(s)
             [] entry = "belum"      -> printable(s) /\ ~WasPrinted(s)
             [] entry = "sudah"      -> ready(s)
             [] entry = "diserahkan" -> printable(s) /\ HandedOver(s)}

\* The database's own copy of the rules: the policies of the two tables and the trigger.
PrintPolicy(s, outcome) ==
    CASE outcome = "PRINTED" -> s \in resi /\ parcel[s] = "ISSUED"
      [] outcome = "AWAITING_UPSTREAM_PAYMENT" -> s \notin resi /\ parcel[s] = outcome
      [] outcome = "NOT_ISSUED" -> ~(s \in resi /\ parcel[s] = "ISSUED")
      [] outcome = "CANCELLED"  -> parcel[s] = "CANCELLED"

HandoverPolicy(s, kind) ==
    /\ parcel[s] = "ISSUED"
    /\ kind = "HANDED_OVER" => s \in resi /\ WasPrinted(s)

\* Kinds alternate.
HandoverOrder(s, kind) == (kind = "HANDED_OVER") = ~HandedOver(s)

-----------------------------------------------------------------------------
(* The rows of a request *)

\* Mutant of NextRow: rows are locked in the order they are listed.
NextRowListed(r) == SelectSeq(Wanted[r], LAMBDA s : rowLock[s] # r)[1]

\* ORDER BY id.
NextRow(r) == Min({s \in ToSet(Wanted[r]) : rowLock[s] # r})

\* A print that was recorded before is answered at once.
BeginRequest(r) ==
    /\ step[r] = "idle"
    /\ r \in Prints => PrintReplay(AttemptOf[r]) = {}
    /\ step' = [step EXCEPT ![r] = "locking"]
    /\ UNCHANGED <<parcel, resi, printed, blocked, handovers, invoice, rowLock, keyShare,
                   plan, told, item>>

ReplayPrint(p) ==
    /\ step[p] = "idle"
    /\ \E outcome \in PrintReplay(AttemptOf[p]) : told' = [told EXCEPT ![p] = outcome]
    /\ UNCHANGED <<parcel, resi, printed, blocked, handovers, invoice, rowLock, keyShare,
                   desk, item>>

\* Mutant of RowFree: a row is taken from under an insert or another request.
RowFreeAlways(r, s) == TRUE

RowFree(r, s) == rowLock[s] = NoRequest /\ keyShare[s] = {}

LockRow(r) ==
    /\ step[r] = "locking"
    /\ RowFree(r, NextRow(r))
    /\ rowLock' = [rowLock EXCEPT ![NextRow(r)] = r]
    /\ step' = IF Cardinality(Held(r)) + 1 = Len(Wanted[r])
               THEN [step EXCEPT ![r] = "locked"] ELSE step
    /\ UNCHANGED <<parcel, resi, printed, blocked, handovers, invoice, keyShare, plan, told,
                   item>>

Decide(r, writes) ==
    /\ plan' = [plan EXCEPT ![r] = writes]
    /\ step' = [step EXCEPT ![r] = "decided"]
    /\ UNCHANGED <<parcel, resi, printed, blocked, handovers, invoice, rowLock, keyShare,
                   told, item>>

\* The end of the transaction, whichever it is.
EndRequest(r) ==
    /\ step' = [step EXCEPT ![r] = "idle"]
    /\ plan' = [plan EXCEPT ![r] = {}]
    /\ rowLock' = [s \in Parcels |-> IF rowLock[s] = r THEN NoRequest ELSE rowLock[s]]
    /\ keyShare' = [s \in Parcels |-> keyShare[s] \ {r}]

\* A statement is refused, the database gives up on a deadlock, or the process stops.
AbortRequest(r) ==
    /\ step[r] # "idle"
    /\ EndRequest(r)
    /\ told' = IF r \in Prints THEN [told EXCEPT ![r] = NoAnswer] ELSE told
    /\ item' = IF r \in Issues THEN [item EXCEPT ![r] = 1] ELSE item
    /\ UNCHANGED <<parcel, resi, printed, blocked, handovers, invoice>>

-----------------------------------------------------------------------------
(* Printing *)

\* The attempt may have been recorded by another request of it in the meantime.
ReplayAfterLock(p) ==
    /\ step[p] = "locked"
    /\ \E outcome \in PrintReplay(AttemptOf[p]) : told' = [told EXCEPT ![p] = outcome]
    /\ EndRequest(p)
    /\ UNCHANGED <<parcel, resi, printed, blocked, handovers, invoice, item>>

DecidePrint(p) ==
    /\ step[p] = "locked"
    /\ PrintReplay(AttemptOf[p]) = {}
    /\ Decide(p, {ParcelOf(p)})

\* The attempt is the primary key of the event.
EventKey(a) == PrintReplay(a) = {}

\* The event, the commit, and the answer, which may not arrive.
RecordPrint(p) ==
    LET s == ParcelOf(p)
        outcome == PrintCandidate(s)
    IN /\ step[p] = "decided"
       /\ PrintPolicy(s, outcome) /\ EventKey(AttemptOf[p])
       /\ printed' = IF outcome = "PRINTED"
                     THEN [printed EXCEPT ![s] = Append(@, AttemptOf[p])] ELSE printed
       /\ blocked' = IF outcome = "PRINTED" THEN blocked
                     ELSE blocked \cup {[attempt |-> AttemptOf[p], reason |-> outcome]}
       /\ \E answer \in {outcome, NoAnswer} : told' = [told EXCEPT ![p] = answer]
       /\ EndRequest(p)
       /\ UNCHANGED <<parcel, resi, handovers, invoice, item>>

-----------------------------------------------------------------------------
(* Handing over *)

\* Mutant of DecideMark: one parcel that is refused stops the batch.
DecideMarkAllOrNone(m) ==
    /\ step[m] = "locked"
    /\ Decide(m, IF \A s \in ToSet(Wanted[m]) : HandoverRefusal(s) = "NONE" /\ ~HandedOver(s)
                 THEN ToSet(Wanted[m]) ELSE {})

\* The eligible parcels of the batch; the rest is reported.
DecideMark(m) ==
    /\ step[m] = "locked"
    /\ Decide(m, {s \in ToSet(Wanted[m]) : HandoverRefusal(s) = "NONE" /\ ~HandedOver(s)})

\* Mutant of Undoable: a parcel that the courier has is taken back as well.
UndoableLate(s) == HandedOver(s) /\ parcel[s] # "CANCELLED"

Undoable(s) == HandedOver(s) /\ parcel[s] = "ISSUED"

DecideUndo(u) ==
    /\ step[u] = "locked"
    /\ Decide(u, {s \in {ParcelOf(u)} : Undoable(s)})

\* Bound for TLC: how often a parcel is handed over and taken back.
MaxHandovers == 3

RecordHandover(r) ==
    LET kind == IF r \in Marks THEN "HANDED_OVER" ELSE "UNDONE"
    IN /\ step[r] = "decided"
       /\ \A s \in plan[r] : /\ HandoverPolicy(s, kind) /\ HandoverOrder(s, kind)
                             /\ Len(handovers[s]) < MaxHandovers
       /\ handovers' = [s \in Parcels |-> IF s \in plan[r] THEN Append(handovers[s], kind)
                                          ELSE handovers[s]]
       /\ EndRequest(r)
       /\ UNCHANGED <<parcel, resi, printed, blocked, invoice, told, item>>

-----------------------------------------------------------------------------
(* What else changes a shipment: its payment, its cancellation, a pull, the webhook *)

MoveParcels(v) ==
    /\ step[v] = "locked"
    /\ parcel' \in [Parcels -> ParcelStatuses]
    /\ \A s \in Parcels \ ToSet(Wanted[v]) : parcel'[s] = parcel[s]
    /\ \A s \in ToSet(Wanted[v]) :
          CASE parcel[s] = "AWAITING_UPSTREAM_PAYMENT" ->
                  parcel'[s] \in {parcel[s], "ISSUED", "CANCELLED"}
            [] parcel[s] = "ISSUED" -> parcel'[s] \in {parcel[s], "IN_TRANSIT", "CANCELLED"}
            [] OTHER -> parcel'[s] = parcel[s]
    /\ resi' = resi \cup {s \in Parcels : parcel'[s] = "ISSUED"}
    /\ EndRequest(v)
    /\ UNCHANGED <<printed, blocked, handovers, invoice, told, item>>

-----------------------------------------------------------------------------
(* Invoices *)

Item(i) == Wanted[i][item[i]]

BeginInvoices(i) ==
    /\ step[i] = "idle"
    /\ step' = [step EXCEPT ![i] = "listing"]
    /\ UNCHANGED <<parcel, resi, printed, blocked, handovers, invoice, rowLock, keyShare,
                   plan, told, item>>

NextItem(i) ==
    /\ step' = [step EXCEPT ![i] = "listing"]
    /\ item' = [item EXCEPT ![i] = @ + 1]
    /\ UNCHANGED <<parcel, resi, printed, blocked, handovers, invoice, rowLock, told>>

\* There is an invoice, or the parcel has none to draw.
SkipInvoice(i) ==
    /\ step[i] = "listing" /\ item[i] <= Len(Wanted[i])
    /\ invoice[Item(i)] # NoRequest \/ Item(i) \notin resi \/ parcel[Item(i)] = "CANCELLED"
    /\ NextItem(i)
    /\ UNCHANGED <<plan, keyShare>>

\* The snapshot of the statement that inserts it.
StartInvoice(i) ==
    /\ step[i] = "listing" /\ item[i] <= Len(Wanted[i])
    /\ invoice[Item(i)] = NoRequest /\ Item(i) \in resi /\ parcel[Item(i)] # "CANCELLED"
    /\ step' = [step EXCEPT ![i] = "drawing"]
    /\ UNCHANGED <<parcel, resi, printed, blocked, handovers, invoice, rowLock, keyShare,
                   plan, told, item>>

Drawing(s) == {j \in Issues : s \in plan[j]}

\* Mutant of DrawInvoice: it does not look for the invoice of another request.
DrawInvoiceBlindly(i) ==
    LET s == Item(i)
    IN /\ step[i] = "drawing"
       /\ rowLock[s] = NoRequest
       /\ plan' = [plan EXCEPT ![i] = @ \cup {s}]
       /\ keyShare' = [keyShare EXCEPT ![s] = @ \cup {i}]
       /\ NextItem(i)

\* ON CONFLICT (shipment_id) DO NOTHING, after waiting for whoever is drawing it.
DrawInvoice(i) ==
    LET s == Item(i)
    IN /\ step[i] = "drawing"
       /\ Drawing(s) = {}
       /\ rowLock[s] = NoRequest
       /\ IF invoice[s] = NoRequest
          THEN /\ plan' = [plan EXCEPT ![i] = @ \cup {s}]
               /\ keyShare' = [keyShare EXCEPT ![s] = @ \cup {i}]
          ELSE UNCHANGED <<plan, keyShare>>
       /\ NextItem(i)

CommitInvoices(i) ==
    /\ step[i] = "listing" /\ item[i] = Len(Wanted[i]) + 1
    /\ invoice' = [s \in Parcels |-> IF s \in plan[i] THEN i ELSE invoice[s]]
    /\ item' = [item EXCEPT ![i] = 1]
    /\ EndRequest(i)
    /\ UNCHANGED <<parcel, resi, printed, blocked, handovers, told>>

-----------------------------------------------------------------------------
DeskNext ==
    \/ \E r \in Lockers : BeginRequest(r) \/ LockRow(r)
    \/ \E r \in Lockers \cup Issues : AbortRequest(r)
    \/ \E p \in Prints :
          ReplayPrint(p) \/ ReplayAfterLock(p) \/ DecidePrint(p) \/ RecordPrint(p)
    \/ \E m \in Marks : DecideMark(m)
    \/ \E u \in Undos : DecideUndo(u)
    \/ \E r \in Marks \cup Undos : RecordHandover(r)
    \/ \E v \in Moves : MoveParcels(v)
    \/ \E i \in Issues :
          \/ BeginInvoices(i) \/ SkipInvoice(i) \/ StartInvoice(i) \/ DrawInvoice(i)
          \/ CommitInvoices(i)

DeskSpec == DeskInit /\ [][DeskNext]_deskVars

-----------------------------------------------------------------------------
(* Properties *)

\* An attempt is recorded at most once, whichever of its requests gets there first and
\* whatever has become of the parcel since, and all of them are told the same.
AttemptRecordedOnce ==
    /\ \A s \in Parcels : IsInjective(printed[s])
    /\ \A a \in Attempts : Cardinality(PrintReplay(a)) <= 1
    /\ \A p \in Prints : told[p] # NoAnswer => told[p] \in PrintReplay(AttemptOf[p])

\* What a request decides under its locks is still so when it writes: the policies and
\* the trigger, which judge the rows again, never undo a batch.
DatabaseAgrees ==
    /\ \A r \in Marks \cup Undos : \A s \in plan[r] :
          LET kind == IF r \in Marks THEN "HANDED_OVER" ELSE "UNDONE"
          IN HandoverPolicy(s, kind) /\ HandoverOrder(s, kind)
    /\ \A p \in Prints : \A s \in plan[p] :
          PrintPolicy(s, PrintCandidate(s)) /\ EventKey(AttemptOf[p])

\* A batch marks its parcels that are ready when it writes, all of them and no others,
\* although one that is refused is only left out and others change while it waits for rows.
WholeBatchMarked ==
    \A m \in Marks : step[m] = "decided" =>
        plan[m] = {s \in ToSet(Wanted[m]) : ScanState(s) = "READY"}

\* The parcels that can be handed over are in exactly one of the three queues, each queue
\* counts what it lists, and a scan of a parcel agrees with the queue it is in.
QueuesAddUp ==
    /\ Listed("semua") = Listed("belum") \cup Listed("sudah") \cup Listed("diserahkan")
    /\ Listed("belum") \cap Listed("diserahkan") = {}
    /\ \A entry \in {"batal", "semua", "belum", "sudah", "diserahkan"} :
          Counted(entry) = Listed(entry)
    /\ \A s \in Parcels : ScanState(s) = "READY" <=> s \in Listed("sudah")

\* A decision taken under locks is written as it was taken: the policies agree, and a batch
\* is marked whole.
DecisionsStand == DatabaseAgrees /\ WholeBatchMarked

\* What the desk shows is what happened: an attempt once, a parcel in one queue.
DeskAddsUp == AttemptRecordedOnce /\ QueuesAddUp

\* r cannot go on before q ends: it wants a row that q has locked or refers to, or an
\* invoice that q is drawing.
WaitsFor(r, q) ==
    /\ q # r
    /\ \/ /\ step[r] = "locking"
          /\ rowLock[NextRow(r)] = q \/ q \in keyShare[NextRow(r)]
       \/ /\ step[r] = "drawing"
          /\ rowLock[Item(r)] = q \/ q \in Drawing(Item(r))

\* The page of a batch draws in the order of its address (issueMissingBatchInvoices): it may
\* have drawn the invoice of a larger parcel than the one it waits for.
OutOfOrder(i) == \E s \in plan[i] : s > Item(i)

\* Requests wait for each other in a circle only where a page that draws invoices out of
\* order takes part: prints, batches, undos and moves never do among themselves, in whichever
\* order they list their parcels, nor beside pages whose addresses ascend.
NoCircularWait ==
    LET stuck == {r \in Lockers \cup Issues : \E q \in Lockers \cup Issues : WaitsFor(r, q)}
    IN \A waiting \in (SUBSET stuck) \ {{}} :
          (\A r \in waiting : \E q \in waiting : WaitsFor(r, q))
             => \E i \in waiting \cap Issues : OutOfOrder(i)

\* "A repeated or concurrent request returns the invoice that won": an invoice that is
\* drawn stays as it is.
InvoiceStands ==
    [][\A s \in Parcels : invoice[s] # NoRequest => invoice'[s] = invoice[s]]_deskVars

-----------------------------------------------------------------------------
(* What makes these invariants inductive *)

\* A request locks rows that it wants, the smallest first, until it has them all.
RowsInOrder ==
    \A r \in Lockers :
        /\ Held(r) \subseteq ToSet(Wanted[r])
        /\ step[r] \in {"idle", "locking", "locked", "decided"}
        /\ step[r] = "locking" =>
              /\ Held(r) # ToSet(Wanted[r])
              /\ \A s \in Held(r) : \A t \in ToSet(Wanted[r]) \ Held(r) : s < t

\* Only what is locked is decided about, a print about the one parcel it is of.
PlansUnderLocks ==
    /\ \A r \in Lockers : plan[r] \subseteq Held(r) /\ (plan[r] # {} => step[r] = "decided")
    /\ \A p \in Prints : step[p] = "decided" => plan[p] = {ParcelOf(p)}

\* Nobody else draws an invoice that is being drawn, and none is drawn twice.
DrawnOnce ==
    \A i \in Issues :
        /\ step[i] \in {"idle", "listing", "drawing"}
        /\ step[i] = "drawing" => item[i] <= Len(Wanted[i])
        /\ plan[i] \subseteq {Wanted[i][n] : n \in 1 .. item[i] - 1}
        /\ \A s \in plan[i] : invoice[s] = NoRequest /\ Drawing(s) = {i}

\* An order has its resi once it is issued, and whoever handed a parcel over had its label.
ParcelsFollow ==
    \A s \in Parcels :
        /\ parcel[s] = "ISSUED" => s \in resi
        /\ parcel[s] = "AWAITING_UPSTREAM_PAYMENT" => s \notin resi
        /\ HandedOver(s) => WasPrinted(s)

DeskInv ==
    /\ RowsInOrder /\ PlansUnderLocks /\ DrawnOnce /\ ParcelsFollow
    /\ DecisionsStand /\ AttemptRecordedOnce
=============================================================================
