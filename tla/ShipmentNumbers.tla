-------------------------- MODULE ShipmentNumbers ---------------------------
(***************************************************************************)
(* The numbers of a store's shipments and the prefix they are shown with.  *)
(* Both are in one row, tenant_shipment_counters: whoever writes it has it *)
(* until the end of the transaction, also when the row is new.  The first  *)
(* number ever taken locks the prefix; an admin may save one before, which *)
(* rewrites what is numbered already, and again after a Super Admin has    *)
(* unlocked it.                                                            *)
(*                                                                         *)
(* A store that signed up has a row from the start, one the platform made  *)
(* has none, one from before this numbering has numbers and no lock.       *)
(***************************************************************************)
EXTENDS Integers

CONSTANTS
    StorePrefixes, DefaultPrefix,
    Creations,  \* transactions that create a shipment
    Savings,    \* requests of an admin to save a prefix
    PrefixOf,   \* the prefix of a saving
    MaxUnlocks, \* how often a Super Admin unlocks the prefix (a bound for TLC)
    OldNumbers, \* how many shipments an older store brings along
    Nil

FirstNumber == 10000
Counters ==
    [last : {0} \cup {n \in Int : n >= FirstNumber}, prefix : StorePrefixes, locked : BOOLEAN]
Fresh(p) == [last |-> 0, prefix |-> p, locked |-> FALSE]

ASSUME NumberAssumption ==
    /\ DefaultPrefix \in StorePrefixes /\ PrefixOf \in [Savings -> StorePrefixes]
    /\ MaxUnlocks \in Nat /\ OldNumbers \in Nat \ {0}
    /\ Creations \cap Savings = {} /\ Nil \notin Counters

VARIABLES
    older,    \* the store comes from before this numbering
    counter,  \* the row as committed: [last, prefix, locked]; Nil without one
    writing,  \* the row as each transaction that has it will leave it
    numbered, \* the shipments: number, prefix, and the prefix they were created with
    unlocks,  \* how often the prefix was unlocked
    filing    \* each transaction: where it is

numberVars == <<older, counter, writing, numbered, unlocks, filing>>

NumberTypeOK ==
    /\ older \in BOOLEAN
    /\ counter \in Counters \cup {Nil}
    /\ writing \in [Creations \cup Savings -> Counters \cup {Nil}]
    /\ numbered \subseteq [number : Int, prefix : StorePrefixes, first : StorePrefixes]
    /\ unlocks \in 0 .. MaxUnlocks
    /\ filing \in [Creations \cup Savings -> {"idle", "open", "done", "refused"}]
    /\ \A f \in DOMAIN filing : (filing[f] = "open") = (writing[f] # Nil)

NumberInit ==
    /\ \/ older = FALSE /\ counter = Nil /\ numbered = {}
       \/ \E p \in StorePrefixes : older = FALSE /\ counter = Fresh(p) /\ numbered = {}
       \/ LET numbers == FirstNumber .. FirstNumber + OldNumbers - 1
          IN /\ older = TRUE
             /\ counter = [Fresh(DefaultPrefix) EXCEPT !.last = FirstNumber + OldNumbers - 1]
             /\ numbered = [number : numbers, prefix : {DefaultPrefix}, first : {DefaultPrefix}]
    /\ writing = [f \in Creations \cup Savings |-> Nil] /\ unlocks = 0
    /\ filing = [f \in Creations \cup Savings |-> "idle"]

-----------------------------------------------------------------------------
\* Mutant of RowLeft: a number is taken without waiting for the row.
RowUnguarded == TRUE

\* The row is written by one transaction at a time.
RowLeft == \A f \in DOMAIN filing : filing[f] # "open"

CounterRow == IF counter = Nil THEN Fresh(DefaultPrefix) ELSE counter

Take(f, row) ==
    /\ filing' = [filing EXCEPT ![f] = "open"]
    /\ writing' = [writing EXCEPT ![f] = row]
    /\ UNCHANGED <<older, counter, numbered, unlocks>>

Leave(f, result) ==
    /\ filing[f] = "open"
    /\ filing' = [filing EXCEPT ![f] = result]
    /\ writing' = [writing EXCEPT ![f] = Nil]
    /\ UNCHANGED <<older, unlocks>>

\* Mutant of Allocated: the first number leaves the prefix open.
AllocatedUnlocked(row) ==
    [row EXCEPT !.last = IF @ = 0 THEN FirstNumber ELSE @ + 1]

\* The next number; the very first one locks the prefix.
Allocated(row) ==
    [row EXCEPT !.last = IF @ = 0 THEN FirstNumber ELSE @ + 1, !.locked = @ \/ row.last = 0]

Allocate(c) == filing[c] = "idle" /\ RowLeft /\ Take(c, Allocated(CounterRow))

\* The shipment bears what the row said.
CommitCreation(c) ==
    /\ Leave(c, "done")
    /\ LET row == writing[c]
       IN /\ counter' = row
          /\ numbered' = numbered \cup
                {[number |-> row.last, prefix |-> row.prefix, first |-> row.prefix]}

\* A rollback gives the number, or the lock, back.
Withdraw(f) == Leave(f, "refused") /\ UNCHANGED <<counter, numbered>>

\* A prefix is saved only while it is not locked; saving locks it.
TakePrefix(s) ==
    /\ filing[s] = "idle" /\ RowLeft
    /\ IF CounterRow.locked
       THEN /\ filing' = [filing EXCEPT ![s] = "refused"]
            /\ UNCHANGED <<older, counter, writing, numbered, unlocks>>
       ELSE Take(s, [CounterRow EXCEPT !.prefix = PrefixOf[s], !.locked = TRUE])

\* Mutant of Rewritten: old references stay as they were shown.
RewrittenNone(p) == numbered

Rewritten(p) == {[s EXCEPT !.prefix = p] : s \in numbered}

\* A statement of its own rewrites every shipment that is committed by then.
RewriteReferences(s) ==
    /\ Leave(s, "done")
    /\ numbered' = Rewritten(PrefixOf[s])
    /\ counter' = writing[s]

Unlock ==
    /\ RowLeft /\ counter # Nil /\ counter.locked
    /\ unlocks < MaxUnlocks /\ unlocks' = unlocks + 1
    /\ counter' = [counter EXCEPT !.locked = FALSE]
    /\ UNCHANGED <<older, writing, numbered, filing>>

NumberNext ==
    \/ \E c \in Creations : Allocate(c) \/ CommitCreation(c) \/ Withdraw(c)
    \/ \E s \in Savings : TakePrefix(s) \/ RewriteReferences(s) \/ Withdraw(s)
    \/ Unlock

NumberSpec == NumberInit /\ [][NumberNext]_numberVars

-----------------------------------------------------------------------------
\* The numbers of a store have no gap and no double, whatever was rolled back, and
\* every reference bears the one prefix of the store, whatever was saved meanwhile.
NumbersRun ==
    /\ {s.number : s \in numbered} =
          IF CounterRow.last = 0 THEN {} ELSE FirstNumber .. counter.last
    /\ \A s, r \in numbered : s.number = r.number => s = r
    /\ \A s \in numbered : s.prefix = counter.prefix

\* A reference stays as it was first shown, unless a Super Admin has unlocked the
\* prefix or the store is older than the lock.
ReferencesStay == unlocks = 0 /\ ~older => \A s \in numbered : s.prefix = s.first

\* The numbers of a store are what a reader of its list relies on.
NumbersFollow == NumbersRun /\ ReferencesStay

-----------------------------------------------------------------------------
(* What makes these invariants inductive *)

\* One transaction has the row.
OneWriter ==
    \A f, g \in DOMAIN filing : filing[f] = "open" /\ filing[g] = "open" => f = g

\* Whoever has the row writes it from what is committed, which nobody changes meanwhile.
RowFollowsCommitted ==
    /\ \A c \in Creations : filing[c] = "open" => writing[c] = Allocated(CounterRow)
    /\ \A s \in Savings : filing[s] = "open" =>
          /\ ~CounterRow.locked
          /\ writing[s] = [CounterRow EXCEPT !.prefix = PrefixOf[s], !.locked = TRUE]

\* From the first number on the prefix is locked, until a Super Admin unlocks it.
LockedFromFirst == unlocks = 0 /\ ~older /\ ~CounterRow.locked => CounterRow.last = 0

NumberInv == NumbersFollow /\ OneWriter /\ RowFollowsCommitted /\ LockedFromFirst
=============================================================================
