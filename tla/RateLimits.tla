----------------------------- MODULE RateLimits -----------------------------
(***************************************************************************)
(* How often somebody may make the program work for them.  Three counters  *)
(* answer that:                                                            *)
(*   - a row per member and operation (orders, estimates, area searches,   *)
(*     and one like it for credentials), counted in the transaction of the *)
(*     call and forgotten if that transaction fails; its window slides;    *)
(*   - a row per client or address for the anonymous pages, whose window   *)
(*     is fixed and which counts what it refuses as well;                  *)
(*   - a map in the process for cheap reads, which is thrown away when it  *)
(*     has too many keys.                                                  *)
(* The callers read the clock before they wait for the row, so the times   *)
(* they write may be older than the ones already there.                    *)
(***************************************************************************)
EXTENDS Naturals, Sequences, FiniteSets

CONSTANTS
    Calls,     \* calls of one member for one operation
    Visits,    \* calls of one anonymous client
    Readers,   \* the keys of the map in the process
    MaxCalls,  \* how many a window admits
    Window,    \* its length
    MaxReaders, \* MAX_TRACKED_WINDOW_KEYS
    Delay,     \* the longest a call takes from reading the clock to its end
    Horizon,   \* the last instant (a bound for TLC)
    NoRow

ASSUME RateAssumption ==
    /\ MaxCalls \in Nat \ {0} /\ Window \in Nat \ {0} /\ Horizon \in Nat
    /\ Delay \in 0 .. (Window - 1)
    /\ MaxReaders \in Nat \ {0}

Times == 0 .. Horizon
SlotRows == [count : Nat, last : Times]
VisitorRows == [count : Nat, started : Times]

ASSUME NoRowAssumption == NoRow \notin Times \cup SlotRows \cup VisitorRows

VARIABLES
    clock,
    slot,     \* shipment_rate_limits: the count and last_request of the member
    counting, \* what each call has counted and not committed
    called,   \* the clock each call has read
    admitted, \* the instants at which calls were let through
    visitors, \* public_auth_rate_limits: the count and window_started_at
    visited,  \* the clock each visit has read
    received, \* the instants at which visits were let through
    windows   \* the map in the process

slotVars == <<slot, counting, called, admitted>>
visitVars == <<visitors, visited, received>>
rateVars == <<clock, slotVars, visitVars, windows>>

RateTypeOK ==
    /\ clock \in Times
    /\ slot \in SlotRows \cup {NoRow}
    /\ slot # NoRow => slot.count \in 1 .. MaxCalls /\ slot.last <= clock
    /\ counting \in [Calls -> SlotRows \cup {NoRow}]
    /\ \A c, d \in Calls : counting[c] # NoRow /\ counting[d] # NoRow => c = d
    /\ called \in [Calls -> Times \cup {NoRow}]
    /\ admitted \in Seq(Times)
    /\ visitors \in VisitorRows \cup {NoRow}
    /\ visitors # NoRow => visitors.count \in 1 .. MaxCalls + 1 /\ visitors.started <= clock
    /\ visited \in [Visits -> Times \cup {NoRow}]
    /\ received \in Seq(Times)
    /\ DOMAIN windows \subseteq Readers
    /\ \A k \in DOMAIN windows : windows[k] \in VisitorRows

RateInit ==
    /\ clock = 0
    /\ slot = NoRow
    /\ counting = [c \in Calls |-> NoRow]
    /\ called = [c \in Calls |-> NoRow]
    /\ admitted = <<>>
    /\ visitors = NoRow
    /\ visited = [v \in Visits |-> NoRow]
    /\ received = <<>>
    /\ windows = [k \in {} |-> NoRow]

Tick ==
    /\ clock < Horizon
    /\ \A c \in Calls : called[c] # NoRow => clock < called[c] + Delay
    /\ \A v \in Visits : visited[v] # NoRow => clock < visited[v] + Delay
    /\ clock' = clock + 1
    /\ UNCHANGED <<slotVars, visitVars, windows>>

-----------------------------------------------------------------------------
(* The row of a member *)

\* Date.now(), before the statement.
ReadClock(c) ==
    /\ called[c] = NoRow
    /\ called' = [called EXCEPT ![c] = clock]
    /\ UNCHANGED <<clock, slot, counting, admitted, visitVars, windows>>

\* Mutant of CountCall: the limit is one too generous.
CountOneMore(row, now) ==
    IF row = NoRow \/ row.last + Window <= now THEN {[count |-> 1, last |-> now]}
    ELSE IF row.count <= MaxCalls THEN {[count |-> row.count + 1, last |-> now]}
    ELSE {}

\* Mutant of CountCall: the window restarts a tick early.
CountEarly(row, now) ==
    IF row = NoRow \/ row.last + Window <= now + 1 THEN {[count |-> 1, last |-> now]}
    ELSE IF row.count < MaxCalls THEN {[count |-> row.count + 1, last |-> now]}
    ELSE {}

\* The row that the statement leaves, none if it refuses.
CountCall(row, now) ==
    IF row = NoRow \/ row.last + Window <= now THEN {[count |-> 1, last |-> now]}
    ELSE IF row.count < MaxCalls THEN {[count |-> row.count + 1, last |-> now]}
    ELSE {}

\* The statement waits for a transaction that has the row, or is inserting it.
EnforceRateLimit(c) ==
    /\ called[c] # NoRow
    /\ \A d \in Calls : counting[d] = NoRow
    /\ \E row \in CountCall(slot, called[c]) : counting' = [counting EXCEPT ![c] = row]
    /\ UNCHANGED <<clock, slot, called, admitted, visitVars, windows>>

RateLimited(c) ==
    /\ called[c] # NoRow
    /\ \A d \in Calls : counting[d] = NoRow
    /\ CountCall(slot, called[c]) = {}
    /\ called' = [called EXCEPT ![c] = NoRow]
    /\ UNCHANGED <<clock, slot, counting, admitted, visitVars, windows>>

\* The rest of the transaction succeeds, and the call goes to Mengantar.
CallAdmitted(c) ==
    /\ counting[c] # NoRow
    /\ slot' = counting[c]
    /\ counting' = [counting EXCEPT ![c] = NoRow]
    /\ called' = [called EXCEPT ![c] = NoRow]
    /\ admitted' = Append(admitted, clock)
    /\ UNCHANGED <<clock, visitVars, windows>>

\* It fails, and the count with it.
CallRolledBack(c) ==
    /\ counting[c] # NoRow
    /\ counting' = [counting EXCEPT ![c] = NoRow]
    /\ called' = [called EXCEPT ![c] = NoRow]
    /\ UNCHANGED <<clock, slot, admitted, visitVars, windows>>

-----------------------------------------------------------------------------
(* The row of a client of the anonymous pages *)

ReadVisitClock(v) ==
    /\ visited[v] = NoRow
    /\ visited' = [visited EXCEPT ![v] = clock]
    /\ UNCHANGED <<clock, slotVars, visitors, received, windows>>

\* Mutant of CountVisit: the count stops at the limit, so it never exceeds it.
CountVisitShort(row, now) ==
    IF row = NoRow \/ row.started + Window <= now THEN [count |-> 1, started |-> now]
    ELSE [row EXCEPT !.count = IF @ < MaxCalls THEN @ + 1 ELSE @]

\* The row counts on beyond the limit; by how much makes no difference.
CountVisit(row, now) ==
    IF row = NoRow \/ row.started + Window <= now THEN [count |-> 1, started |-> now]
    ELSE [row EXCEPT !.count = IF @ <= MaxCalls THEN @ + 1 ELSE @]

\* One statement and its commit.
ConsumePublicAuthRateLimit(v) ==
    LET row == CountVisit(visitors, visited[v])
    IN /\ visited[v] # NoRow
       /\ visitors' = row
       /\ received' = IF row.count <= MaxCalls THEN Append(received, clock)
                      ELSE received
       /\ visited' = [visited EXCEPT ![v] = NoRow]
       /\ UNCHANGED <<clock, slotVars, windows>>

-----------------------------------------------------------------------------
(* The map in the process *)

Running(k) == k \in DOMAIN windows /\ clock < windows[k].started + Window
Live == {k \in DOMAIN windows : clock < windows[k].started + Window}

\* Mutant of Kept: only windows that are over make room.
KeptLive == IF Cardinality(DOMAIN windows) < MaxReaders THEN DOMAIN windows ELSE Live

\* The windows that stay when a new one comes.
Kept ==
    IF Cardinality(DOMAIN windows) < MaxReaders THEN DOMAIN windows
    ELSE IF Cardinality(Live) < MaxReaders THEN Live
    ELSE {}

StartWindow(k) ==
    /\ ~Running(k)
    /\ windows' = [j \in Kept \cup {k} |->
                      IF j = k THEN [count |-> 1, started |-> clock] ELSE windows[j]]
    /\ UNCHANGED <<clock, slotVars, visitVars>>

CountInWindow(k) ==
    /\ Running(k)
    /\ windows[k].count < MaxCalls
    /\ windows' = [windows EXCEPT ![k].count = @ + 1]
    /\ UNCHANGED <<clock, slotVars, visitVars>>

-----------------------------------------------------------------------------
RateNext ==
    \/ Tick
    \/ \E c \in Calls :
          \/ ReadClock(c) \/ EnforceRateLimit(c) \/ RateLimited(c)
          \/ CallAdmitted(c) \/ CallRolledBack(c)
    \/ \E v \in Visits : ReadVisitClock(v) \/ ConsumePublicAuthRateLimit(v)
    \/ \E k \in Readers : StartWindow(k) \/ CountInWindow(k)

RateSpec == RateInit /\ [][RateNext]_rateVars

-----------------------------------------------------------------------------
(* Properties *)

\* How much of a log falls on the n instants from t on.
During(log, t, n) == Cardinality({i \in DOMAIN log : log[i] \in t .. t + n - 1})

\* No stretch that is shorter than a window by at least the delay of a call admits more
\* than the limit, although a late call may set last_request back, a window restarts
\* at exactly its length, and calls that fail are forgotten.
NeverOverTheLimit == \A t \in Times : During(admitted, t, Window - Delay) <= MaxCalls

\* A fixed window may end one burst and begin another, never three.
NeverThreeBursts == \A t \in Times : During(received, t, Window - Delay) <= 2 * MaxCalls

\* The map never outgrows its bound.
MapIsBounded == Cardinality(DOMAIN windows) <= MaxReaders

\* The three limiters keep their limit at the boundaries of their windows and of the map.
LimitsHold == NeverOverTheLimit /\ NeverThreeBursts /\ MapIsBounded

-----------------------------------------------------------------------------
(* What makes these limits inductive *)

\* Time waits for whoever has read the clock.
ReadLately(read, who) ==
    \A c \in who : read[c] # NoRow => read[c] <= clock /\ clock <= read[c] + Delay

\* What is let through is logged as time passes.
InOrder(log) ==
    /\ \A i, j \in DOMAIN log : i <= j => log[i] <= log[j]
    /\ \A i \in DOMAIN log : log[i] <= clock

\* The row counts the last calls, the newest one is no older than Delay, and the first of
\* them came when those before were nearly a window old.
RowCountsLast ==
    LET n == Len(admitted)
    IN IF slot = NoRow THEN n = 0
       ELSE /\ slot.last <= admitted[n] /\ admitted[n] <= slot.last + Delay
            /\ \E j \in 0 .. n :
                  /\ j + slot.count = n
                  /\ j > 0 => admitted[j] + Window <= admitted[j + 1] + Delay

\* Nobody has changed the row under the call that counts.
CountsFromRow ==
    \A c \in Calls : counting[c] # NoRow =>
        called[c] # NoRow /\ counting[c] \in CountCall(slot, called[c])

\* The visits of the running window are the last ones; those of the window before (up to
\* i) ended with it, late ones apart, and all earlier ones (up to j) a window earlier.
WindowCountsLast ==
    LET n == Len(received)
        counted == IF visitors.count <= MaxCalls THEN visitors.count ELSE MaxCalls
        until(m, instant) == \A l \in 1 .. m : received[l] < instant + Delay
    IN IF visitors = NoRow THEN n = 0
       ELSE \E i \in 0 .. n, j \in 0 .. n :
               /\ i + counted = n /\ i <= j + MaxCalls
               /\ until(n, visitors.started + Window) /\ until(i, visitors.started)
               /\ \A l \in 1 .. j : received[l] + Window < visitors.started + Delay

RateInv ==
    /\ ReadLately(called, Calls) /\ ReadLately(visited, Visits)
    /\ InOrder(admitted) /\ InOrder(received)
    /\ RowCountsLast /\ CountsFromRow /\ WindowCountsLast
    /\ IsFiniteSet(DOMAIN windows)
    /\ LimitsHold
=============================================================================
