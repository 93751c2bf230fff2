---------------------------- MODULE StoreAccess ----------------------------
(***************************************************************************)
(* Who runs a store (a tenant), and whether it may work at all.            *)
(*                                                                         *)
(* The admins of a store invite members, change their roles and deactivate *)
(* them.  A request of theirs is one transaction of several statements: it *)
(* reads who is asking, waits for the governance lock of the store,        *)
(* decides, writes the change with its audit row, commits.  Row-level      *)
(* security looks at the asker again at every statement.  A Super Admin    *)
(* suspends, reactivates and archives stores, without that lock.           *)
(*                                                                         *)
(* Forms carry an attempt identifier; a form sent twice is answered from   *)
(* the audit row of the first time (its receipt).  Sessions are left out:  *)
(* whoever is a member may ask at any time, signed out or not, so deleting *)
(* the sessions of a member or of a store only removes behaviours.         *)
(***************************************************************************)
CONSTANTS
    Stores,
    Users,      \* the accounts; all are ACTIVE
    Platform,   \* those that hold a platform role
    Requests,   \* requests of store admins
    Forms,      \* what they may send: [actor, action, target, role, attempt]
    Orders,     \* what a Super Admin may send: [action, store, named, attempt]
    FirstStore, FirstMember, \* the state of the stores and the members at the start
    Nobody

Roles == {"TENANT_ADMIN", "OPERATOR"}
MemberActions == {"MEMBER_INVITED", "MEMBER_ROLE_CHANGED", "MEMBER_DEACTIVATED"}
\* "NONE" is a store that does not exist yet.
StoreStatuses == {"NONE", "PROVISIONING", "ACTIVE", "SUSPENDED", "ARCHIVED"}
Memberships == [store : Stores, role : Roles, status : {"ACTIVE", "SUSPENDED"}]
Answers == {"ok", "failed", "ATTEMPT_CONFLICT", "NOT_AUTHORIZED", "INVITATION_NOT_ALLOWED",
            "ALREADY_ACTIVE", "MEMBER_NOT_FOUND", "NO_CHANGE", "LAST_ACTIVE_ADMIN",
            "SELF_CHANGE_NOT_ALLOWED"}

ASSUME AccessAssumption ==
    /\ Platform \subseteq Users
    /\ Forms \subseteq [actor : Users, action : MemberActions, target : Users,
                        role : Roles, attempt : STRING]
    /\ Orders \subseteq [action : {"create", "suspend", "reactivate", "archive"}, store : Stores,
                         named : BOOLEAN, attempt : STRING]
    /\ FirstStore \in [Stores -> StoreStatuses]
    /\ FirstMember \in [Users -> Memberships \cup {Nobody}]
    /\ Nobody \notin Memberships \cup Stores \cup Users \cup Forms \cup Roles
                     \cup Requests \cup Answers

VARIABLES
    store,     \* tenants.status
    member,    \* the membership of a user; memberships.user_id is unique
    receipts,  \* audit rows of the governance actions
    orders,    \* audit rows of the lifecycle actions
    holder,    \* who holds the governance lock of a store
    phase, form, context, answer, change
               \* each request: where it is, what was sent, the membership it read
               \* when it began, what it will answer, the membership it has written

request == <<phase, form, context, answer, change>>
accessVars == <<store, member, receipts, orders, holder, request>>

AccessTypeOK ==
    /\ store \in [Stores -> StoreStatuses]
    /\ member \in [Users -> Memberships \cup {Nobody}]
    /\ receipts \subseteq [actor : Users, store : Stores, action : MemberActions,
                           attempt : STRING, target : Users \cup {Nobody},
                           role : Roles \cup {Nobody}, answer : Answers]
    /\ orders \subseteq [order : Orders, answer : {"ok", "denied"}]
    /\ holder \in [Stores -> Requests \cup {Nobody}]
    /\ phase \in [Requests -> {"idle", "sent", "began", "locked", "written", "recorded",
                               "answered"}]
    /\ form \in [Requests -> Forms \cup {Nobody}]
    /\ context \in [Requests -> Memberships \cup {Nobody}]
    /\ answer \in [Requests -> Answers \cup {Nobody}]
    /\ change \in [Requests -> Memberships \cup {Nobody}]
    /\ \A g \in Requests :
          /\ phase[g] \in {"began", "locked", "written", "recorded"} => context[g] # Nobody
          /\ phase[g] # "idle" => form[g] # Nobody
          /\ phase[g] \in {"written", "recorded"} => answer[g] # Nobody
          /\ \A t \in Stores :
                holder[t] = g <=> /\ phase[g] \in {"locked", "written", "recorded"}
                                  /\ context[g].store = t

AccessInit ==
    /\ store = FirstStore
    /\ member = FirstMember
    /\ receipts = {}
    /\ orders = {}
    /\ holder = [t \in Stores |-> Nobody]
    /\ phase = [g \in Requests |-> "idle"]
    /\ form = [g \in Requests |-> Nobody]
    /\ context = [g \in Requests |-> Nobody]
    /\ answer = [g \in Requests |-> Nobody]
    /\ change = [g \in Requests |-> Nobody]

-----------------------------------------------------------------------------
(* Who may do what *)

\* The only membership of u that counts when u asks for something.
Standing(u) ==
    IF member[u] # Nobody /\ member[u].status = "ACTIVE" /\ store[member[u].store] = "ACTIVE"
    THEN member[u] ELSE Nobody

Admins(t) ==
    {u \in Users : /\ member[u] # Nobody
                   /\ member[u].store = t
                   /\ member[u].role = "TENANT_ADMIN"
                   /\ member[u].status = "ACTIVE"}

AtMostOneAdmin(t) == \E u \in Users : Admins(t) \subseteq {u}

\* Mutant of Authorized: the role read at the start is trusted.
AuthorizedOnce(u, t) == store[t] = "ACTIVE"

\* What row-level security lets a governance statement of u through for.
Authorized(u, t) == u \in Admins(t) /\ store[t] = "ACTIVE"

InvitationAllowed(u, t, target) ==
    /\ Authorized(u, t)
    /\ target \notin Platform
    /\ member[target] # Nobody => member[target].store = t

\* The membership of target, if the asker sees it.
Visible(u, t, target) ==
    IF Authorized(u, t) /\ member[target] # Nobody /\ member[target].store = t
    THEN member[target] ELSE Nobody

-----------------------------------------------------------------------------
(* The decision, under the lock *)

Receipt(f, t) == {r \in receipts : /\ r.actor = f.actor /\ r.store = t
                                   /\ r.action = f.action /\ r.attempt = f.attempt}

\* The answer that receipt r gives; a success is only told to one who still sees it.
Replayed(f, t, r) ==
    IF r.answer # "ok" \/ Visible(f.actor, t, r.target) # Nobody
    THEN r.answer ELSE "ATTEMPT_CONFLICT"

\* The receipt answers, when there is one and it is among those of the same request.
Repeated(f, t, same, otherwise) ==
    IF Receipt(f, t) = {} THEN otherwise
    ELSE LET r == CHOOSE r \in Receipt(f, t) : TRUE
         IN IF r \in same THEN Replayed(f, t, r) ELSE "ATTEMPT_CONFLICT"

Invite(f, t) ==
    Repeated(f, t, {r \in receipts : r.target = f.target /\ r.role = f.role},
        IF ~InvitationAllowed(f.actor, t, f.target) THEN "INVITATION_NOT_ALLOWED"
        ELSE IF member[f.target] # Nobody /\ member[f.target].status = "ACTIVE"
             THEN "ALREADY_ACTIVE" ELSE "ok")

\* Mutant of ChangeRole: a member who is not active is refused before the receipt is
\* looked for.
ChangeRoleJudged(f, t) ==
    LET m == Visible(f.actor, t, f.target)
    IN IF m = Nobody \/ m.status # "ACTIVE" THEN "MEMBER_NOT_FOUND"
       ELSE Repeated(f, t, {r \in receipts : r.target = f.target /\ r.role = f.role},
                IF m.role = f.role THEN "NO_CHANGE"
                ELSE IF m.role = "TENANT_ADMIN" /\ AtMostOneAdmin(t)
                     THEN "LAST_ACTIVE_ADMIN"
                ELSE IF f.target = f.actor THEN "SELF_CHANGE_NOT_ALLOWED" ELSE "ok")

ChangeRole(f, t) ==
    LET m == Visible(f.actor, t, f.target)
    IN IF m = Nobody \/ m.status # "ACTIVE"
       THEN Repeated(f, t, {r \in receipts : r.role = f.role}, "MEMBER_NOT_FOUND")
       ELSE Repeated(f, t, {r \in receipts : r.target = f.target /\ r.role = f.role},
                IF m.role = f.role THEN "NO_CHANGE"
                ELSE IF m.role = "TENANT_ADMIN" /\ AtMostOneAdmin(t)
                     THEN "LAST_ACTIVE_ADMIN"
                ELSE IF f.target = f.actor THEN "SELF_CHANGE_NOT_ALLOWED" ELSE "ok")

Deactivate(f, t) ==
    LET m == Visible(f.actor, t, f.target)
    IN IF m = Nobody \/ m.status # "ACTIVE"
       THEN Repeated(f, t, receipts, "MEMBER_NOT_FOUND")
       ELSE Repeated(f, t, {r \in receipts : r.target = f.target},
                IF m.role = "TENANT_ADMIN" /\ AtMostOneAdmin(t)
                THEN "LAST_ACTIVE_ADMIN"
                ELSE IF f.target = f.actor THEN "SELF_CHANGE_NOT_ALLOWED" ELSE "ok")

Decision(f, t, role) ==
    IF role # "TENANT_ADMIN" THEN Repeated(f, t, receipts, "NOT_AUTHORIZED")
    ELSE CASE f.action = "MEMBER_INVITED"      -> Invite(f, t)
           [] f.action = "MEMBER_ROLE_CHANGED" -> ChangeRole(f, t)
           [] f.action = "MEMBER_DEACTIVATED"  -> Deactivate(f, t)

\* The membership of the target once f succeeds.
Changed(f, t) ==
    IF f.action = "MEMBER_DEACTIVATED" THEN [member[f.target] EXCEPT !.status = "SUSPENDED"]
    ELSE [store |-> t, role |-> f.role, status |-> "ACTIVE"]

\* A refusal that names no membership is recorded without its target.
Unresolved == {"NOT_AUTHORIZED", "INVITATION_NOT_ALLOWED", "MEMBER_NOT_FOUND"}

NewReceipt(f, t, a) ==
    [actor |-> f.actor, store |-> t, action |-> f.action, attempt |-> f.attempt,
     target |-> IF a = "NOT_AUTHORIZED" \/ a = "MEMBER_NOT_FOUND" THEN Nobody ELSE f.target,
     role |-> IF a = "NOT_AUTHORIZED" THEN Nobody ELSE f.role, answer |-> a]

-----------------------------------------------------------------------------
(* A request of a store admin *)

\* The page lets an admin of a working store send the form.
SendForm(g, f) ==
    /\ phase[g] = "idle"
    /\ Standing(f.actor) # Nobody
    /\ Standing(f.actor).role = "TENANT_ADMIN"
    /\ phase' = [phase EXCEPT ![g] = "sent"]
    /\ form' = [form EXCEPT ![g] = f]
    /\ UNCHANGED <<store, member, receipts, orders, holder, context, answer, change>>

BeginGovernance(g) ==
    /\ phase[g] = "sent"
    /\ Standing(form[g].actor) # Nobody
    /\ phase' = [phase EXCEPT ![g] = "began"]
    /\ context' = [context EXCEPT ![g] = Standing(form[g].actor)]
    /\ UNCHANGED <<store, member, receipts, orders, holder, form, answer, change>>

ContextDenied(g) ==
    /\ phase[g] = "sent"
    /\ Standing(form[g].actor) = Nobody
    /\ phase' = [phase EXCEPT ![g] = "answered"]
    /\ answer' = [answer EXCEPT ![g] = "failed"]
    /\ UNCHANGED <<store, member, receipts, orders, holder, form, context, change>>

\* Mutant of LockGovernance: it waits for nobody (only the attempt is locked).
LockAttemptOnly(g) ==
    LET t == context[g].store
    IN /\ phase[g] = "began"
       /\ holder' = [holder EXCEPT ![t] = g]
       /\ phase' = [phase EXCEPT ![g] = "locked"]
       /\ UNCHANGED <<store, member, receipts, orders, form, context, answer, change>>

LockGovernance(g) ==
    LET t == context[g].store
    IN /\ phase[g] = "began"
       /\ holder[t] = Nobody
       /\ holder' = [holder EXCEPT ![t] = g]
       /\ phase' = [phase EXCEPT ![g] = "locked"]
       /\ UNCHANGED <<store, member, receipts, orders, form, context, answer, change>>

\* An invitation also holds the lock of the user it is for.
InviteUnderWay(target) ==
    \E h \in Requests : /\ phase[h] \in {"written", "recorded"}
                        /\ form[h].action = "MEMBER_INVITED"
                        /\ form[h].target = target

\* The reads and the change itself; nobody sees the change before the commit.
DecideGovernance(g) ==
    LET f == form[g]
        t == context[g].store
        a == Decision(f, t, context[g].role)
    IN /\ phase[g] = "locked"
       /\ f.action = "MEMBER_INVITED" => ~InviteUnderWay(f.target)
       /\ answer' = [answer EXCEPT ![g] = a]
       /\ change' = [change EXCEPT ![g] =
                        IF a = "ok" /\ Receipt(f, t) = {} THEN Changed(f, t) ELSE Nobody]
       /\ phase' = [phase EXCEPT ![g] = "written"]
       /\ UNCHANGED <<store, member, receipts, orders, holder, form, context>>

\* The audit row, which row-level security lets in for one who is still an admin of
\* a working store, or when it is a refusal without a target; a repeated form and an
\* attempt used for something else write none.
AuditWritten(g) ==
    Receipt(form[g], context[g].store) = {} /\ answer[g] # "ATTEMPT_CONFLICT"

RecordGovernance(g) ==
    /\ phase[g] = "written"
    /\ ~AuditWritten(g) \/ answer[g] \in Unresolved
          \/ Authorized(form[g].actor, context[g].store)
    /\ phase' = [phase EXCEPT ![g] = "recorded"]
    /\ UNCHANGED <<store, member, receipts, orders, holder, form, context, answer, change>>

\* Mutant of AbortGovernance: the lock is one of the connection, which goes back to the
\* pool with it.
AbortKeepingLock(g) ==
    /\ phase[g] \in {"began", "locked", "written"}
    /\ phase' = [phase EXCEPT ![g] = "answered"]
    /\ answer' = [answer EXCEPT ![g] = "failed"]
    /\ change' = [change EXCEPT ![g] = Nobody]
    /\ UNCHANGED <<store, member, receipts, orders, holder, form, context>>

\* The transaction is rolled back: the policy refused the row, or the database failed.
AbortGovernance(g) ==
    /\ phase[g] \in {"began", "locked", "written"}
    /\ phase' = [phase EXCEPT ![g] = "answered"]
    /\ answer' = [answer EXCEPT ![g] = "failed"]
    /\ change' = [change EXCEPT ![g] = Nobody]
    /\ holder' = [t \in Stores |-> IF holder[t] = g THEN Nobody ELSE holder[t]]
    /\ UNCHANGED <<store, member, receipts, orders, form, context>>

CommitGovernance(g) ==
    LET f == form[g]
        t == context[g].store
    IN /\ phase[g] = "recorded"
       /\ member' = IF change[g] = Nobody THEN member
                    ELSE [member EXCEPT ![f.target] = change[g]]
       /\ receipts' = IF AuditWritten(g) THEN receipts \cup {NewReceipt(f, t, answer[g])}
                      ELSE receipts
       /\ change' = [change EXCEPT ![g] = Nobody]
       /\ holder' = [holder EXCEPT ![t] = Nobody]
       /\ phase' = [phase EXCEPT ![g] = "answered"]
       /\ UNCHANGED <<store, orders, form, context, answer>>

\* The browser shows the answer; the next form is another request.
ShowAnswer(g) ==
    /\ phase[g] = "answered"
    /\ phase' = [phase EXCEPT ![g] = "idle"]
    /\ form' = [form EXCEPT ![g] = Nobody]
    /\ context' = [context EXCEPT ![g] = Nobody]
    /\ answer' = [answer EXCEPT ![g] = Nobody]
    /\ UNCHANGED <<store, member, receipts, orders, holder, change>>

-----------------------------------------------------------------------------
(* A Super Admin *)

Before(action) ==
    CASE action = "create"     -> {"NONE"}
      [] action = "archive"    -> {"ACTIVE", "SUSPENDED"}
      [] action = "reactivate" -> {"SUSPENDED"}
      [] action = "suspend"    -> {"ACTIVE"}

After(action) ==
    CASE action = "create"     -> "ACTIVE"
      [] action = "archive"    -> "ARCHIVED"
      [] action = "reactivate" -> "ACTIVE"
      [] action = "suspend"    -> "SUSPENDED"

\* Mutant of OrderSeen: only the same form counts, and only if it was refused.
OrderSeenRefused(o) == \E r \in orders : r.order = o /\ r.answer = "denied"

\* A receipt with another fingerprint makes the attempt a conflict; either way nothing
\* is done again.
OrderSeen(o) == \E r \in orders : r.order.action = o.action /\ r.order.attempt = o.attempt

\* The attempt and then the store's row are locked to the end of the transaction.
ExecuteLifecycle(o) ==
    /\ ~OrderSeen(o)
    /\ IF store[o.store] \in Before(o.action) /\ o.named
       THEN /\ store' = [store EXCEPT ![o.store] = After(o.action)]
            /\ orders' = orders \cup {[order |-> o, answer |-> "ok"]}
       ELSE /\ orders' = orders \cup {[order |-> o, answer |-> "denied"]}
            /\ UNCHANGED store
    /\ UNCHANGED <<member, receipts, holder, request>>

-----------------------------------------------------------------------------
AccessNext ==
    \/ \E g \in Requests :
          \/ \E f \in Forms : SendForm(g, f)
          \/ BeginGovernance(g) \/ ContextDenied(g) \/ LockGovernance(g)
          \/ DecideGovernance(g) \/ RecordGovernance(g) \/ AbortGovernance(g)
          \/ CommitGovernance(g) \/ ShowAnswer(g)
    \/ \E o \in Orders : ExecuteLifecycle(o)

AccessSpec == AccessInit /\ [][AccessNext]_accessVars

-----------------------------------------------------------------------------
(* Properties *)

\* A store that has an active admin is never left without one, whoever changes whom
\* at the same time (LAST_ACTIVE_ADMIN, SELF_CHANGE_NOT_ALLOWED and the lock).
AdminsNeverRunOut ==
    [][\A t \in Stores : Admins(t) # {} => Admins(t)' # {}]_accessVars

\* A change takes effect only while the one who asked for it is an admin of that
\* store, although the transaction read that long before it got the lock.
OnlyAdminsGovern ==
    [][member' # member =>
          \E g \in Requests : /\ phase[g] = "recorded" /\ phase'[g] = "answered"
                              /\ form[g].actor \in Admins(context[g].store)]_accessVars

\* A form sent again is answered as it was the first time, whatever has happened to the
\* member since, or is told that the attempt conflicts; it is never judged anew.
RetryAnswersAsFirst ==
    \A g \in Requests :
        phase[g] = "answered" /\ answer[g] # "failed" /\ context[g] # Nobody =>
            \E r \in Receipt(form[g], context[g].store) :
                answer[g] \in {r.answer, "ATTEMPT_CONFLICT"}

\* A store changes only with a new lifecycle receipt that says so: a repeated order,
\* after the store went on, changes nothing; and what is archived stays archived.
StoreMovesWithReceipt ==
    [][\A t \in Stores : store'[t] # store[t] =>
          /\ store[t] # "ARCHIVED"
          /\ \E r \in orders' \ orders :
                r.answer = "ok" /\ r.order.store = t /\ store'[t] = After(r.order.action)]_accessVars

\* Who may change what in a store, and that it is changed once: the rules of governance
\* and of the lifecycle together.
StoreRules == AdminsNeverRunOut /\ OnlyAdminsGovern /\ StoreMovesWithReceipt

-----------------------------------------------------------------------------
(* What makes these invariants inductive *)

\* Between its decision and its commit a request has the governance lock of its store.
Pending(g) == phase[g] \in {"written", "recorded"}

\* One user is invited by one request at a time, whichever the stores.
OneInvitation ==
    \A g, h \in Requests :
        /\ Pending(g) /\ form[g].action = "MEMBER_INVITED"
        /\ Pending(h) /\ form[h].action = "MEMBER_INVITED"
        /\ form[g].target = form[h].target
        => g = h

\* What a change was decided on still holds: an invited user is not at work in any store, a
\* changed one is a member of this store, and not its only admin.
ChangeFits ==
    \A g \in Requests : Pending(g) /\ change[g] # Nobody =>
        LET f == form[g]
            t == context[g].store
            m == member[f.target]
        IN /\ answer[g] = "ok" /\ Receipt(f, t) = {} /\ change[g].store = t
           /\ IF f.action = "MEMBER_INVITED"
              THEN m # Nobody => m.store = t /\ m.status = "SUSPENDED"
              ELSE /\ m # Nobody /\ m.store = t
                   /\ m.role = "TENANT_ADMIN" => ~AtMostOneAdmin(t)

\* A pending answer is the one of the receipt, if there is one, and no conflict without one.
AnswerKept ==
    \A g \in Requests : Pending(g) =>
        LET same == Receipt(form[g], context[g].store)
        IN /\ same = {} => answer[g] # "ATTEMPT_CONFLICT"
           /\ same # {} => \E r \in same : answer[g] \in {r.answer, "ATTEMPT_CONFLICT"}

\* The database let the audit row of a change in for an admin, who is one until the commit.
RecordedByAdmin ==
    \A g \in Requests : phase[g] = "recorded" /\ change[g] # Nobody =>
        form[g].actor \in Admins(context[g].store)

AccessInv ==
    RetryAnswersAsFirst /\ OneInvitation /\ ChangeFits /\ AnswerKept /\ RecordedByAdmin
=============================================================================
