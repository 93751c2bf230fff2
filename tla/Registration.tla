---------------------------- MODULE Registration ----------------------------
(***************************************************************************)
(* How a store registers itself, and how the address it registers with is  *)
(* proved.  Anybody can fill in the form with anybody's address, so the    *)
(* password of a new account may have been chosen by somebody who does not *)
(* read the inbox of its address.  Two ways verify an address: the link of *)
(* the sign-up mail together with that password, and a new password set    *)
(* through a recovery link.  A Super Admin approves the store of a         *)
(* verified owner or rejects it, which gives an address that was never     *)
(* proved back to whoever registers it next.                               *)
(*                                                                         *)
(* Links reach the reader of the inbox or nobody.  An account stands for   *)
(* the user, its credential, its store and its membership, which are       *)
(* written together.                                                       *)
(***************************************************************************)
EXTENDS Naturals

CONSTANTS
    Accounts,
    Addresses,
    Confirmations, \* requests of the verification page
    Recoveries,    \* requests that set a new password
    MaxPasswords,  \* passwords ever set for an account (a bound for TLC)
    Released,      \* the address that belongs to nobody
    NoAccount

ASSUME RegistrationAssumption ==
    /\ Released \notin Addresses
    /\ NoAccount \notin Accounts \cup Addresses \cup {Released}
    /\ MaxPasswords \in Nat \ {0}

VARIABLES
    address,   \* users.email, NoAccount before the account exists
    suspended, \* accounts whose users.status is SUSPENDED
    verified,  \* accounts whose users.email_verified is set
    password,  \* accounts.password: how many were set before it
    stranger,  \* accounts whose password was not chosen by the reader of the inbox
    tenant,     \* tenants.status
    confirm,   \* addresses whose reader has a live sign-up link
    recovery,  \* accounts for which the reader has a live recovery link
    checked,   \* each confirmation: the account and password that matched
    replaced   \* each recovery: the account whose password it has replaced

registrationVars == <<address, suspended, verified, password, stranger, tenant, confirm, recovery,
          checked, replaced>>

RegistrationTypeOK ==
    /\ address \in [Accounts -> Addresses \cup {Released, NoAccount}]
    /\ suspended \subseteq Accounts
    /\ verified \subseteq Accounts
    /\ password \in [Accounts -> 0 .. MaxPasswords]
    /\ stranger \subseteq Accounts
    /\ tenant \in [Accounts -> {"NONE", "PROVISIONING", "ACTIVE", "ARCHIVED"}]
    /\ confirm \subseteq Addresses
    /\ recovery \subseteq Accounts
    /\ checked \in [Confirmations -> (Accounts \X (0 .. MaxPasswords)) \cup {NoAccount}]
    /\ replaced \in [Recoveries -> Accounts \cup {NoAccount}]
    /\ \A x, y \in Accounts : address[x] \in Addresses /\ address[x] = address[y] => x = y

RegistrationInit ==
    /\ address = [x \in Accounts |-> NoAccount]
    /\ suspended = {}
    /\ verified = {}
    /\ password = [x \in Accounts |-> 0]
    /\ stranger = {}
    /\ tenant = [x \in Accounts |-> "NONE"]
    /\ confirm = {}
    /\ recovery = {}
    /\ checked = [c \in Confirmations |-> NoAccount]
    /\ replaced = [r \in Recoveries |-> NoAccount]

-----------------------------------------------------------------------------
(* Sign-up *)

\* resolveCmsPrincipal finds a tenant scope for the account.
TenantScope(x) == x \notin suspended /\ tenant[x] \in {"PROVISIONING", "ACTIVE"}

\* The sign-up mail, which may not be delivered.
MailConfirmation(a) == confirm' \in {confirm, confirm \cup {a}}

\* Mutant of Taken: an address belongs to nobody until it is proved.
TakenOnceVerified(a) == \E y \in verified : address[y] = a

Taken(a) == \E y \in Accounts : address[y] = a

RegisterStore(x, a, byStranger) ==
    /\ address[x] = NoAccount
    /\ ~Taken(a)
    /\ address' = [address EXCEPT ![x] = a]
    /\ password' = [password EXCEPT ![x] = 1]
    /\ stranger' = IF byStranger THEN stranger \cup {x} ELSE stranger
    /\ tenant' = [tenant EXCEPT ![x] = "PROVISIONING"]
    /\ MailConfirmation(a)
    /\ UNCHANGED <<suspended, verified, recovery, checked, replaced>>

\* A second sign-up with the address, a resent verification and a forgotten password
\* all mail a recovery link, never a sign-up link.
SendPasswordLink(x) ==
    /\ address[x] \in Addresses
    /\ TenantScope(x)
    /\ recovery' = recovery \cup {x}
    /\ UNCHANGED <<address, suspended, verified, password, stranger, tenant, confirm,
                   checked, replaced>>

ConfirmationLinkExpires(a) ==
    /\ a \in confirm
    /\ confirm' = confirm \ {a}
    /\ UNCHANGED <<address, suspended, verified, password, stranger, tenant, recovery,
                   checked, replaced>>

RecoveryLinkExpires(x) ==
    /\ x \in recovery
    /\ recovery' = recovery \ {x}
    /\ UNCHANGED <<address, suspended, verified, password, stranger, tenant, confirm,
                   checked, replaced>>

-----------------------------------------------------------------------------
(* Proving the address *)

\* Mutant of PasswordMatches: the link alone verifies.
LinkSuffices(x) == TRUE

\* The reader of the inbox types the password only if it is the reader's own.
PasswordMatches(x) == x \notin stranger

CheckPassword(c, x) ==
    /\ checked[c] = NoAccount
    /\ address[x] \in confirm
    /\ x \notin suspended
    /\ PasswordMatches(x)
    /\ checked' = [checked EXCEPT ![c] = <<x, password[x]>>]
    /\ UNCHANGED <<address, suspended, verified, password, stranger, tenant, confirm,
                   recovery, replaced>>

\* The update holds only while the password is still the one just checked; it looks at
\* nothing else of the account, which may have been released meanwhile.
VerifyEmail(c) ==
    /\ checked[c] # NoAccount
    /\ LET x == checked[c][1]
       IN verified' = IF password[x] = checked[c][2] THEN verified \cup {x} ELSE verified
    /\ checked' = [checked EXCEPT ![c] = NoAccount]
    /\ UNCHANGED <<address, suspended, password, stranger, tenant, confirm, recovery, replaced>>

ConfirmationCrashes(c) ==
    /\ checked[c] # NoAccount
    /\ checked' = [checked EXCEPT ![c] = NoAccount]
    /\ UNCHANGED <<address, suspended, verified, password, stranger, tenant, confirm,
                   recovery, replaced>>

ResetPassword(r, x) ==
    /\ replaced[r] = NoAccount
    /\ x \in recovery
    /\ password[x] < MaxPasswords
    /\ recovery' = recovery \ {x}
    /\ password' = [password EXCEPT ![x] = @ + 1]
    /\ stranger' = stranger \ {x}
    /\ replaced' = [replaced EXCEPT ![r] = x]
    /\ UNCHANGED <<address, suspended, verified, tenant, confirm, checked>>

OnPasswordReset(r) ==
    /\ replaced[r] # NoAccount
    /\ verified' = verified \cup {replaced[r]}
    /\ replaced' = [replaced EXCEPT ![r] = NoAccount]
    /\ UNCHANGED <<address, suspended, password, stranger, tenant, confirm, recovery, checked>>

RecoveryCrashes(r) ==
    /\ replaced[r] # NoAccount
    /\ replaced' = [replaced EXCEPT ![r] = NoAccount]
    /\ UNCHANGED <<address, suspended, verified, password, stranger, tenant, confirm,
                   recovery, checked>>

-----------------------------------------------------------------------------
(* Review *)

\* Mutant of Approvable: approval does not ask for the proof.
ApprovableAny(x) == tenant[x] = "PROVISIONING"

Approvable(x) == tenant[x] = "PROVISIONING" /\ x \in verified

ApproveRegistration(x) ==
    /\ Approvable(x)
    /\ tenant' = [tenant EXCEPT ![x] = "ACTIVE"]
    /\ UNCHANGED <<address, suspended, verified, password, stranger, confirm, recovery,
                   checked, replaced>>

\* Mutant of ReleaseAddress: the account is closed and keeps its address.
CloseAccount(x) ==
    /\ suspended' = IF x \in verified THEN suspended ELSE suspended \cup {x}
    /\ UNCHANGED address

\* The owner's row is locked, so a verification lands before this or after it.
ReleaseAddress(x) ==
    IF x \in verified THEN UNCHANGED <<address, suspended>>
    ELSE /\ address' = [address EXCEPT ![x] = Released]
         /\ suspended' = suspended \cup {x}

RejectRegistration(x) ==
    /\ tenant[x] = "PROVISIONING"
    /\ tenant' = [tenant EXCEPT ![x] = "ARCHIVED"]
    /\ ReleaseAddress(x)
    /\ UNCHANGED <<verified, password, stranger, confirm, recovery, checked, replaced>>

-----------------------------------------------------------------------------
RegistrationNext ==
    \/ \E x \in Accounts :
          \/ \E a \in Addresses, byStranger \in BOOLEAN : RegisterStore(x, a, byStranger)
          \/ SendPasswordLink(x) \/ RecoveryLinkExpires(x)
          \/ ApproveRegistration(x) \/ RejectRegistration(x)
    \/ \E a \in Addresses : ConfirmationLinkExpires(a)
    \/ \E c \in Confirmations :
          \/ \E x \in Accounts : CheckPassword(c, x)
          \/ VerifyEmail(c) \/ ConfirmationCrashes(c)
    \/ \E r \in Recoveries :
          \/ \E x \in Accounts : ResetPassword(r, x)
          \/ OnPasswordReset(r) \/ RecoveryCrashes(r)

RegistrationSpec == RegistrationInit /\ [][RegistrationNext]_registrationVars

-----------------------------------------------------------------------------
(* Properties *)

\* A verified account has a password that the reader of its inbox chose, so the one who
\* can sign in with an address is the one who reads it (H1, T-198).
VerifiedByItsReader == verified \cap stranger = {}

\* A store that works has an owner whose address is proved (D-10, PR-61).
ApprovedOwnerIsVerified == \A x \in Accounts : tenant[x] = "ACTIVE" => x \in verified

\* No address is lost for good: the account that holds one can still be verified or
\* recovered by its reader, or was proved before the store was rejected (T-198).
NoAddressIsLost ==
    \A x \in Accounts :
        address[x] \in Addresses => TenantScope(x) \/ x \in verified

\* What the mail links promise, whichever order they are used in: an address belongs to its
\* reader, a store to somebody with an address, and no address is out of reach.
AddressesAreProved == VerifiedByItsReader /\ ApprovedOwnerIsVerified /\ NoAddressIsLost

-----------------------------------------------------------------------------
(* What makes these invariants inductive *)

\* An account that is not registered yet has left no trace.
UnregisteredIsBlank ==
    \A x \in Accounts : address[x] = NoAccount =>
        x \notin suspended \cup verified \cup stranger \cup recovery /\ tenant[x] = "NONE"

\* A request that has checked a password, or has replaced one, knows that it is the
\* reader's; nothing makes it a stranger's again.
CheckedIsOwn ==
    \A c \in Confirmations : checked[c] # NoAccount =>
        LET x == checked[c][1] IN address[x] # NoAccount /\ x \notin stranger
ReplacedIsOwn ==
    \A r \in Recoveries : replaced[r] # NoAccount =>
        address[replaced[r]] # NoAccount /\ replaced[r] \notin stranger

RegistrationInv == AddressesAreProved /\ UnregisteredIsBlank /\ CheckedIsOwn /\ ReplacedIsOwn
=============================================================================
