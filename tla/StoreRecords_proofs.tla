------------------------ MODULE StoreRecords_proofs -------------------------
(***************************************************************************)
(* What the records of a store rest on: the proof of an address at its     *)
(* registration, the numbers of its shipments, who runs it, and how often  *)
(* somebody may make it work. Four components that share no variable; each *)
(* has its type invariant, the invariant that makes the promise inductive, *)
(* and the promise itself.                                                 *)
(***************************************************************************)
EXTENDS Registration, ShipmentNumbers, StoreAccess, RateLimits, FiniteSetTheorems, TLAPS

-----------------------------------------------------------------------------
(* Registration and the proof of an address (Registration) *)

\* Nobody is registered in the beginning, and no link is out.
LEMMA RegistrationInitType == RegistrationInit => RegistrationTypeOK
BY RegistrationAssumption DEF RegistrationInit, RegistrationTypeOK

\* Every step leaves the tables typed.
LEMMA RegistrationNextType ==
    RegistrationTypeOK /\ [RegistrationNext]_registrationVars => RegistrationTypeOK'
<1> SUFFICES ASSUME RegistrationTypeOK, [RegistrationNext]_registrationVars
             PROVE  RegistrationTypeOK'
  OBVIOUS
<1>1. ASSUME NEW x \in Accounts, NEW a \in Addresses, NEW byStranger \in BOOLEAN,
             RegisterStore(x, a, byStranger)
      PROVE  RegistrationTypeOK'
  BY <1>1, RegistrationAssumption DEF RegistrationTypeOK, RegisterStore, MailConfirmation, Taken
<1>2. ASSUME NEW x \in Accounts, SendPasswordLink(x)
      PROVE  RegistrationTypeOK'
  BY <1>2, RegistrationAssumption DEF RegistrationTypeOK, SendPasswordLink
<1>3. ASSUME NEW x \in Accounts, RecoveryLinkExpires(x)
      PROVE  RegistrationTypeOK'
  BY <1>3, RegistrationAssumption DEF RegistrationTypeOK, RecoveryLinkExpires
<1>4. ASSUME NEW x \in Accounts, ApproveRegistration(x)
      PROVE  RegistrationTypeOK'
  BY <1>4, RegistrationAssumption DEF RegistrationTypeOK, ApproveRegistration, Approvable
<1>5. ASSUME NEW x \in Accounts, RejectRegistration(x)
      PROVE  RegistrationTypeOK'
  BY <1>5, RegistrationAssumption DEF RegistrationTypeOK, RejectRegistration, ReleaseAddress
<1>6. ASSUME NEW a \in Addresses, ConfirmationLinkExpires(a)
      PROVE  RegistrationTypeOK'
  BY <1>6, RegistrationAssumption DEF RegistrationTypeOK, ConfirmationLinkExpires
<1>7. ASSUME NEW c \in Confirmations, NEW x \in Accounts, CheckPassword(c, x)
      PROVE  RegistrationTypeOK'
  BY <1>7, RegistrationAssumption DEF RegistrationTypeOK, CheckPassword, PasswordMatches
<1>8. ASSUME NEW c \in Confirmations, VerifyEmail(c)
      PROVE  RegistrationTypeOK'
  BY <1>8, RegistrationAssumption DEF RegistrationTypeOK, VerifyEmail
<1>9. ASSUME NEW c \in Confirmations, ConfirmationCrashes(c)
      PROVE  RegistrationTypeOK'
  BY <1>9, RegistrationAssumption DEF RegistrationTypeOK, ConfirmationCrashes
<1>10. ASSUME NEW r \in Recoveries, NEW x \in Accounts, ResetPassword(r, x)
      PROVE  RegistrationTypeOK'
  BY <1>10, RegistrationAssumption DEF RegistrationTypeOK, ResetPassword
<1>11. ASSUME NEW r \in Recoveries, OnPasswordReset(r)
      PROVE  RegistrationTypeOK'
  BY <1>11, RegistrationAssumption DEF RegistrationTypeOK, OnPasswordReset
<1>12. ASSUME NEW r \in Recoveries, RecoveryCrashes(r)
      PROVE  RegistrationTypeOK'
  BY <1>12, RegistrationAssumption DEF RegistrationTypeOK, RecoveryCrashes
<1>13. CASE UNCHANGED registrationVars
  BY <1>13 DEF registrationVars, RegistrationTypeOK
<1> QED BY <1>1, <1>2, <1>3, <1>4, <1>5, <1>6, <1>7, <1>8, <1>9, <1>10, <1>11, <1>12, <1>13
    DEF RegistrationNext

\* An account that is not there has no trace yet.
LEMMA RegistrationInitInv == RegistrationInit => RegistrationInv
BY RegistrationAssumption DEF RegistrationInit, RegistrationInv, AddressesAreProved,
   VerifiedByItsReader, ApprovedOwnerIsVerified, NoAddressIsLost, UnregisteredIsBlank,
   CheckedIsOwn, ReplacedIsOwn

\* Who has checked a password, and whose password was replaced, is an account.
LEMMA RequestsNameAccounts ==
    ASSUME RegistrationTypeOK
    PROVE  /\ \A c \in Confirmations : checked[c] # NoAccount => checked[c][1] \in Accounts
           /\ \A r \in Recoveries : replaced[r] # NoAccount => replaced[r] \in Accounts
BY DEF RegistrationTypeOK

\* Every step keeps the invariant: one step of the proof for each action, and under it the proof of
\* an address apart from what links, checks and replacements know of their account.
LEMMA RegistrationNextInv ==
    RegistrationTypeOK /\ RegistrationInv /\ [RegistrationNext]_registrationVars
      => RegistrationInv'
<1> SUFFICES ASSUME RegistrationTypeOK, RegistrationInv, [RegistrationNext]_registrationVars
             PROVE  RegistrationInv'
  OBVIOUS
<1>0. /\ VerifiedByItsReader /\ ApprovedOwnerIsVerified /\ NoAddressIsLost
      /\ UnregisteredIsBlank /\ CheckedIsOwn /\ ReplacedIsOwn
  BY DEF RegistrationInv, AddressesAreProved
<1> USE RequestsNameAccounts
<1>1. ASSUME NEW x \in Accounts, NEW a \in Addresses, NEW byStranger \in BOOLEAN,
             RegisterStore(x, a, byStranger)
      PROVE  RegistrationInv'
  <2>1. VerifiedByItsReader'
    BY <1>0, <1>1, RegistrationAssumption
       DEF RegistrationTypeOK, VerifiedByItsReader, UnregisteredIsBlank, CheckedIsOwn,
           ReplacedIsOwn, RegisterStore, MailConfirmation, Taken
  <2>2. ApprovedOwnerIsVerified' /\ NoAddressIsLost'
    BY <1>0, <1>1, RegistrationAssumption
       DEF RegistrationTypeOK, ApprovedOwnerIsVerified, NoAddressIsLost, UnregisteredIsBlank,
           TenantScope, RegisterStore, MailConfirmation, Taken
  <2>3. UnregisteredIsBlank'
    BY <1>0, <1>1, RegistrationAssumption
       DEF RegistrationTypeOK, UnregisteredIsBlank, CheckedIsOwn, ReplacedIsOwn, RegisterStore,
           MailConfirmation, Taken
  <2>4. CheckedIsOwn'
    BY <1>0, <1>1, RegistrationAssumption
       DEF RegistrationTypeOK, CheckedIsOwn, RegisterStore, MailConfirmation, Taken
  <2>5. ReplacedIsOwn'
    BY <1>0, <1>1, RegistrationAssumption
       DEF RegistrationTypeOK, ReplacedIsOwn, UnregisteredIsBlank, RegisterStore,
           MailConfirmation, Taken
  <2> QED BY <2>1, <2>2, <2>3, <2>4, <2>5 DEF RegistrationInv, AddressesAreProved
<1>2. ASSUME NEW x \in Accounts, SendPasswordLink(x)
      PROVE  RegistrationInv'
  <2>1. VerifiedByItsReader'
    BY <1>0, <1>2, RegistrationAssumption
       DEF RegistrationTypeOK, VerifiedByItsReader, UnregisteredIsBlank, CheckedIsOwn,
           ReplacedIsOwn, SendPasswordLink
  <2>2. ApprovedOwnerIsVerified' /\ NoAddressIsLost'
    BY <1>0, <1>2, RegistrationAssumption
       DEF RegistrationTypeOK, ApprovedOwnerIsVerified, NoAddressIsLost, UnregisteredIsBlank,
           TenantScope, SendPasswordLink
  <2>3. UnregisteredIsBlank'
    BY <1>0, <1>2, RegistrationAssumption
       DEF RegistrationTypeOK, UnregisteredIsBlank, CheckedIsOwn, ReplacedIsOwn, SendPasswordLink
  <2>4. CheckedIsOwn'
    BY <1>0, <1>2, RegistrationAssumption
       DEF RegistrationTypeOK, CheckedIsOwn, SendPasswordLink
  <2>5. ReplacedIsOwn'
    BY <1>0, <1>2, RegistrationAssumption
       DEF RegistrationTypeOK, ReplacedIsOwn, UnregisteredIsBlank, SendPasswordLink
  <2> QED BY <2>1, <2>2, <2>3, <2>4, <2>5 DEF RegistrationInv, AddressesAreProved
<1>3. ASSUME NEW x \in Accounts, RecoveryLinkExpires(x)
      PROVE  RegistrationInv'
  <2>1. VerifiedByItsReader'
    BY <1>0, <1>3, RegistrationAssumption
       DEF RegistrationTypeOK, VerifiedByItsReader, UnregisteredIsBlank, CheckedIsOwn,
           ReplacedIsOwn, RecoveryLinkExpires
  <2>2. ApprovedOwnerIsVerified' /\ NoAddressIsLost'
    BY <1>0, <1>3, RegistrationAssumption
       DEF RegistrationTypeOK, ApprovedOwnerIsVerified, NoAddressIsLost, UnregisteredIsBlank,
           TenantScope, RecoveryLinkExpires
  <2>3. UnregisteredIsBlank'
    BY <1>0, <1>3, RegistrationAssumption
       DEF RegistrationTypeOK, UnregisteredIsBlank, CheckedIsOwn, ReplacedIsOwn,
           RecoveryLinkExpires
  <2>4. CheckedIsOwn'
    BY <1>0, <1>3, RegistrationAssumption
       DEF RegistrationTypeOK, CheckedIsOwn, RecoveryLinkExpires
  <2>5. ReplacedIsOwn'
    BY <1>0, <1>3, RegistrationAssumption
       DEF RegistrationTypeOK, ReplacedIsOwn, UnregisteredIsBlank, RecoveryLinkExpires
  <2> QED BY <2>1, <2>2, <2>3, <2>4, <2>5 DEF RegistrationInv, AddressesAreProved
<1>4. ASSUME NEW x \in Accounts, ApproveRegistration(x)
      PROVE  RegistrationInv'
  <2>1. VerifiedByItsReader'
    BY <1>0, <1>4, RegistrationAssumption
       DEF RegistrationTypeOK, VerifiedByItsReader, UnregisteredIsBlank, CheckedIsOwn,
           ReplacedIsOwn, ApproveRegistration, Approvable
  <2>2. ApprovedOwnerIsVerified' /\ NoAddressIsLost'
    BY <1>0, <1>4, RegistrationAssumption
       DEF RegistrationTypeOK, ApprovedOwnerIsVerified, NoAddressIsLost, UnregisteredIsBlank,
           TenantScope, ApproveRegistration, Approvable
  <2>3. UnregisteredIsBlank'
    BY <1>0, <1>4, RegistrationAssumption
       DEF RegistrationTypeOK, UnregisteredIsBlank, CheckedIsOwn, ReplacedIsOwn,
           ApproveRegistration, Approvable
  <2>4. CheckedIsOwn'
    BY <1>0, <1>4, RegistrationAssumption
       DEF RegistrationTypeOK, CheckedIsOwn, ApproveRegistration, Approvable
  <2>5. ReplacedIsOwn'
    BY <1>0, <1>4, RegistrationAssumption
       DEF RegistrationTypeOK, ReplacedIsOwn, UnregisteredIsBlank, ApproveRegistration, Approvable
  <2> QED BY <2>1, <2>2, <2>3, <2>4, <2>5 DEF RegistrationInv, AddressesAreProved
<1>5. ASSUME NEW x \in Accounts, RejectRegistration(x)
      PROVE  RegistrationInv'
  <2>1. VerifiedByItsReader'
    BY <1>0, <1>5, RegistrationAssumption
       DEF RegistrationTypeOK, VerifiedByItsReader, UnregisteredIsBlank, CheckedIsOwn,
           ReplacedIsOwn, RejectRegistration, ReleaseAddress
  <2>2. ApprovedOwnerIsVerified' /\ NoAddressIsLost'
    BY <1>0, <1>5, RegistrationAssumption
       DEF RegistrationTypeOK, ApprovedOwnerIsVerified, NoAddressIsLost, UnregisteredIsBlank,
           TenantScope, RejectRegistration, ReleaseAddress
  <2>3. UnregisteredIsBlank'
    BY <1>0, <1>5, RegistrationAssumption
       DEF RegistrationTypeOK, UnregisteredIsBlank, CheckedIsOwn, ReplacedIsOwn,
           RejectRegistration, ReleaseAddress
  <2>4. CheckedIsOwn'
    BY <1>0, <1>5, RegistrationAssumption
       DEF RegistrationTypeOK, CheckedIsOwn, RejectRegistration, ReleaseAddress
  <2>5. ReplacedIsOwn'
    BY <1>0, <1>5, RegistrationAssumption
       DEF RegistrationTypeOK, ReplacedIsOwn, UnregisteredIsBlank, RejectRegistration,
           ReleaseAddress
  <2> QED BY <2>1, <2>2, <2>3, <2>4, <2>5 DEF RegistrationInv, AddressesAreProved
<1>6. ASSUME NEW a \in Addresses, ConfirmationLinkExpires(a)
      PROVE  RegistrationInv'
  <2>1. VerifiedByItsReader'
    BY <1>0, <1>6, RegistrationAssumption
       DEF RegistrationTypeOK, VerifiedByItsReader, UnregisteredIsBlank, CheckedIsOwn,
           ReplacedIsOwn, ConfirmationLinkExpires
  <2>2. ApprovedOwnerIsVerified' /\ NoAddressIsLost'
    BY <1>0, <1>6, RegistrationAssumption
       DEF RegistrationTypeOK, ApprovedOwnerIsVerified, NoAddressIsLost, UnregisteredIsBlank,
           TenantScope, ConfirmationLinkExpires
  <2>3. UnregisteredIsBlank'
    BY <1>0, <1>6, RegistrationAssumption
       DEF RegistrationTypeOK, UnregisteredIsBlank, CheckedIsOwn, ReplacedIsOwn,
           ConfirmationLinkExpires
  <2>4. CheckedIsOwn'
    BY <1>0, <1>6, RegistrationAssumption
       DEF RegistrationTypeOK, CheckedIsOwn, ConfirmationLinkExpires
  <2>5. ReplacedIsOwn'
    BY <1>0, <1>6, RegistrationAssumption
       DEF RegistrationTypeOK, ReplacedIsOwn, UnregisteredIsBlank, ConfirmationLinkExpires
  <2> QED BY <2>1, <2>2, <2>3, <2>4, <2>5 DEF RegistrationInv, AddressesAreProved
<1>7. ASSUME NEW c \in Confirmations, NEW x \in Accounts, CheckPassword(c, x)
      PROVE  RegistrationInv'
  <2>1. VerifiedByItsReader'
    BY <1>0, <1>7, RegistrationAssumption
       DEF RegistrationTypeOK, VerifiedByItsReader, UnregisteredIsBlank, CheckedIsOwn,
           ReplacedIsOwn, CheckPassword, PasswordMatches
  <2>2. ApprovedOwnerIsVerified' /\ NoAddressIsLost'
    BY <1>0, <1>7, RegistrationAssumption
       DEF RegistrationTypeOK, ApprovedOwnerIsVerified, NoAddressIsLost, UnregisteredIsBlank,
           TenantScope, CheckPassword, PasswordMatches
  <2>3. UnregisteredIsBlank'
    BY <1>0, <1>7, RegistrationAssumption
       DEF RegistrationTypeOK, UnregisteredIsBlank, CheckedIsOwn, ReplacedIsOwn, CheckPassword,
           PasswordMatches
  <2>4. CheckedIsOwn'
    BY <1>0, <1>7, RegistrationAssumption
       DEF RegistrationTypeOK, CheckedIsOwn, CheckPassword, PasswordMatches
  <2>5. ReplacedIsOwn'
    BY <1>0, <1>7, RegistrationAssumption
       DEF RegistrationTypeOK, ReplacedIsOwn, UnregisteredIsBlank, CheckPassword, PasswordMatches
  <2> QED BY <2>1, <2>2, <2>3, <2>4, <2>5 DEF RegistrationInv, AddressesAreProved
<1>8. ASSUME NEW c \in Confirmations, VerifyEmail(c)
      PROVE  RegistrationInv'
  <2>1. VerifiedByItsReader'
    BY <1>0, <1>8, RegistrationAssumption
       DEF RegistrationTypeOK, VerifiedByItsReader, UnregisteredIsBlank, CheckedIsOwn,
           ReplacedIsOwn, VerifyEmail
  <2>2. ApprovedOwnerIsVerified' /\ NoAddressIsLost'
    BY <1>0, <1>8, RegistrationAssumption
       DEF RegistrationTypeOK, ApprovedOwnerIsVerified, NoAddressIsLost, UnregisteredIsBlank,
           TenantScope, VerifyEmail
  <2>3. UnregisteredIsBlank'
    BY <1>0, <1>8, RegistrationAssumption
       DEF RegistrationTypeOK, UnregisteredIsBlank, CheckedIsOwn, ReplacedIsOwn, VerifyEmail
  <2>4. CheckedIsOwn'
    BY <1>0, <1>8, RegistrationAssumption
       DEF RegistrationTypeOK, CheckedIsOwn, VerifyEmail
  <2>5. ReplacedIsOwn'
    BY <1>0, <1>8, RegistrationAssumption
       DEF RegistrationTypeOK, ReplacedIsOwn, UnregisteredIsBlank, VerifyEmail
  <2> QED BY <2>1, <2>2, <2>3, <2>4, <2>5 DEF RegistrationInv, AddressesAreProved
<1>9. ASSUME NEW c \in Confirmations, ConfirmationCrashes(c)
      PROVE  RegistrationInv'
  <2>1. VerifiedByItsReader'
    BY <1>0, <1>9, RegistrationAssumption
       DEF RegistrationTypeOK, VerifiedByItsReader, UnregisteredIsBlank, CheckedIsOwn,
           ReplacedIsOwn, ConfirmationCrashes
  <2>2. ApprovedOwnerIsVerified' /\ NoAddressIsLost'
    BY <1>0, <1>9, RegistrationAssumption
       DEF RegistrationTypeOK, ApprovedOwnerIsVerified, NoAddressIsLost, UnregisteredIsBlank,
           TenantScope, ConfirmationCrashes
  <2>3. UnregisteredIsBlank'
    BY <1>0, <1>9, RegistrationAssumption
       DEF RegistrationTypeOK, UnregisteredIsBlank, CheckedIsOwn, ReplacedIsOwn,
           ConfirmationCrashes
  <2>4. CheckedIsOwn'
    BY <1>0, <1>9, RegistrationAssumption
       DEF RegistrationTypeOK, CheckedIsOwn, ConfirmationCrashes
  <2>5. ReplacedIsOwn'
    BY <1>0, <1>9, RegistrationAssumption
       DEF RegistrationTypeOK, ReplacedIsOwn, UnregisteredIsBlank, ConfirmationCrashes
  <2> QED BY <2>1, <2>2, <2>3, <2>4, <2>5 DEF RegistrationInv, AddressesAreProved
<1>10. ASSUME NEW r \in Recoveries, NEW x \in Accounts, ResetPassword(r, x)
      PROVE  RegistrationInv'
  <2>1. VerifiedByItsReader'
    BY <1>0, <1>10, RegistrationAssumption
       DEF RegistrationTypeOK, VerifiedByItsReader, UnregisteredIsBlank, CheckedIsOwn,
           ReplacedIsOwn, ResetPassword
  <2>2. ApprovedOwnerIsVerified' /\ NoAddressIsLost'
    BY <1>0, <1>10, RegistrationAssumption
       DEF RegistrationTypeOK, ApprovedOwnerIsVerified, NoAddressIsLost, UnregisteredIsBlank,
           TenantScope, ResetPassword
  <2>3. UnregisteredIsBlank'
    BY <1>0, <1>10, RegistrationAssumption
       DEF RegistrationTypeOK, UnregisteredIsBlank, CheckedIsOwn, ReplacedIsOwn, ResetPassword
  <2>4. CheckedIsOwn'
    BY <1>0, <1>10, RegistrationAssumption
       DEF RegistrationTypeOK, CheckedIsOwn, ResetPassword
  <2>5. ReplacedIsOwn'
    BY <1>0, <1>10, RegistrationAssumption
       DEF RegistrationTypeOK, ReplacedIsOwn, UnregisteredIsBlank, ResetPassword
  <2> QED BY <2>1, <2>2, <2>3, <2>4, <2>5 DEF RegistrationInv, AddressesAreProved
<1>11. ASSUME NEW r \in Recoveries, OnPasswordReset(r)
      PROVE  RegistrationInv'
  <2>1. VerifiedByItsReader'
    BY <1>0, <1>11, RegistrationAssumption
       DEF RegistrationTypeOK, VerifiedByItsReader, UnregisteredIsBlank, CheckedIsOwn,
           ReplacedIsOwn, OnPasswordReset
  <2>2. ApprovedOwnerIsVerified' /\ NoAddressIsLost'
    BY <1>0, <1>11, RegistrationAssumption
       DEF RegistrationTypeOK, ApprovedOwnerIsVerified, NoAddressIsLost, UnregisteredIsBlank,
           TenantScope, OnPasswordReset
  <2>3. UnregisteredIsBlank'
    BY <1>0, <1>11, RegistrationAssumption
       DEF RegistrationTypeOK, UnregisteredIsBlank, CheckedIsOwn, ReplacedIsOwn, OnPasswordReset
  <2>4. CheckedIsOwn'
    BY <1>0, <1>11, RegistrationAssumption
       DEF RegistrationTypeOK, CheckedIsOwn, OnPasswordReset
  <2>5. ReplacedIsOwn'
    BY <1>0, <1>11, RegistrationAssumption
       DEF RegistrationTypeOK, ReplacedIsOwn, UnregisteredIsBlank, OnPasswordReset
  <2> QED BY <2>1, <2>2, <2>3, <2>4, <2>5 DEF RegistrationInv, AddressesAreProved
<1>12. ASSUME NEW r \in Recoveries, RecoveryCrashes(r)
      PROVE  RegistrationInv'
  <2>1. VerifiedByItsReader'
    BY <1>0, <1>12, RegistrationAssumption
       DEF RegistrationTypeOK, VerifiedByItsReader, UnregisteredIsBlank, CheckedIsOwn,
           ReplacedIsOwn, RecoveryCrashes
  <2>2. ApprovedOwnerIsVerified' /\ NoAddressIsLost'
    BY <1>0, <1>12, RegistrationAssumption
       DEF RegistrationTypeOK, ApprovedOwnerIsVerified, NoAddressIsLost, UnregisteredIsBlank,
           TenantScope, RecoveryCrashes
  <2>3. UnregisteredIsBlank'
    BY <1>0, <1>12, RegistrationAssumption
       DEF RegistrationTypeOK, UnregisteredIsBlank, CheckedIsOwn, ReplacedIsOwn, RecoveryCrashes
  <2>4. CheckedIsOwn'
    BY <1>0, <1>12, RegistrationAssumption
       DEF RegistrationTypeOK, CheckedIsOwn, RecoveryCrashes
  <2>5. ReplacedIsOwn'
    BY <1>0, <1>12, RegistrationAssumption
       DEF RegistrationTypeOK, ReplacedIsOwn, UnregisteredIsBlank, RecoveryCrashes
  <2> QED BY <2>1, <2>2, <2>3, <2>4, <2>5 DEF RegistrationInv, AddressesAreProved
<1>13. CASE UNCHANGED registrationVars
  BY <1>0, <1>13 DEF registrationVars, RegistrationInv, AddressesAreProved, VerifiedByItsReader,
     ApprovedOwnerIsVerified, NoAddressIsLost, UnregisteredIsBlank, TenantScope, CheckedIsOwn,
     ReplacedIsOwn
<1> QED BY <1>1, <1>2, <1>3, <1>4, <1>5, <1>6, <1>7, <1>8, <1>9, <1>10, <1>11, <1>12, <1>13
    DEF RegistrationNext

\* An account stands for a user, a credential, a store and a membership that fit, and no two
\* hold one address (users.email, accounts.password, tenants.status).
THEOREM RegistrationTypeCorrect == RegistrationSpec => []RegistrationTypeOK
BY RegistrationInitType, RegistrationNextType, PTL DEF RegistrationSpec

\* The invariant on which the proof of an address rests: whoever has checked a password, or
\* replaced one, knows that it is the reader's, and an account that is not there has no trace.
THEOREM RegistrationSound == RegistrationSpec => [](RegistrationTypeOK /\ RegistrationInv)
<1>1. RegistrationInit => RegistrationTypeOK /\ RegistrationInv
  BY RegistrationInitType, RegistrationInitInv
<1>2. RegistrationTypeOK /\ RegistrationInv /\ [RegistrationNext]_registrationVars
        => (RegistrationTypeOK /\ RegistrationInv)'
  BY RegistrationNextType, RegistrationNextInv
<1> QED BY <1>1, <1>2, PTL DEF RegistrationSpec

\* A verified account has a password its reader chose, a store that works has a proved
\* owner, and no address is out of reach: for any number of accounts, addresses and links.
THEOREM AddressesAlwaysProved == RegistrationSpec => []AddressesAreProved
<1>1. RegistrationInv => AddressesAreProved
  BY DEF RegistrationInv
<1> QED BY <1>1, RegistrationSound, PTL
-----------------------------------------------------------------------------
(* The numbers of a store's shipments (ShipmentNumbers) *)

\* The row that counts is a counter, also while it is not there.
LEMMA CounterRowType == ASSUME NumberTypeOK PROVE CounterRow \in Counters
BY NumberAssumption DEF NumberTypeOK, CounterRow, Fresh, Counters, FirstNumber

\* The next row is a counter one further on, and the prefix stays.
LEMMA AllocatedIsNext ==
    ASSUME NEW row \in Counters
    PROVE  /\ Allocated(row) \in Counters
           /\ Allocated(row).last = IF row.last = 0 THEN FirstNumber ELSE row.last + 1
           /\ Allocated(row).prefix = row.prefix
           /\ Allocated(row).locked = (row.locked \/ row.last = 0)
<1>1. /\ row.last \in {0} \cup {n \in Int : n >= FirstNumber}
      /\ row.prefix \in StorePrefixes /\ row.locked \in BOOLEAN
  BY DEF Counters
<1>2. /\ Allocated(row).last = IF row.last = 0 THEN FirstNumber ELSE row.last + 1
      /\ Allocated(row).prefix = row.prefix
  BY DEF Allocated, Counters
<1>3. Allocated(row).locked = (row.locked \/ row.last = 0)
  BY DEF Allocated, Counters
<1>4. Allocated(row).last \in {0} \cup {n \in Int : n >= FirstNumber}
  BY <1>1, <1>2 DEF FirstNumber
<1>5. Allocated(row).locked \in BOOLEAN
  BY <1>3
<1> DEFINE n == IF row.last = 0 THEN FirstNumber ELSE row.last + 1
           b == row.locked \/ row.last = 0
<1>6. n \in {0} \cup {m \in Int : m >= FirstNumber} /\ b \in BOOLEAN
  BY <1>2, <1>3, <1>4, <1>5
<1>7. Allocated(row) = [row EXCEPT !.last = n, !.locked = b]
  BY DEF Allocated
<1> HIDE DEF n, b
<1>8. Allocated(row) \in Counters
  BY <1>6, <1>7 DEF Counters
<1> QED BY <1>2, <1>3, <1>8

\* A transaction that takes the row, or lets it go, keeps the types.
LEMMA TakeType ==
    ASSUME NumberTypeOK, NEW f \in Creations \cup Savings, NEW row \in Counters, Take(f, row)
    PROVE  NumberTypeOK'
BY NumberAssumption DEF NumberTypeOK, Take

\* A transaction that ends leaves forms, older stores and unlocks typed, and had a row to write.
LEMMA LeaveType ==
    ASSUME NumberTypeOK, NEW f \in Creations \cup Savings, NEW r \in {"done", "refused"},
           Leave(f, r)
    PROVE  /\ older' \in BOOLEAN /\ unlocks' \in 0 .. MaxUnlocks
           /\ writing' \in [Creations \cup Savings -> Counters \cup {Nil}]
           /\ filing' \in [Creations \cup Savings -> {"idle", "open", "done", "refused"}]
           /\ \A g \in DOMAIN filing' : (filing'[g] = "open") = (writing'[g] # Nil)
           /\ writing[f] \in Counters
BY NumberAssumption DEF NumberTypeOK, Leave

\* The row an older store brings along.
LEMMA OldCounter ==
    ASSUME NEW row, row = [Fresh(DefaultPrefix) EXCEPT !.last = FirstNumber + OldNumbers - 1]
    PROVE  /\ row \in Counters /\ row.prefix = DefaultPrefix
           /\ row.last = FirstNumber + OldNumbers - 1 /\ row.last >= FirstNumber
<1>1. row = [last |-> FirstNumber + OldNumbers - 1, prefix |-> DefaultPrefix, locked |-> FALSE]
  BY DEF Fresh
<1>2. FirstNumber + OldNumbers - 1 \in Int /\ FirstNumber + OldNumbers - 1 >= FirstNumber
  BY NumberAssumption DEF FirstNumber
<1>3. FirstNumber + OldNumbers - 1 \in {0} \cup {n \in Int : n >= FirstNumber}
  BY <1>2
<1>4. ASSUME NEW n \in {0} \cup {m \in Int : m >= FirstNumber}
      PROVE  [last |-> n, prefix |-> DefaultPrefix, locked |-> FALSE] \in Counters
  BY NumberAssumption DEF Counters
<1>5. row \in Counters
  <2> DEFINE last == FirstNumber + OldNumbers - 1
  <2> HIDE DEF last
  <2>1. last \in {0} \cup {m \in Int : m >= FirstNumber}
    BY <1>3 DEF last
  <2>2. [last |-> last, prefix |-> DefaultPrefix, locked |-> FALSE] \in Counters
    BY <1>4, <2>1
  <2> QED BY <1>1, <2>2 DEF last
<1>6. row.prefix = DefaultPrefix /\ row.last = FirstNumber + OldNumbers - 1
  BY <1>1
<1> QED BY <1>2, <1>5, <1>6

\* A store begins without a counter.
LEMMA NumberInitType == NumberInit => NumberTypeOK
<1> SUFFICES ASSUME NumberInit PROVE NumberTypeOK
  OBVIOUS
<1>1. \A p \in StorePrefixes : Fresh(p) \in Counters
  BY DEF Fresh, Counters
<1>2. counter \in Counters \cup {Nil} /\ older \in BOOLEAN
  <2>1. ASSUME counter = [Fresh(DefaultPrefix) EXCEPT !.last = FirstNumber + OldNumbers - 1]
        PROVE  counter \in Counters
    BY <2>1, OldCounter
  <2> QED BY <1>1, <2>1 DEF NumberInit
<1>3. numbered \subseteq [number : Int, prefix : StorePrefixes, first : StorePrefixes]
  <2>1. ASSUME numbered = [number : FirstNumber .. FirstNumber + OldNumbers - 1,
                           prefix : {DefaultPrefix}, first : {DefaultPrefix}]
        PROVE  numbered \subseteq [number : Int, prefix : StorePrefixes, first : StorePrefixes]
    BY <2>1, NumberAssumption DEF FirstNumber
  <2> QED BY <2>1 DEF NumberInit
<1> QED BY <1>2, <1>3, NumberAssumption DEF NumberInit, NumberTypeOK

\* Every step leaves the counter, the forms and the numbers typed.
LEMMA NumberNextType == NumberTypeOK /\ [NumberNext]_numberVars => NumberTypeOK'
<1> SUFFICES ASSUME NumberTypeOK, [NumberNext]_numberVars PROVE NumberTypeOK'
  OBVIOUS
<1>0. CounterRow \in Counters
  BY CounterRowType
<1>1. ASSUME NEW c \in Creations, Allocate(c) PROVE NumberTypeOK'
  BY <1>0, <1>1, AllocatedIsNext, TakeType DEF Allocate
<1>2. ASSUME NEW c \in Creations, CommitCreation(c) PROVE NumberTypeOK'
  <2>1. writing[c] \in Counters /\ counter' = writing[c]
    BY <1>2, LeaveType DEF CommitCreation
  <2>2. numbered' = numbered \cup {[number |-> writing[c].last, prefix |-> writing[c].prefix,
                                    first |-> writing[c].prefix]}
    BY <1>2 DEF CommitCreation
  <2>3. numbered' \subseteq [number : Int, prefix : StorePrefixes, first : StorePrefixes]
    BY <2>1, <2>2 DEF NumberTypeOK, Counters
  <2> QED BY <1>2, <2>1, <2>3, LeaveType DEF CommitCreation, NumberTypeOK
<1>3. ASSUME NEW f \in Creations \cup Savings, Withdraw(f) PROVE NumberTypeOK'
  BY <1>3, LeaveType DEF Withdraw, NumberTypeOK
<1>4. ASSUME NEW s \in Savings, TakePrefix(s) PROVE NumberTypeOK'
  <2>1. CASE CounterRow.locked
    BY <1>4, <2>1, NumberAssumption DEF TakePrefix, NumberTypeOK
  <2>2. CASE ~CounterRow.locked
    <3>1. [CounterRow EXCEPT !.prefix = PrefixOf[s], !.locked = TRUE] \in Counters
      BY <1>0, NumberAssumption DEF Counters
    <3> QED BY <1>4, <2>2, <3>1, TakeType DEF TakePrefix
  <2> QED BY <2>1, <2>2
<1>5. ASSUME NEW s \in Savings, RewriteReferences(s) PROVE NumberTypeOK'
  <2>1. numbered' \subseteq [number : Int, prefix : StorePrefixes, first : StorePrefixes]
    BY <1>5, NumberAssumption DEF RewriteReferences, Rewritten, NumberTypeOK
  <2> QED BY <1>5, <2>1, LeaveType DEF RewriteReferences, NumberTypeOK
<1>6. ASSUME Unlock PROVE NumberTypeOK'
  <2>1. counter \in Counters
    BY <1>6 DEF Unlock, NumberTypeOK
  <2>2. counter' \in Counters
    BY <1>6, <2>1 DEF Unlock, Counters
  <2>3. unlocks' \in 0 .. MaxUnlocks
    BY <1>6, NumberAssumption DEF Unlock, NumberTypeOK
  <2> QED BY <1>6, <2>2, <2>3 DEF Unlock, NumberTypeOK
<1>7. CASE UNCHANGED numberVars
  BY <1>7 DEF numberVars, NumberTypeOK
<1> QED BY <1>1, <1>2, <1>3, <1>4, <1>5, <1>6, <1>7 DEF NumberNext

-----------------------------------------------------------------------------
\* Without a row there is no number, so what a reader of the list relies on can be said of
\* the row that counts.
LEMMA NumbersRunOfRow ==
    ASSUME NumberTypeOK
    PROVE  NumbersRun <=>
             /\ {s.number : s \in numbered} =
                   IF CounterRow.last = 0 THEN {} ELSE FirstNumber .. CounterRow.last
             /\ \A s, r \in numbered : s.number = r.number => s = r
             /\ \A s \in numbered : s.prefix = CounterRow.prefix
<1>1. CASE counter = Nil
  <2>1. CounterRow.last = 0
    BY <1>1 DEF CounterRow, Fresh
  <2>2. {s.number : s \in numbered} = {} <=> numbered = {}
    OBVIOUS
  <2> QED BY <2>1, <2>2 DEF NumbersRun
<1>2. CASE counter # Nil
  BY <1>2 DEF CounterRow, NumbersRun
<1> QED BY <1>1, <1>2

\* Where nothing is numbered, nothing can be out of order.
LEMMA NumberInitInv == NumberInit => NumberInv
<1> SUFFICES ASSUME NumberInit PROVE NumberInv
  OBVIOUS
<1>0. NumberTypeOK
  BY NumberInitType
<1>1. OneWriter /\ RowFollowsCommitted
  BY DEF NumberInit, OneWriter, RowFollowsCommitted
<1>2. CASE numbered = {}
  <2>1. CounterRow.last = 0
    <3>1. \A p \in StorePrefixes : Fresh(p).last = 0
      BY DEF Fresh
    <3>2. counter = Nil \/ \E p \in StorePrefixes : counter = Fresh(p)
      <4>1. ASSUME older = TRUE PROVE numbered # {}
        <5>1. [number |-> FirstNumber, prefix |-> DefaultPrefix, first |-> DefaultPrefix]
                 \in numbered
          <6>1. FirstNumber \in FirstNumber .. FirstNumber + OldNumbers - 1
            BY NumberAssumption DEF FirstNumber
          <6> QED BY <4>1, <6>1 DEF NumberInit
        <5> QED BY <5>1
      <4> QED BY <1>2, <4>1 DEF NumberInit
    <3> QED BY <3>1, <3>2, NumberAssumption DEF CounterRow
  <2> QED BY <1>0, <1>1, <1>2, <2>1, NumbersRunOfRow
          DEF NumberInv, NumbersFollow, ReferencesStay, LockedFromFirst
<1>3. CASE numbered # {}
  <2>1. /\ older = TRUE
        /\ counter = [Fresh(DefaultPrefix) EXCEPT !.last = FirstNumber + OldNumbers - 1]
        /\ numbered = [number : FirstNumber .. FirstNumber + OldNumbers - 1,
                       prefix : {DefaultPrefix}, first : {DefaultPrefix}]
    BY <1>3 DEF NumberInit
  <2>2. /\ counter.last = FirstNumber + OldNumbers - 1 /\ counter.prefix = DefaultPrefix
        /\ counter \in Counters
    BY <2>1, OldCounter
  <2>3. CounterRow = counter /\ counter.last # 0
    BY <2>2, NumberAssumption DEF CounterRow, FirstNumber
  <2>4. {s.number : s \in numbered} = FirstNumber .. counter.last
    <3>1. \A n \in FirstNumber .. counter.last :
             LET s == [number |-> n, prefix |-> DefaultPrefix, first |-> DefaultPrefix]
             IN s \in numbered /\ s.number = n
      BY <2>1, <2>2
    <3>2. \A s \in numbered : s.number \in FirstNumber .. counter.last
      BY <2>1, <2>2
    <3>3. \A n \in FirstNumber .. counter.last : \E s \in numbered : n = s.number
      BY <3>1
    <3> QED BY <3>2, <3>3, Zenon
  <2>5. \A s, r \in numbered : s.number = r.number => s = r
    BY <2>1
  <2>6. \A s \in numbered : s.prefix = counter.prefix
    BY <2>1, <2>2
  <2> QED BY <1>1, <2>1, <2>3, <2>4, <2>5, <2>6
          DEF NumberInv, NumbersFollow, NumbersRun, ReferencesStay, LockedFromFirst
<1> QED BY <1>2, <1>3

\* A commit leaves no other transaction with the row.
LEMMA LeaveAlone ==
    ASSUME NumberTypeOK, OneWriter, NEW f \in Creations \cup Savings,
           NEW r \in {"done", "refused"}, Leave(f, r)
    PROVE  \A g \in Creations \cup Savings : filing'[g] # "open"
BY DEF NumberTypeOK, OneWriter, Leave

\* A shipment that commits takes the number after the last, and locks the prefix with it.
LEMMA CommitCreationKeeps ==
    ASSUME NumberTypeOK, NumberTypeOK', NumberInv, NEW c \in Creations, CommitCreation(c)
    PROVE  NumberInv'
<1> DEFINE row == Allocated(CounterRow)
           new == [number |-> row.last, prefix |-> row.prefix, first |-> row.prefix]
<1>0. CounterRow \in Counters
  BY CounterRowType
<1>1. writing[c] = row /\ counter' = row
  BY DEF CommitCreation, Leave, NumberInv, RowFollowsCommitted
<1>2. numbered' = numbered \cup {new}
  BY <1>1 DEF CommitCreation
<1>3. row \in Counters /\ row # Nil /\ CounterRow' = row
  BY <1>0, <1>1, AllocatedIsNext, NumberAssumption DEF CounterRow
<1>4. \A g \in Creations \cup Savings : filing'[g] # "open"
  BY LeaveAlone DEF CommitCreation, NumberInv
<1>5. /\ row.last = IF CounterRow.last = 0 THEN FirstNumber ELSE CounterRow.last + 1
      /\ row.prefix = CounterRow.prefix
      /\ row.locked = (CounterRow.locked \/ CounterRow.last = 0)
  BY <1>0, AllocatedIsNext
<1>6. CounterRow.last = 0 \/ (CounterRow.last \in Int /\ CounterRow.last >= FirstNumber)
  BY <1>0 DEF Counters
<1> HIDE DEF row
<1>7. NumbersRun /\ ReferencesStay
  BY DEF NumberInv, NumbersFollow
<1>8. /\ {s.number : s \in numbered} =
            IF CounterRow.last = 0 THEN {} ELSE FirstNumber .. CounterRow.last
      /\ \A s, r \in numbered : s.number = r.number => s = r
      /\ \A s \in numbered : s.prefix = CounterRow.prefix
  BY <1>7, NumbersRunOfRow
<1>9. new.number = row.last /\ new.prefix = row.prefix /\ new.first = row.prefix
  OBVIOUS
<1>10. {s.number : s \in numbered'} = {s.number : s \in numbered} \cup {row.last}
  BY <1>2, <1>9
<1> HIDE DEF new
<1>11. {s.number : s \in numbered'} = FirstNumber .. row.last
  BY <1>5, <1>6, <1>8, <1>10 DEF FirstNumber
<1>12. \A s \in numbered : s.number # row.last
  <2>1. \A s \in numbered : s.number \in {t.number : t \in numbered}
    OBVIOUS
  <2>2. CASE CounterRow.last = 0
    BY <1>8, <2>1, <2>2
  <2>3. CASE CounterRow.last # 0
    <3>1. \A s \in numbered : s.number \in FirstNumber .. CounterRow.last
      BY <1>8, <2>1, <2>3, Zenon
    <3> QED BY <1>5, <1>6, <2>3, <3>1 DEF FirstNumber
  <2> QED BY <2>2, <2>3
<1>13. /\ \A s, r \in numbered' : s.number = r.number => s = r
       /\ \A s \in numbered' : s.prefix = row.prefix
  BY <1>2, <1>5, <1>8, <1>9, <1>12
<1>14. row.last # 0
  BY <1>5, <1>6 DEF FirstNumber
<1>15. NumbersRun'
  BY <1>1, <1>3, <1>11, <1>13, <1>14 DEF NumbersRun
<1>16. ReferencesStay'
  BY <1>2, <1>7, <1>9 DEF ReferencesStay, CommitCreation, Leave
<1>17. LockedFromFirst'
  <2>1. UNCHANGED <<unlocks, older>>
    BY DEF CommitCreation, Leave
  <2>2. unlocks = 0 /\ ~older => CounterRow.locked \/ CounterRow.last = 0
    BY DEF NumberInv, LockedFromFirst
  <2> QED BY <1>3, <1>5, <2>1, <2>2 DEF LockedFromFirst
<1>18. OneWriter' /\ RowFollowsCommitted'
  BY <1>4 DEF NumberTypeOK, OneWriter, RowFollowsCommitted
<1> QED BY <1>15, <1>16, <1>17, <1>18 DEF NumberInv, NumbersFollow

\* The one change of the prefix that the lock permits rewrites every reference there is.
LEMMA RewriteReferencesKeeps ==
    ASSUME NumberTypeOK, NumberTypeOK', NumberInv, NEW s \in Savings, RewriteReferences(s)
    PROVE  NumberInv'
<1> DEFINE p == PrefixOf[s]
           row == [CounterRow EXCEPT !.prefix = p, !.locked = TRUE]
<1>0. CounterRow \in Counters
  BY CounterRowType
<1>1. /\ writing[s] = row /\ counter' = row /\ ~CounterRow.locked
      /\ numbered' = {[t EXCEPT !.prefix = p] : t \in numbered}
  BY DEF RewriteReferences, Rewritten, Leave, NumberInv, RowFollowsCommitted
<1>2. row \in Counters /\ row.last = CounterRow.last /\ row.prefix = p /\ row.locked = TRUE
  BY <1>0, NumberAssumption DEF Counters
<1>3. row # Nil /\ CounterRow' = row
  BY <1>1, <1>2, NumberAssumption DEF CounterRow
<1>4. \A g \in Creations \cup Savings : filing'[g] # "open"
  BY LeaveAlone DEF RewriteReferences, NumberInv
<1> HIDE DEF row
<1>5. NumbersRun /\ ReferencesStay
  BY DEF NumberInv, NumbersFollow
<1>6. /\ {t.number : t \in numbered} =
            IF CounterRow.last = 0 THEN {} ELSE FirstNumber .. CounterRow.last
      /\ \A t, r \in numbered : t.number = r.number => t = r
  BY <1>5, NumbersRunOfRow
<1>7. \A t \in numbered : /\ [t EXCEPT !.prefix = p].number = t.number
                          /\ [t EXCEPT !.prefix = p].prefix = p
                          /\ [t EXCEPT !.prefix = p].first = t.first
  BY DEF NumberTypeOK
<1>8. {t.number : t \in numbered'} = {t.number : t \in numbered}
  <2> DEFINE F(t) == [t EXCEPT !.prefix = p]
  <2>1. numbered' = {F(t) : t \in numbered}
    BY <1>1
  <2>2. \A t \in numbered : F(t).number = t.number
    BY <1>7
  <2> HIDE DEF F
  <2>3. \A n : n \in {t.number : t \in numbered'} <=> n \in {t.number : t \in numbered}
    <3> SUFFICES ASSUME NEW n
                 PROVE  (\E t \in numbered' : n = t.number) <=> \E t \in numbered : n = t.number
      OBVIOUS
    <3>1. ASSUME NEW t \in numbered, n = t.number PROVE \E u \in numbered' : n = u.number
      <4>1. F(t) \in numbered' /\ n = F(t).number
        BY <2>1, <2>2, <3>1
      <4> QED BY <4>1
    <3>2. ASSUME NEW u \in numbered', n = u.number PROVE \E t \in numbered : n = t.number
      <4>1. PICK t \in numbered : u = F(t)
        BY <2>1
      <4> QED BY <2>2, <3>2, <4>1
    <3> QED BY <3>1, <3>2
  <2> QED BY <2>3
<1>9. \A t, r \in numbered' : t.number = r.number => t = r
  <2> SUFFICES ASSUME NEW t \in numbered', NEW r \in numbered', t.number = r.number PROVE t = r
    OBVIOUS
  <2>1. PICK u \in numbered : t = [u EXCEPT !.prefix = p]
    BY <1>1
  <2>2. PICK v \in numbered : r = [v EXCEPT !.prefix = p]
    BY <1>1
  <2>3. u.number = v.number
    BY <1>7, <2>1, <2>2
  <2> QED BY <1>6, <2>1, <2>2, <2>3
<1>10. \A t \in numbered' : t.prefix = p
  BY <1>1, <1>7
<1>11. NumbersRun'
  BY <1>1, <1>2, <1>3, <1>6, <1>8, <1>9, <1>10 DEF NumbersRun
<1>12. UNCHANGED <<unlocks, older>>
  BY DEF RewriteReferences, Leave
<1>13. ReferencesStay'
  <2> SUFFICES ASSUME unlocks = 0 /\ ~older PROVE numbered' = {}
    BY <1>12 DEF ReferencesStay
  <2>1. CounterRow.last = 0
    BY <1>1 DEF NumberInv, LockedFromFirst
  <2>2. {t.number : t \in numbered} = {}
    BY <1>6, <2>1
  <2> QED BY <1>1, <2>2
<1>14. LockedFromFirst'
  BY <1>2, <1>3 DEF LockedFromFirst
<1>15. OneWriter' /\ RowFollowsCommitted'
  BY <1>4 DEF NumberTypeOK, OneWriter, RowFollowsCommitted
<1> QED BY <1>11, <1>13, <1>14, <1>15 DEF NumberInv, NumbersFollow

\* A transaction that takes the row is the only one, and what is committed stays.
LEMMA TakeKeeps ==
    ASSUME NumberTypeOK, NumberInv, NEW f \in Creations \cup Savings, NEW row,
           RowLeft, Take(f, row),
           f \in Creations => row = Allocated(CounterRow),
           f \in Savings => /\ ~CounterRow.locked
                            /\ row = [CounterRow EXCEPT !.prefix = PrefixOf[f], !.locked = TRUE]
    PROVE  NumberInv'
<1>1. UNCHANGED <<older, counter, numbered, unlocks>> /\ CounterRow' = CounterRow
  BY DEF Take, CounterRow
<1>2. NumbersFollow'
  BY <1>1 DEF NumberInv, NumbersFollow, NumbersRun, ReferencesStay
<1>3. LockedFromFirst'
  BY <1>1 DEF NumberInv, LockedFromFirst
<1>4. /\ \A g \in Creations \cup Savings : filing'[g] = "open" => g = f
      /\ DOMAIN filing' = Creations \cup Savings /\ writing'[f] = row
  BY DEF RowLeft, Take, NumberTypeOK
<1>5. OneWriter'
  BY <1>4 DEF OneWriter
<1>6. RowFollowsCommitted'
  BY <1>1, <1>4 DEF RowFollowsCommitted, Allocated
<1> QED BY <1>2, <1>3, <1>5, <1>6 DEF NumberInv

\* A transaction that rolls back leaves the counter as it found it.
LEMMA WithdrawKeeps ==
    ASSUME NumberTypeOK, NumberTypeOK', NumberInv, NEW f \in Creations \cup Savings, Withdraw(f)
    PROVE  NumberInv'
<1>1. UNCHANGED <<older, counter, numbered, unlocks>> /\ CounterRow' = CounterRow
  BY DEF Withdraw, Leave, CounterRow
<1>2. \A g \in Creations \cup Savings : filing'[g] # "open"
  BY LeaveAlone DEF Withdraw, NumberInv
<1>3. OneWriter' /\ RowFollowsCommitted'
  BY <1>2 DEF NumberTypeOK, OneWriter, RowFollowsCommitted
<1>4. NumbersFollow' /\ LockedFromFirst'
  BY <1>1 DEF NumberInv, NumbersFollow, NumbersRun, ReferencesStay, LockedFromFirst
<1> QED BY <1>3, <1>4 DEF NumberInv

\* Unlocking the prefix leaves numbers and references as they are.
LEMMA UnlockKeeps == ASSUME NumberTypeOK, NumberInv, Unlock PROVE NumberInv'
<1>1. counter \in Counters /\ counter' = [counter EXCEPT !.locked = FALSE]
  BY DEF Unlock, NumberTypeOK
<1>2. /\ counter' \in Counters /\ counter'.last = counter.last
      /\ counter'.prefix = counter.prefix
  BY <1>1 DEF Counters
<1>3. CounterRow = counter /\ CounterRow' = counter'
  BY <1>1, <1>2, NumberAssumption DEF CounterRow
<1>4. UNCHANGED numbered /\ unlocks' # 0
  BY DEF Unlock, NumberTypeOK
<1>5. NumbersFollow' /\ LockedFromFirst'
  BY <1>2, <1>3, <1>4 DEF NumberInv, NumbersFollow, NumbersRun, ReferencesStay, LockedFromFirst
<1>6. OneWriter' /\ RowFollowsCommitted'
  BY DEF Unlock, RowLeft, NumberTypeOK, OneWriter, RowFollowsCommitted
<1> QED BY <1>5, <1>6 DEF NumberInv

\* Every step keeps the invariant.
LEMMA NumberNextInv ==
    NumberTypeOK /\ NumberTypeOK' /\ NumberInv /\ [NumberNext]_numberVars => NumberInv'
<1> SUFFICES ASSUME NumberTypeOK, NumberTypeOK', NumberInv, [NumberNext]_numberVars
             PROVE  NumberInv'
  OBVIOUS
<1>1. ASSUME NEW c \in Creations, Allocate(c) PROVE NumberInv'
  <2>1. c \notin Savings
    BY NumberAssumption
  <2> QED BY <1>1, <2>1, TakeKeeps DEF Allocate
<1>2. ASSUME NEW s \in Savings, TakePrefix(s) PROVE NumberInv'
  <2>1. s \notin Creations
    BY NumberAssumption
  <2>2. CASE ~CounterRow.locked
    BY <1>2, <2>1, <2>2, TakeKeeps DEF TakePrefix
  <2>3. CASE CounterRow.locked
    <3>1. UNCHANGED <<older, counter, writing, numbered, unlocks>> /\ CounterRow' = CounterRow
      BY <1>2, <2>3 DEF TakePrefix, CounterRow
    <3>2. \A g \in Creations \cup Savings : filing'[g] # "open"
      BY <1>2, <2>3 DEF TakePrefix, RowLeft, NumberTypeOK
    <3>3. OneWriter' /\ RowFollowsCommitted'
      BY <3>2 DEF NumberTypeOK, OneWriter, RowFollowsCommitted
    <3>4. NumbersFollow' /\ LockedFromFirst'
      BY <3>1 DEF NumberInv, NumbersFollow, NumbersRun, ReferencesStay, LockedFromFirst
    <3> QED BY <3>3, <3>4 DEF NumberInv
  <2> QED BY <2>2, <2>3
<1>3. CASE UNCHANGED numberVars
  <2>1. CounterRow' = CounterRow
    BY <1>3 DEF numberVars, CounterRow
  <2> QED BY <1>3, <2>1 DEF numberVars, NumberInv, NumbersFollow, NumbersRun, ReferencesStay,
             LockedFromFirst, OneWriter, RowFollowsCommitted, Allocated
<1> QED BY <1>1, <1>2, <1>3, CommitCreationKeeps, WithdrawKeeps, RewriteReferencesKeeps,
           UnlockKeeps DEF NumberNext

\* The counter of a store is a number or not there yet, and who has its row is working on
\* it (tenant_shipment_counters, allocateShipmentNumber, saveShipmentPrefix).
THEOREM NumberTypeCorrect == NumberSpec => []NumberTypeOK
BY NumberInitType, NumberNextType, PTL DEF NumberSpec

\* The invariant on which the numbers rest: one transaction has the row and writes it from
\* what is committed; only an unlock, or an older store, leaves a number unlocked.
THEOREM NumbersSound == NumberSpec => [](NumberTypeOK /\ NumberInv)
<1>1. NumberInit => NumberTypeOK /\ NumberInv
  BY NumberInitType, NumberInitInv
<1>2. NumberTypeOK /\ NumberInv /\ [NumberNext]_numberVars => (NumberTypeOK /\ NumberInv)'
  BY NumberNextType, NumberNextInv
<1> QED BY <1>1, <1>2, PTL DEF NumberSpec

\* The numbers of a store have no gap and no double, every reference bears the one prefix
\* of the store, and keeps the one it was first shown with: for any number of requests,
\* prefixes, older shipments and unlocks.
THEOREM NumbersAlwaysFollow == NumberSpec => []NumbersFollow
<1>1. NumberInv => NumbersFollow
  BY DEF NumberInv
<1> QED BY <1>1, NumbersSound, PTL
-----------------------------------------------------------------------------
(* Who runs a store, and whether it may work (StoreAccess) *)

\* What a form asks for is one of the actions, of users, roles and attempts that there are.
LEMMA FormParts ==
    /\ \A f \in Forms : /\ f.actor \in Users /\ f.action \in MemberActions /\ f.target \in Users
                        /\ f.role \in Roles /\ f.attempt \in STRING
    /\ \A o \in Orders : /\ o.action \in {"create", "suspend", "reactivate", "archive"}
                         /\ o.store \in Stores /\ o.named \in BOOLEAN /\ o.attempt \in STRING
<1>1. Forms \subseteq [actor : Users, action : MemberActions, target : Users,
                       role : Roles, attempt : STRING]
  BY AccessAssumption
<1>2. Orders \subseteq [action : {"create", "suspend", "reactivate", "archive"}, store : Stores,
                        named : BOOLEAN, attempt : STRING]
  BY AccessAssumption
<1>3. \A f \in Forms : /\ f.actor \in Users /\ f.action \in MemberActions /\ f.target \in Users
                       /\ f.role \in Roles /\ f.attempt \in STRING
  BY <1>1
<1>4. \A o \in Orders : /\ o.action \in {"create", "suspend", "reactivate", "archive"}
                        /\ o.store \in Stores /\ o.named \in BOOLEAN /\ o.attempt \in STRING
  BY <1>2
<1> QED BY <1>3, <1>4

\* A membership has a store, a role and a status.
LEMMA MembershipParts ==
    /\ \A m \in Memberships : m.store \in Stores /\ m.role \in Roles
                              /\ m.status \in {"ACTIVE", "SUSPENDED"}
    /\ \A m \in Memberships : [m EXCEPT !.status = "SUSPENDED"] \in Memberships
    /\ \A t \in Stores, r \in Roles :
          [store |-> t, role |-> r, status |-> "ACTIVE"] \in Memberships
    /\ Nobody \notin Memberships
BY AccessAssumption DEF Memberships

\* What a request that is at work is known to have.
LEMMA RequestParts ==
    ASSUME AccessTypeOK
    PROVE  /\ \A g \in Requests : phase[g] # "idle" => form[g] \in Forms
           /\ \A g \in Requests : phase[g] \in {"began", "locked", "written", "recorded"} =>
                 context[g] \in Memberships /\ context[g].store \in Stores
                 /\ context[g].role \in Roles
           /\ \A g \in Requests : phase[g] \in {"written", "recorded"} => answer[g] \in Answers
           /\ \A u \in Users : member[u] # Nobody => member[u] \in Memberships
           /\ \A g \in Requests : phase[g] \in {"locked", "written", "recorded"} =>
                 holder[context[g].store] = g
<1>1. \A g \in Requests : phase[g] # "idle" => form[g] \in Forms
  BY DEF AccessTypeOK
<1>2. \A g \in Requests : phase[g] \in {"began", "locked", "written", "recorded"} =>
         context[g] \in Memberships
  BY DEF AccessTypeOK
<1>3. \A g \in Requests : phase[g] \in {"written", "recorded"} => answer[g] \in Answers
  BY DEF AccessTypeOK
<1>4. \A u \in Users : member[u] # Nobody => member[u] \in Memberships
  BY DEF AccessTypeOK
<1>5. \A g \in Requests : phase[g] \in {"began", "locked", "written", "recorded"} =>
         context[g].store \in Stores /\ context[g].role \in Roles
  BY <1>2, MembershipParts
<1>6. \A g \in Requests : phase[g] \in {"locked", "written", "recorded"} =>
         holder[context[g].store] = g
  BY <1>5 DEF AccessTypeOK
<1> QED BY <1>1, <1>2, <1>3, <1>4, <1>5, <1>6

\* Whoever has decided holds the lock of its store, so two of them are in two stores.
LEMMA PendingApart ==
    ASSUME AccessTypeOK, NEW g \in Requests, NEW h \in Requests, g # h,
           phase[g] \in {"locked", "written", "recorded"},
           phase[h] \in {"locked", "written", "recorded"}
    PROVE  context[g].store # context[h].store
BY RequestParts

\* A form without a receipt is judged; one with receipts is answered from one of them.
LEMMA RepeatedIs ==
    ASSUME NEW f, NEW t, NEW same, NEW otherwise
    PROVE  /\ Receipt(f, t) = {} => Repeated(f, t, same, otherwise) = otherwise
           /\ Receipt(f, t) # {} =>
                 \E r \in Receipt(f, t) :
                    Repeated(f, t, same, otherwise) \in {r.answer, "ATTEMPT_CONFLICT"}
<1>1. CASE Receipt(f, t) = {}
  BY <1>1 DEF Repeated
<1>2. CASE Receipt(f, t) # {}
  <2> DEFINE r == CHOOSE r \in Receipt(f, t) : TRUE
  <2>1. r \in Receipt(f, t)
    BY <1>2
  <2>2. Repeated(f, t, same, otherwise) =
           IF r \in same THEN Replayed(f, t, r) ELSE "ATTEMPT_CONFLICT"
    BY <1>2 DEF Repeated
  <2> HIDE DEF r
  <2>3. Replayed(f, t, r) \in {r.answer, "ATTEMPT_CONFLICT"}
    BY DEF Replayed
  <2>4. Repeated(f, t, same, otherwise) \in {r.answer, "ATTEMPT_CONFLICT"}
    BY <2>2, <2>3
  <2> QED BY <1>2, <2>1, <2>4
<1> QED BY <1>1, <1>2

\* Once an attempt has a receipt, deciding it again answers what the receipt says, or that the
\* attempt was used for something else.
LEMMA DecisionRepeats ==
    ASSUME NEW f \in Forms, NEW t, NEW role, Receipt(f, t) # {}
    PROVE  \E r \in Receipt(f, t) : Decision(f, t, role) \in {r.answer, "ATTEMPT_CONFLICT"}
<1>1. f.action \in MemberActions
  BY FormParts
<1>2. CASE role # "TENANT_ADMIN"
  BY <1>2, RepeatedIs DEF Decision
<1>3. CASE role = "TENANT_ADMIN" /\ f.action = "MEMBER_INVITED"
  BY <1>3, RepeatedIs DEF Decision, Invite
<1>4. CASE role = "TENANT_ADMIN" /\ f.action = "MEMBER_ROLE_CHANGED"
  <2>1. Decision(f, t, role) = ChangeRole(f, t)
    BY <1>4 DEF Decision
  <2> QED BY <2>1, RepeatedIs DEF ChangeRole
<1>5. CASE role = "TENANT_ADMIN" /\ f.action = "MEMBER_DEACTIVATED"
  <2>1. Decision(f, t, role) = Deactivate(f, t)
    BY <1>5 DEF Decision
  <2> QED BY <2>1, RepeatedIs DEF Deactivate
<1> QED BY <1>1, <1>2, <1>3, <1>4, <1>5 DEF MemberActions

\* What a fresh form may be told, and what is known when it is told that it succeeded.
LEMMA DecisionFresh ==
    ASSUME NEW f \in Forms, NEW t, NEW role, Receipt(f, t) = {}
    PROVE  /\ Decision(f, t, role) \in Answers \ {"ATTEMPT_CONFLICT", "failed"}
           /\ Decision(f, t, role) = "ok" =>
                 IF f.action = "MEMBER_INVITED"
                 THEN member[f.target] # Nobody =>
                        member[f.target].store = t /\ member[f.target].status # "ACTIVE"
                 ELSE /\ member[f.target] # Nobody /\ member[f.target].store = t
                      /\ member[f.target].role = "TENANT_ADMIN" => ~AtMostOneAdmin(t)
<1>1. f.action \in MemberActions
  BY FormParts
<1>2. CASE role # "TENANT_ADMIN"
  <2>1. Decision(f, t, role) = "NOT_AUTHORIZED"
    BY <1>2, RepeatedIs DEF Decision
  <2> QED BY <2>1 DEF Answers
<1>3. CASE role = "TENANT_ADMIN" /\ f.action = "MEMBER_INVITED"
  <2>1. Decision(f, t, role) =
           IF ~InvitationAllowed(f.actor, t, f.target) THEN "INVITATION_NOT_ALLOWED"
           ELSE IF member[f.target] # Nobody /\ member[f.target].status = "ACTIVE"
                THEN "ALREADY_ACTIVE" ELSE "ok"
    BY <1>3, RepeatedIs DEF Decision, Invite
  <2> QED BY <1>3, <2>1 DEF Answers, InvitationAllowed
<1>4. ASSUME Visible(f.actor, t, f.target) # Nobody
      PROVE  /\ member[f.target] # Nobody /\ member[f.target].store = t
             /\ Visible(f.actor, t, f.target) = member[f.target]
  BY <1>4 DEF Visible
<1>5. CASE role = "TENANT_ADMIN" /\ f.action = "MEMBER_ROLE_CHANGED"
  <2> DEFINE m == Visible(f.actor, t, f.target)
  <2>1. Decision(f, t, role) = ChangeRole(f, t)
    BY <1>5 DEF Decision
  <2>2. ChangeRole(f, t) =
           IF m = Nobody \/ m.status # "ACTIVE" THEN "MEMBER_NOT_FOUND"
           ELSE IF m.role = f.role THEN "NO_CHANGE"
           ELSE IF m.role = "TENANT_ADMIN" /\ AtMostOneAdmin(t) THEN "LAST_ACTIVE_ADMIN"
           ELSE IF f.target = f.actor THEN "SELF_CHANGE_NOT_ALLOWED" ELSE "ok"
    BY RepeatedIs DEF ChangeRole
  <2> QED BY <1>4, <1>5, <2>1, <2>2 DEF Answers
<1>6. CASE role = "TENANT_ADMIN" /\ f.action = "MEMBER_DEACTIVATED"
  <2> DEFINE m == Visible(f.actor, t, f.target)
  <2>1. Decision(f, t, role) = Deactivate(f, t)
    BY <1>6 DEF Decision
  <2>2. Deactivate(f, t) =
           IF m = Nobody \/ m.status # "ACTIVE" THEN "MEMBER_NOT_FOUND"
           ELSE IF m.role = "TENANT_ADMIN" /\ AtMostOneAdmin(t) THEN "LAST_ACTIVE_ADMIN"
           ELSE IF f.target = f.actor THEN "SELF_CHANGE_NOT_ALLOWED" ELSE "ok"
    BY RepeatedIs DEF Deactivate
  <2> QED BY <1>4, <1>6, <2>1, <2>2 DEF Answers
<1> QED BY <1>1, <1>2, <1>3, <1>5, <1>6 DEF MemberActions

\* A decision is an answer, and the change that follows a success a membership of the store.
LEMMA DecisionType ==
    ASSUME AccessTypeOK, NEW f \in Forms, NEW t \in Stores, NEW role
    PROVE  /\ Decision(f, t, role) \in Answers
           /\ Decision(f, t, role) = "ok" /\ Receipt(f, t) = {} =>
                 Changed(f, t) \in Memberships /\ Changed(f, t).store = t
<1>1. \A r \in Receipt(f, t) : r.answer \in Answers
  BY DEF AccessTypeOK, Receipt
<1>2. Decision(f, t, role) \in Answers
  BY <1>1, DecisionRepeats, DecisionFresh DEF Answers
<1>3. ASSUME Decision(f, t, role) = "ok", Receipt(f, t) = {}
      PROVE  Changed(f, t) \in Memberships /\ Changed(f, t).store = t
  <2>1. CASE f.action = "MEMBER_DEACTIVATED"
    <3>1. member[f.target] # Nobody /\ member[f.target].store = t
      BY <1>3, <2>1, DecisionFresh
    <3>2. member[f.target] \in Memberships
      BY <3>1, FormParts, RequestParts
    <3>3. Changed(f, t) = [member[f.target] EXCEPT !.status = "SUSPENDED"]
      BY <2>1 DEF Changed
    <3>4. [member[f.target] EXCEPT !.status = "SUSPENDED"].store = member[f.target].store
      BY <3>2 DEF Memberships
    <3> QED BY <3>1, <3>2, <3>3, <3>4, MembershipParts
  <2>2. CASE f.action # "MEMBER_DEACTIVATED"
    BY <2>2, FormParts, MembershipParts DEF Changed
  <2> QED BY <2>1, <2>2
<1> QED BY <1>2, <1>3

\* No request has begun, and the stores are as they were founded.
LEMMA AccessInitType == AccessInit => AccessTypeOK
BY AccessAssumption DEF AccessInit, AccessTypeOK

\* The audit row of a request is a receipt.
LEMMA NewReceiptType ==
    ASSUME NEW f \in Forms, NEW t \in Stores, NEW a \in Answers
    PROVE  /\ NewReceipt(f, t, a) \in [actor : Users, store : Stores, action : MemberActions,
                                       attempt : STRING, target : Users \cup {Nobody},
                                       role : Roles \cup {Nobody}, answer : Answers]
           /\ NewReceipt(f, t, a).actor = f.actor /\ NewReceipt(f, t, a).store = t
           /\ NewReceipt(f, t, a).action = f.action
           /\ NewReceipt(f, t, a).attempt = f.attempt /\ NewReceipt(f, t, a).answer = a
<1> DEFINE u == IF a = "NOT_AUTHORIZED" \/ a = "MEMBER_NOT_FOUND" THEN Nobody ELSE f.target
           l == IF a = "NOT_AUTHORIZED" THEN Nobody ELSE f.role
<1>1. u \in Users \cup {Nobody} /\ l \in Roles \cup {Nobody}
  BY FormParts
<1>2. NewReceipt(f, t, a) = [actor |-> f.actor, store |-> t, action |-> f.action,
                             attempt |-> f.attempt, target |-> u, role |-> l, answer |-> a]
  BY DEF NewReceipt
<1> HIDE DEF u, l
<1> QED BY <1>1, <1>2, FormParts

\* Every step leaves the requests and the tables typed.
LEMMA AccessNextType == AccessTypeOK /\ [AccessNext]_accessVars => AccessTypeOK'
<1> SUFFICES ASSUME AccessTypeOK, [AccessNext]_accessVars PROVE AccessTypeOK'
  OBVIOUS
<1> USE AccessAssumption
<1>1. ASSUME NEW g \in Requests, NEW f \in Forms, SendForm(g, f) PROVE AccessTypeOK'
  BY <1>1 DEF SendForm, AccessTypeOK
<1>2. ASSUME NEW g \in Requests, BeginGovernance(g) PROVE AccessTypeOK'
  <2>1. form[g] \in Forms /\ form[g].actor \in Users
    BY <1>2, RequestParts, FormParts DEF BeginGovernance
  <2>2. Standing(form[g].actor) \in Memberships
    BY <1>2, <2>1, RequestParts DEF BeginGovernance, Standing
  <2> QED BY <1>2, <2>2 DEF BeginGovernance, AccessTypeOK
<1>3. ASSUME NEW g \in Requests, ContextDenied(g) PROVE AccessTypeOK'
  BY <1>3 DEF ContextDenied, AccessTypeOK, Answers
<1>4. ASSUME NEW g \in Requests, LockGovernance(g) PROVE AccessTypeOK'
  <2>1. context[g].store \in Stores
    BY <1>4, RequestParts DEF LockGovernance
  <2>2. \A h \in Requests \ {g} : holder[context[g].store] # h /\ phase'[h] = phase[h]
    BY <1>4 DEF LockGovernance, AccessTypeOK
  <2>3. \A h \in Requests, t \in Stores :
           holder'[t] = h <=> phase'[h] \in {"locked", "written", "recorded"}
                              /\ context'[h].store = t
    <3> SUFFICES ASSUME NEW h \in Requests, NEW t \in Stores
                 PROVE  holder'[t] = h <=> phase'[h] \in {"locked", "written", "recorded"}
                                           /\ context'[h].store = t
      OBVIOUS
    <3>1. holder' = [holder EXCEPT ![context[g].store] = g] /\ context' = context
      BY <1>4 DEF LockGovernance
    <3>2. holder[t] = h <=> phase[h] \in {"locked", "written", "recorded"}
                            /\ context[h].store = t
      BY DEF AccessTypeOK
    <3>3. holder \in [Stores -> Requests \cup {Nobody}]
      BY DEF AccessTypeOK
    <3>4. CASE h = g
      <4>1. phase'[g] = "locked" /\ phase[g] = "began"
        BY <1>4 DEF LockGovernance, AccessTypeOK
      <4> QED BY <2>1, <3>1, <3>2, <3>3, <3>4, <4>1
    <3>5. CASE h # g
      <4>1. CASE t = context[g].store
        BY <2>1, <2>2, <3>1, <3>2, <3>3, <3>5, <4>1
      <4>2. CASE t # context[g].store
        BY <2>1, <2>2, <3>1, <3>2, <3>3, <3>5, <4>2
      <4> QED BY <4>1, <4>2
    <3> QED BY <3>4, <3>5
  <2> QED BY <1>4, <2>1, <2>3 DEF LockGovernance, AccessTypeOK
<1>5. ASSUME NEW g \in Requests, DecideGovernance(g) PROVE AccessTypeOK'
  <2> DEFINE f == form[g]
             t == context[g].store
             a == Decision(f, t, context[g].role)
             c == IF a = "ok" /\ Receipt(f, t) = {} THEN Changed(f, t) ELSE Nobody
  <2>1. f \in Forms /\ t \in Stores /\ phase[g] = "locked"
    BY <1>5, RequestParts DEF DecideGovernance
  <2>2. a \in Answers /\ c \in Memberships \cup {Nobody}
    BY <2>1, DecisionType
  <2>3. /\ answer' = [answer EXCEPT ![g] = a] /\ change' = [change EXCEPT ![g] = c]
        /\ phase' = [phase EXCEPT ![g] = "written"]
        /\ UNCHANGED <<store, member, receipts, orders, holder, form, context>>
    BY <1>5 DEF DecideGovernance
  <2> HIDE DEF a, c
  <2> QED BY <2>1, <2>2, <2>3 DEF AccessTypeOK
<1>6. ASSUME NEW g \in Requests, RecordGovernance(g) PROVE AccessTypeOK'
  BY <1>6 DEF RecordGovernance, AccessTypeOK
<1>7. ASSUME NEW g \in Requests, AbortGovernance(g) PROVE AccessTypeOK'
  BY <1>7 DEF AbortGovernance, AccessTypeOK, Answers
<1>8. ASSUME NEW g \in Requests, CommitGovernance(g) PROVE AccessTypeOK'
  <2> DEFINE f == form[g]
             t == context[g].store
  <2>1. f \in Forms /\ t \in Stores /\ answer[g] \in Answers /\ phase[g] = "recorded"
        /\ f.target \in Users
    BY <1>8, RequestParts, FormParts DEF CommitGovernance
  <2>2. member' \in [Users -> Memberships \cup {Nobody}]
    BY <1>8, <2>1 DEF CommitGovernance, AccessTypeOK
  <2>3. receipts' \subseteq [actor : Users, store : Stores, action : MemberActions,
                             attempt : STRING, target : Users \cup {Nobody},
                             role : Roles \cup {Nobody}, answer : Answers]
    BY <1>8, <2>1, NewReceiptType DEF CommitGovernance, AccessTypeOK
  <2>4. /\ holder' = [holder EXCEPT ![t] = Nobody] /\ phase' = [phase EXCEPT ![g] = "answered"]
        /\ change' = [change EXCEPT ![g] = Nobody]
        /\ UNCHANGED <<store, orders, form, context, answer>>
    BY <1>8 DEF CommitGovernance
  <2>5. \A h \in Requests, s \in Stores :
           holder'[s] = h <=> phase'[h] \in {"locked", "written", "recorded"}
                              /\ context'[h].store = s
    <3> SUFFICES ASSUME NEW h \in Requests, NEW s \in Stores
                 PROVE  holder'[s] = h <=> phase'[h] \in {"locked", "written", "recorded"}
                                           /\ context'[h].store = s
      OBVIOUS
    <3>1. /\ holder[s] = h <=> phase[h] \in {"locked", "written", "recorded"}
                               /\ context[h].store = s
          /\ holder \in [Stores -> Requests \cup {Nobody}] /\ holder[t] = g
      BY <2>1, RequestParts DEF AccessTypeOK
    <3>2. phase \in [Requests -> {"idle", "sent", "began", "locked", "written", "recorded",
                                  "answered"}]
      BY DEF AccessTypeOK
    <3>3. CASE h = g
      BY <2>1, <2>4, <3>1, <3>2, <3>3
    <3>4. CASE h # g
      BY <2>1, <2>4, <3>1, <3>2, <3>4
    <3> QED BY <3>3, <3>4
  <2> HIDE DEF f, t
  <2> QED BY <2>1, <2>2, <2>3, <2>4, <2>5 DEF AccessTypeOK
<1>9. ASSUME NEW g \in Requests, ShowAnswer(g) PROVE AccessTypeOK'
  BY <1>9 DEF ShowAnswer, AccessTypeOK
<1>10. ASSUME NEW o \in Orders, ExecuteLifecycle(o) PROVE AccessTypeOK'
  <2>1. o.store \in Stores /\ After(o.action) \in StoreStatuses
    BY FormParts DEF After, StoreStatuses
  <2>2. store' \in [Stores -> StoreStatuses]
    BY <1>10, <2>1 DEF ExecuteLifecycle, AccessTypeOK
  <2>3. orders' \subseteq [order : Orders, answer : {"ok", "denied"}]
    BY <1>10 DEF ExecuteLifecycle, AccessTypeOK
  <2> QED BY <1>10, <2>2, <2>3 DEF ExecuteLifecycle, request, AccessTypeOK
<1>11. CASE UNCHANGED accessVars
  BY <1>11 DEF accessVars, request, AccessTypeOK
<1> QED BY <1>1, <1>2, <1>3, <1>4, <1>5, <1>6, <1>7, <1>8, <1>9, <1>10, <1>11 DEF AccessNext

-----------------------------------------------------------------------------
\* Before the first request nothing is decided or pending.
LEMMA AccessInitInv == AccessInit => AccessInv
BY DEF AccessInit, AccessInv, RetryAnswersAsFirst, OneInvitation, ChangeFits, AnswerKept,
   RecordedByAdmin, Pending

\* A request that is not between decision and commit after its step disturbs nobody, as
\* long as it writes nothing.
LEMMA QuietStep ==
    ASSUME AccessTypeOK, AccessInv, NEW g \in Requests, UNCHANGED <<member, receipts>>,
           ~Pending(g)',
           \A h \in Requests \ {g} : /\ phase'[h] = phase[h] /\ form'[h] = form[h]
                                     /\ context'[h] = context[h] /\ answer'[h] = answer[h]
                                     /\ change'[h] = change[h],
           phase'[g] = "answered" => answer'[g] = "failed"
    PROVE  AccessInv'
<1>1. \A h \in Requests : Pending(h)' => h # g /\ Pending(h)
  BY DEF Pending
<1>2. \A f, t : Receipt(f, t)' = Receipt(f, t)
  BY DEF Receipt
<1>3. \A t : Admins(t)' = Admins(t) /\ AtMostOneAdmin(t)' = AtMostOneAdmin(t)
  BY DEF Admins, AtMostOneAdmin
<1>4. RetryAnswersAsFirst'
  <2> SUFFICES ASSUME NEW h \in Requests, phase'[h] = "answered", answer'[h] # "failed",
                      context'[h] # Nobody
               PROVE  (\E r \in Receipt(form[h], context[h].store) :
                          answer[h] \in {r.answer, "ATTEMPT_CONFLICT"})'
    BY DEF RetryAnswersAsFirst
  <2>1. h # g
    OBVIOUS
  <2>2. PICK f, t : f = form[h] /\ t = context[h].store
    OBVIOUS
  <2>3. f = form'[h] /\ t = context'[h].store
    BY <2>1, <2>2
  <2>4. \E r \in Receipt(f, t) : answer[h] \in {r.answer, "ATTEMPT_CONFLICT"}
    BY <2>1, <2>2 DEF AccessInv, RetryAnswersAsFirst
  <2> QED BY <1>2, <2>1, <2>3, <2>4
<1>5. OneInvitation'
  BY <1>1 DEF AccessInv, OneInvitation
<1>6. ChangeFits'
  <2> SUFFICES ASSUME NEW h \in Requests, Pending(h)', change'[h] # Nobody
               PROVE  (LET f == form[h]
                           t == context[h].store
                           m == member[f.target]
                       IN /\ answer[h] = "ok" /\ Receipt(f, t) = {} /\ change[h].store = t
                          /\ IF f.action = "MEMBER_INVITED"
                             THEN m # Nobody => m.store = t /\ m.status = "SUSPENDED"
                             ELSE /\ m # Nobody /\ m.store = t
                                  /\ m.role = "TENANT_ADMIN" => ~AtMostOneAdmin(t))'
    BY DEF ChangeFits
  <2>1. h # g /\ Pending(h)
    BY <1>1
  <2>2. PICK f, t, m : f = form[h] /\ t = context[h].store /\ m = member[f.target]
    OBVIOUS
  <2>3. f = form'[h] /\ t = context'[h].store /\ m = member'[f.target]
    BY <2>1, <2>2
  <2>4. /\ answer[h] = "ok" /\ Receipt(f, t) = {} /\ change[h].store = t
        /\ IF f.action = "MEMBER_INVITED"
           THEN m # Nobody => m.store = t /\ m.status = "SUSPENDED"
           ELSE /\ m # Nobody /\ m.store = t
                /\ m.role = "TENANT_ADMIN" => ~AtMostOneAdmin(t)
    BY <2>1, <2>2 DEF AccessInv, ChangeFits
  <2>5. /\ answer'[h] = "ok" /\ Receipt(f, t)' = {} /\ change'[h].store = t
        /\ AtMostOneAdmin(t)' = AtMostOneAdmin(t)
    BY <1>2, <1>3, <2>1, <2>4
  <2> QED BY <2>3, <2>4, <2>5
<1>7. AnswerKept'
  <2> SUFFICES ASSUME NEW h \in Requests, Pending(h)'
               PROVE  (LET same == Receipt(form[h], context[h].store)
                       IN /\ same = {} => answer[h] # "ATTEMPT_CONFLICT"
                          /\ same # {} => \E r \in same :
                                answer[h] \in {r.answer, "ATTEMPT_CONFLICT"})'
    BY DEF AnswerKept
  <2>1. h # g /\ Pending(h)
    BY <1>1
  <2>2. PICK f, t : f = form[h] /\ t = context[h].store
    OBVIOUS
  <2>3. f = form'[h] /\ t = context'[h].store
    BY <2>1, <2>2
  <2>4. /\ Receipt(f, t) = {} => answer[h] # "ATTEMPT_CONFLICT"
        /\ Receipt(f, t) # {} => \E r \in Receipt(f, t) :
              answer[h] \in {r.answer, "ATTEMPT_CONFLICT"}
    BY <2>1, <2>2 DEF AccessInv, AnswerKept
  <2> QED BY <1>2, <2>1, <2>3, <2>4
<1>8. RecordedByAdmin'
  <2> SUFFICES ASSUME NEW h \in Requests, phase'[h] = "recorded", change'[h] # Nobody
               PROVE  (form[h].actor \in Admins(context[h].store))'
    BY DEF RecordedByAdmin
  <2>1. h # g
    BY <1>1 DEF Pending
  <2>2. PICK u, t : u = form[h].actor /\ t = context[h].store
    OBVIOUS
  <2>3. u \in Admins(t)
    BY <2>1, <2>2 DEF AccessInv, RecordedByAdmin
  <2> QED BY <1>3, <2>1, <2>2, <2>3
<1> QED BY <1>4, <1>5, <1>6, <1>7, <1>8 DEF AccessInv

\* A Super Admin moves stores only, which nothing here looks at.
LEMMA ExecuteKeeps ==
    ASSUME AccessInv, UNCHANGED <<member, receipts, request>>
    PROVE  AccessInv'
BY DEF AccessInv, request, RetryAnswersAsFirst, OneInvitation, ChangeFits, AnswerKept,
   RecordedByAdmin, Pending, Receipt, Admins, AtMostOneAdmin

\* A decision is taken under the locks of its store, on what is committed.
LEMMA DecideKeeps ==
    ASSUME AccessTypeOK, AccessInv, NEW g \in Requests, DecideGovernance(g)
    PROVE  AccessInv'
<1>1. PICK f, t, m, role, a : /\ f = form[g] /\ t = context[g].store /\ role = context[g].role
                              /\ m = member[f.target] /\ a = Decision(f, t, role)
  OBVIOUS
<1>2. /\ phase[g] = "locked" /\ phase'[g] = "written" /\ f \in Forms /\ t \in Stores
      /\ f = form'[g] /\ t = context'[g].store /\ m = member'[f.target] /\ answer'[g] = a
      /\ change'[g] = IF a = "ok" /\ Receipt(f, t) = {} THEN Changed(f, t) ELSE Nobody
      /\ f.action = "MEMBER_INVITED" => ~InviteUnderWay(f.target)
      /\ UNCHANGED <<store, member, receipts, form, context>>
      /\ \A h \in Requests \ {g} : /\ phase'[h] = phase[h] /\ answer'[h] = answer[h]
                                   /\ change'[h] = change[h]
  BY <1>1, RequestParts DEF DecideGovernance, AccessTypeOK
<1>3. \A h \in Requests : Pending(h)' => h = g \/ Pending(h)
  BY <1>2 DEF Pending
<1>4. \A e, s : Receipt(e, s)' = Receipt(e, s)
  BY <1>2 DEF Receipt
<1>5. \A s : Admins(s)' = Admins(s) /\ AtMostOneAdmin(s)' = AtMostOneAdmin(s)
  BY <1>2 DEF Admins, AtMostOneAdmin
<1>6. RetryAnswersAsFirst'
  BY <1>2, <1>4 DEF AccessInv, RetryAnswersAsFirst, Receipt
<1>7. OneInvitation'
  <2> SUFFICES ASSUME NEW h \in Requests, Pending(h)', h # g, f.action = "MEMBER_INVITED",
                      form'[h].action = "MEMBER_INVITED", form'[h].target = f.target
               PROVE  FALSE
    BY <1>2, <1>3 DEF AccessInv, OneInvitation
  <2>1. Pending(h) /\ form[h].action = "MEMBER_INVITED" /\ form[h].target = f.target
    BY <1>2, <1>3
  <2> QED BY <1>2, <2>1 DEF InviteUnderWay, Pending
<1>8. ChangeFits'
  <2>1. ASSUME change'[g] # Nobody
        PROVE  /\ a = "ok" /\ Receipt(f, t) = {} /\ change'[g].store = t
               /\ IF f.action = "MEMBER_INVITED"
                  THEN m # Nobody => m.store = t /\ m.status = "SUSPENDED"
                  ELSE /\ m # Nobody /\ m.store = t
                       /\ m.role = "TENANT_ADMIN" => ~AtMostOneAdmin(t)
    <3>1. a = "ok" /\ Receipt(f, t) = {} /\ change'[g] = Changed(f, t)
      BY <1>2, <2>1
    <3>2. change'[g].store = t
      <4>1. Decision(f, t, role) = "ok" /\ f \in Forms /\ t \in Stores
        BY <1>1, <1>2, <3>1
      <4>2. Changed(f, t).store = t
        BY <3>1, <4>1, DecisionType
      <4> QED BY <3>1, <4>2
    <3>3. m # Nobody => m \in Memberships
      BY <1>1, <1>2, FormParts, RequestParts
    <3>4. m # Nobody /\ m.status # "ACTIVE" => m.status = "SUSPENDED"
      BY <3>3, MembershipParts
    <3>5. IF f.action = "MEMBER_INVITED"
          THEN m # Nobody => m.store = t /\ m.status # "ACTIVE"
          ELSE /\ m # Nobody /\ m.store = t
               /\ m.role = "TENANT_ADMIN" => ~AtMostOneAdmin(t)
      <4>1. Decision(f, t, role) = "ok" /\ f \in Forms /\ m = member[f.target]
        BY <1>1, <1>2, <3>1
      <4>2. IF f.action = "MEMBER_INVITED"
            THEN member[f.target] # Nobody =>
                   member[f.target].store = t /\ member[f.target].status # "ACTIVE"
            ELSE /\ member[f.target] # Nobody /\ member[f.target].store = t
                 /\ member[f.target].role = "TENANT_ADMIN" => ~AtMostOneAdmin(t)
        BY <3>1, <4>1, DecisionFresh
      <4> QED BY <4>1, <4>2
    <3> QED BY <3>1, <3>2, <3>4, <3>5
  <2>2. ASSUME NEW h \in Requests, Pending(h)', change'[h] # Nobody
        PROVE  (LET e == form[h]
                    s == context[h].store
                    n == member[e.target]
                IN /\ answer[h] = "ok" /\ Receipt(e, s) = {} /\ change[h].store = s
                   /\ IF e.action = "MEMBER_INVITED"
                      THEN n # Nobody => n.store = s /\ n.status = "SUSPENDED"
                      ELSE /\ n # Nobody /\ n.store = s
                           /\ n.role = "TENANT_ADMIN" => ~AtMostOneAdmin(s))'
    <3>1. CASE h = g
      BY <1>2, <1>4, <1>5, <2>1, <2>2, <3>1
    <3>2. CASE h # g
      <4>1. Pending(h) /\ change[h] # Nobody
        BY <1>2, <1>3, <2>2, <3>2
      <4>2. PICK e, s, n : e = form[h] /\ s = context[h].store /\ n = member[e.target]
        OBVIOUS
      <4>3. e = form'[h] /\ s = context'[h].store /\ n = member'[e.target]
        BY <1>2, <4>2
      <4>4. /\ answer[h] = "ok" /\ Receipt(e, s) = {} /\ change[h].store = s
            /\ IF e.action = "MEMBER_INVITED"
               THEN n # Nobody => n.store = s /\ n.status = "SUSPENDED"
               ELSE /\ n # Nobody /\ n.store = s
                    /\ n.role = "TENANT_ADMIN" => ~AtMostOneAdmin(s)
        BY <4>1, <4>2 DEF AccessInv, ChangeFits
      <4>5. /\ answer'[h] = "ok" /\ Receipt(e, s)' = {} /\ change'[h].store = s
            /\ AtMostOneAdmin(s)' = AtMostOneAdmin(s)
        BY <1>2, <1>4, <1>5, <3>2, <4>4
      <4> QED BY <4>3, <4>4, <4>5
    <3> QED BY <3>1, <3>2
  <2> QED BY <2>2 DEF ChangeFits
<1>9. AnswerKept'
  <2>1. /\ Receipt(f, t) = {} => a # "ATTEMPT_CONFLICT"
        /\ Receipt(f, t) # {} => \E r \in Receipt(f, t) : a \in {r.answer, "ATTEMPT_CONFLICT"}
    BY <1>1, <1>2, DecisionFresh, DecisionRepeats
  <2>2. ASSUME NEW h \in Requests, Pending(h)'
        PROVE  (LET same == Receipt(form[h], context[h].store)
                IN /\ same = {} => answer[h] # "ATTEMPT_CONFLICT"
                   /\ same # {} => \E r \in same :
                         answer[h] \in {r.answer, "ATTEMPT_CONFLICT"})'
    <3>1. CASE h = g
      BY <1>2, <1>4, <2>1, <3>1
    <3>2. CASE h # g
      <4>1. Pending(h)
        BY <1>3, <2>2, <3>2
      <4>2. PICK e, s : e = form[h] /\ s = context[h].store
        OBVIOUS
      <4>3. /\ Receipt(e, s) = {} => answer[h] # "ATTEMPT_CONFLICT"
            /\ Receipt(e, s) # {} => \E r \in Receipt(e, s) :
                  answer[h] \in {r.answer, "ATTEMPT_CONFLICT"}
        BY <4>1, <4>2 DEF AccessInv, AnswerKept
      <4> QED BY <1>2, <1>4, <3>2, <4>2, <4>3
    <3> QED BY <3>1, <3>2
  <2> QED BY <2>2 DEF AnswerKept
<1>10. RecordedByAdmin'
  BY <1>2, <1>5 DEF AccessInv, RecordedByAdmin, Admins
<1> QED BY <1>6, <1>7, <1>8, <1>9, <1>10 DEF AccessInv

\* Writing the receipt of a decision changes nothing that others read.
LEMMA RecordKeeps ==
    ASSUME AccessTypeOK, AccessInv, NEW g \in Requests, RecordGovernance(g)
    PROVE  AccessInv'
<1>1. /\ phase[g] = "written" /\ phase'[g] = "recorded"
      /\ UNCHANGED <<store, member, receipts, form, context, answer, change>>
      /\ \A h \in Requests \ {g} : phase'[h] = phase[h]
  BY DEF RecordGovernance, AccessTypeOK
<1>2. \A h \in Requests : Pending(h)' = Pending(h)
  BY <1>1 DEF Pending
<1>3. RetryAnswersAsFirst' /\ OneInvitation'
  BY <1>1, <1>2 DEF AccessInv, RetryAnswersAsFirst, OneInvitation, Receipt
<1>4. ChangeFits' /\ AnswerKept'
  BY <1>1, <1>2 DEF AccessInv, ChangeFits, AnswerKept, Receipt, Admins, AtMostOneAdmin
<1>5. RecordedByAdmin'
  <2>1. ASSUME change[g] # Nobody PROVE form[g].actor \in Admins(context[g].store)
    <3>1. answer[g] = "ok" /\ Receipt(form[g], context[g].store) = {}
      BY <1>1, <2>1 DEF AccessInv, ChangeFits, Pending
    <3>2. AuditWritten(g) /\ answer[g] \notin Unresolved
      BY <3>1 DEF AuditWritten, Unresolved
    <3> QED BY <3>2 DEF RecordGovernance, Authorized
  <2> QED BY <1>1, <2>1 DEF AccessInv, RecordedByAdmin, Admins
<1> QED BY <1>3, <1>4, <1>5 DEF AccessInv

-----------------------------------------------------------------------------
(* The commit *)

\* What a commit changes in who governs a store: nothing in the other stores, and this one
\* keeps an admin; who asked for the change is one.
LEMMA CommitMoves ==
    ASSUME AccessTypeOK, AccessInv, NEW g \in Requests, CommitGovernance(g),
           NEW t, t = context[g].store
    PROVE  /\ \A s \in Stores \ {t} : Admins(s)' = Admins(s)
           /\ Admins(t) # {} => Admins(t)' # {}
           /\ member' # member => form[g].actor \in Admins(t)
           /\ change[g] # Nobody =>
                 /\ form[g].target \in Users
                 /\ member' = [member EXCEPT ![form[g].target] = change[g]]
           /\ change[g] = Nobody => member' = member
<1>1. PICK f, u, m, c : /\ f = form[g] /\ u = f.target /\ m = member[u] /\ c = change[g]
  OBVIOUS
<1>2. /\ f \in Forms /\ u \in Users /\ t \in Stores /\ phase[g] = "recorded" /\ Pending(g)
      /\ member' = IF c = Nobody THEN member ELSE [member EXCEPT ![u] = c]
      /\ DOMAIN member = Users
  BY <1>1, RequestParts, FormParts DEF CommitGovernance, AccessTypeOK, Pending
<1>3. CASE c = Nobody
  BY <1>1, <1>2, <1>3 DEF Admins
<1>4. CASE c # Nobody
  <2>1. /\ c.store = t
        /\ IF f.action = "MEMBER_INVITED"
           THEN m # Nobody => m.store = t /\ m.status = "SUSPENDED"
           ELSE /\ m # Nobody /\ m.store = t
                /\ m.role = "TENANT_ADMIN" => ~AtMostOneAdmin(t)
    BY <1>1, <1>2, <1>4 DEF AccessInv, ChangeFits
  <2>2. \A v \in Users : v # u => member'[v] = member[v]
    BY <1>2
  <2>3. member'[u] = c /\ member[u] = m
    BY <1>1, <1>2, <1>4
  <2>4. ASSUME NEW s \in Stores \ {t} PROVE Admins(s)' = Admins(s)
    <3>1. u \notin Admins(s)
      BY <2>1, <2>3 DEF Admins
    <3>2. u \notin Admins(s)'
      BY <2>1, <2>3 DEF Admins
    <3>3. \A v \in Users \ {u} : v \in Admins(s)' <=> v \in Admins(s)
      BY <2>2 DEF Admins
    <3>4. Admins(s) \subseteq Users /\ Admins(s)' \subseteq Users
      BY DEF Admins
    <3> QED BY <3>1, <3>2, <3>3, <3>4
  <2>5. ASSUME Admins(t) # {} PROVE Admins(t)' # {}
    <3>1. PICK v \in Users : v \in Admins(t) /\ v # u
      <4>1. CASE u \in Admins(t)
        <5>1. m # Nobody /\ m.role = "TENANT_ADMIN" /\ m.status = "ACTIVE"
          BY <2>3, <4>1 DEF Admins
        <5>2. ~AtMostOneAdmin(t)
          BY <2>1, <5>1
        <5>3. ~(Admins(t) \subseteq {u}) /\ Admins(t) \subseteq Users
          BY <1>2, <5>2 DEF AtMostOneAdmin, Admins
        <5> QED BY <5>3
      <4>2. CASE u \notin Admins(t)
        BY <2>5, <4>2 DEF Admins
      <4> QED BY <4>1, <4>2
    <3>2. v \in Admins(t)'
      BY <2>2, <3>1 DEF Admins
    <3> QED BY <3>2
  <2>6. form[g].actor \in Admins(t)
    BY <1>1, <1>2, <1>4 DEF AccessInv, RecordedByAdmin
  <2> QED BY <1>1, <1>2, <1>4, <2>4, <2>5, <2>6
<1> QED BY <1>3, <1>4

\* What a commit leaves to the others that have decided: their receipts, and the user that
\* they are about to change.
LEMMA CommitSpares ==
    ASSUME AccessTypeOK, AccessInv, NEW g \in Requests, CommitGovernance(g),
           NEW h \in Requests, h # g, Pending(h), NEW f, NEW t, NEW u,
           f = form[h], t = context[h].store, u = f.target
    PROVE  /\ f = form'[h] /\ t = context'[h].store /\ f \in Forms /\ t \in Stores /\ u \in Users
           /\ phase'[h] = phase[h] /\ answer'[h] = answer[h] /\ change'[h] = change[h]
           /\ Receipt(f, t)' = Receipt(f, t)
           /\ change[h] # Nobody => member'[u] = member[u]
           /\ Admins(t)' = Admins(t)
<1>1. PICK e, s, v, m : /\ e = form[g] /\ s = context[g].store /\ v = e.target /\ m = member[v]
  OBVIOUS
<1>2. /\ phase[g] = "recorded" /\ Pending(g) /\ e \in Forms /\ s \in Stores /\ v \in Users
      /\ answer[g] \in Answers
  BY <1>1, RequestParts, FormParts DEF CommitGovernance, Pending
<1>3. t # s /\ f \in Forms /\ t \in Stores /\ u \in Users
  BY <1>1, <1>2, PendingApart, RequestParts, FormParts DEF Pending
<1>4. /\ UNCHANGED <<store, form, context, answer>>
      /\ phase'[h] = phase[h] /\ change'[h] = change[h]
  BY DEF CommitGovernance, AccessTypeOK
<1>5. Receipt(f, t)' = Receipt(f, t)
  <2>1. receipts' = receipts \/ receipts' = receipts \cup {NewReceipt(e, s, answer[g])}
    BY <1>1 DEF CommitGovernance
  <2>2. NewReceipt(e, s, answer[g]).store # t
    BY <1>2, <1>3, NewReceiptType
  <2> QED BY <2>1, <2>2 DEF Receipt
<1>6. ASSUME change[h] # Nobody PROVE member'[u] = member[u]
  <2>1. CASE change[g] = Nobody
    BY <1>1, <2>1, CommitMoves
  <2>2. CASE change[g] # Nobody
    <3>1. IF e.action = "MEMBER_INVITED" THEN m # Nobody => m.store = s
          ELSE m # Nobody /\ m.store = s
      BY <1>1, <1>2, <2>2 DEF AccessInv, ChangeFits
    <3>2. IF f.action = "MEMBER_INVITED" THEN member[u] # Nobody => member[u].store = t
          ELSE member[u] # Nobody /\ member[u].store = t
      BY <1>6 DEF AccessInv, ChangeFits
    <3>3. u # v
      <4> SUFFICES ASSUME u = v PROVE FALSE
        OBVIOUS
      <4>1. e.action = "MEMBER_INVITED" /\ f.action = "MEMBER_INVITED"
        BY <1>1, <1>3, <3>1, <3>2
      <4> QED BY <1>1, <1>2, <4>1 DEF AccessInv, OneInvitation
    <3>4. member' = [member EXCEPT ![v] = change[g]]
      BY <1>1, <2>2, CommitMoves
    <3> QED BY <1>3, <3>3, <3>4 DEF AccessTypeOK
  <2> QED BY <2>1, <2>2
<1>7. Admins(t)' = Admins(t)
  BY <1>1, <1>3, CommitMoves
<1> QED BY <1>3, <1>4, <1>5, <1>6, <1>7

\* A commit brings what was decided: whoever else is inside decided about another store.
LEMMA CommitKeeps ==
    ASSUME AccessTypeOK, AccessInv, NEW g \in Requests, CommitGovernance(g)
    PROVE  AccessInv'
<1>1. /\ phase[g] = "recorded" /\ Pending(g) /\ phase'[g] = "answered"
      /\ UNCHANGED <<form, context, answer>> /\ change'[g] = Nobody
      /\ \A h \in Requests \ {g} : phase'[h] = phase[h] /\ change'[h] = change[h]
      /\ receipts \subseteq receipts'
  BY DEF CommitGovernance, AccessTypeOK, Pending
<1>2. \A h \in Requests : Pending(h)' <=> Pending(h) /\ h # g
  BY <1>1 DEF Pending
<1>3. \A f, t : Receipt(f, t) \subseteq Receipt(f, t)'
  BY <1>1 DEF Receipt
<1>4. RetryAnswersAsFirst'
  <2> SUFFICES ASSUME NEW h \in Requests, phase'[h] = "answered", answer'[h] # "failed",
                      context'[h] # Nobody
               PROVE  (\E r \in Receipt(form[h], context[h].store) :
                          answer[h] \in {r.answer, "ATTEMPT_CONFLICT"})'
    BY DEF RetryAnswersAsFirst
  <2>1. PICK f, t, a : f = form[h] /\ t = context[h].store /\ a = answer[h]
    OBVIOUS
  <2>2. f = form'[h] /\ t = context'[h].store /\ a = answer'[h]
    BY <1>1, <2>1
  <2>3. CASE h # g
    <3>1. \E r \in Receipt(f, t) : a \in {r.answer, "ATTEMPT_CONFLICT"}
      BY <1>1, <2>1, <2>3 DEF AccessInv, RetryAnswersAsFirst
    <3> QED BY <1>3, <2>2, <3>1
  <2>4. CASE h = g
    <3>1. /\ Receipt(f, t) = {} => a # "ATTEMPT_CONFLICT"
          /\ Receipt(f, t) # {} => \E r \in Receipt(f, t) : a \in {r.answer, "ATTEMPT_CONFLICT"}
      BY <1>1, <2>1, <2>4 DEF AccessInv, AnswerKept
    <3>2. f \in Forms /\ t \in Stores /\ a \in Answers
      BY <1>1, <2>1, <2>4, RequestParts
    <3>3. CASE Receipt(f, t) = {}
      <4>1. receipts' = receipts \cup {NewReceipt(f, t, a)}
        BY <2>1, <2>4, <3>1, <3>3 DEF CommitGovernance, AuditWritten
      <4>2. NewReceipt(f, t, a) \in Receipt(f, t)' /\ NewReceipt(f, t, a).answer = a
        BY <3>2, <4>1, NewReceiptType DEF Receipt
      <4> QED BY <2>2, <4>2
    <3>4. CASE Receipt(f, t) # {}
      BY <1>3, <2>2, <3>1, <3>4
    <3> QED BY <3>3, <3>4
  <2> QED BY <2>3, <2>4
<1>5. OneInvitation'
  BY <1>1, <1>2 DEF AccessInv, OneInvitation
<1>6. ChangeFits'
  <2> SUFFICES ASSUME NEW h \in Requests, Pending(h)', change'[h] # Nobody
               PROVE  (LET f == form[h]
                           t == context[h].store
                           m == member[f.target]
                       IN /\ answer[h] = "ok" /\ Receipt(f, t) = {} /\ change[h].store = t
                          /\ IF f.action = "MEMBER_INVITED"
                             THEN m # Nobody => m.store = t /\ m.status = "SUSPENDED"
                             ELSE /\ m # Nobody /\ m.store = t
                                  /\ m.role = "TENANT_ADMIN" => ~AtMostOneAdmin(t))'
    BY DEF ChangeFits
  <2>1. h # g /\ Pending(h) /\ change[h] # Nobody
    BY <1>1, <1>2
  <2>2. PICK f, t, u, m : /\ f = form[h] /\ t = context[h].store /\ u = f.target
                          /\ m = member[u]
    OBVIOUS
  <2>3. /\ answer[h] = "ok" /\ Receipt(f, t) = {} /\ change[h].store = t
        /\ IF f.action = "MEMBER_INVITED"
           THEN m # Nobody => m.store = t /\ m.status = "SUSPENDED"
           ELSE /\ m # Nobody /\ m.store = t
                /\ m.role = "TENANT_ADMIN" => ~AtMostOneAdmin(t)
    BY <2>1, <2>2 DEF AccessInv, ChangeFits
  <2>4. /\ f = form'[h] /\ t = context'[h].store /\ m = member'[u]
        /\ answer'[h] = "ok" /\ Receipt(f, t)' = {} /\ change'[h].store = t
        /\ Admins(t)' = Admins(t)
    BY <2>1, <2>2, <2>3, CommitSpares
  <2>5. AtMostOneAdmin(t)' = AtMostOneAdmin(t)
    BY <2>4 DEF AtMostOneAdmin
  <2> QED BY <2>2, <2>3, <2>4, <2>5
<1>7. AnswerKept'
  <2> SUFFICES ASSUME NEW h \in Requests, Pending(h)'
               PROVE  (LET same == Receipt(form[h], context[h].store)
                       IN /\ same = {} => answer[h] # "ATTEMPT_CONFLICT"
                          /\ same # {} => \E r \in same :
                                answer[h] \in {r.answer, "ATTEMPT_CONFLICT"})'
    BY DEF AnswerKept
  <2>1. h # g /\ Pending(h)
    BY <1>2
  <2>2. PICK f, t, u : f = form[h] /\ t = context[h].store /\ u = f.target
    OBVIOUS
  <2>3. /\ Receipt(f, t) = {} => answer[h] # "ATTEMPT_CONFLICT"
        /\ Receipt(f, t) # {} => \E r \in Receipt(f, t) :
              answer[h] \in {r.answer, "ATTEMPT_CONFLICT"}
    BY <2>1, <2>2 DEF AccessInv, AnswerKept
  <2>4. /\ f = form'[h] /\ t = context'[h].store /\ answer'[h] = answer[h]
        /\ Receipt(f, t)' = Receipt(f, t)
    BY <2>1, <2>2, CommitSpares
  <2> QED BY <2>3, <2>4
<1>8. RecordedByAdmin'
  <2> SUFFICES ASSUME NEW h \in Requests, phase'[h] = "recorded", change'[h] # Nobody
               PROVE  (form[h].actor \in Admins(context[h].store))'
    BY DEF RecordedByAdmin
  <2>1. h # g /\ Pending(h) /\ phase[h] = "recorded" /\ change[h] # Nobody
    BY <1>1 DEF Pending
  <2>2. PICK f, t, u : f = form[h] /\ t = context[h].store /\ u = f.target
    OBVIOUS
  <2>3. f.actor \in Admins(t)
    BY <2>1, <2>2 DEF AccessInv, RecordedByAdmin
  <2>4. f = form'[h] /\ t = context'[h].store /\ Admins(t)' = Admins(t)
    BY <2>1, <2>2, CommitSpares
  <2> QED BY <2>3, <2>4
<1> QED BY <1>4, <1>5, <1>6, <1>7, <1>8 DEF AccessInv

-----------------------------------------------------------------------------
\* Every step keeps the invariant.
LEMMA AccessNextInv ==
    AccessTypeOK /\ AccessInv /\ [AccessNext]_accessVars => AccessInv'
<1> SUFFICES ASSUME AccessTypeOK, AccessInv, [AccessNext]_accessVars PROVE AccessInv'
  OBVIOUS
<1>1. ASSUME NEW g \in Requests, NEW f \in Forms, SendForm(g, f) PROVE AccessInv'
  BY <1>1, QuietStep DEF SendForm, AccessTypeOK, Pending
<1>2. ASSUME NEW g \in Requests, BeginGovernance(g) PROVE AccessInv'
  BY <1>2, QuietStep DEF BeginGovernance, AccessTypeOK, Pending
<1>3. ASSUME NEW g \in Requests, ContextDenied(g) PROVE AccessInv'
  BY <1>3, QuietStep DEF ContextDenied, AccessTypeOK, Pending
<1>4. ASSUME NEW g \in Requests, LockGovernance(g) PROVE AccessInv'
  BY <1>4, QuietStep DEF LockGovernance, AccessTypeOK, Pending
<1>5. ASSUME NEW g \in Requests, AbortGovernance(g) PROVE AccessInv'
  BY <1>5, QuietStep DEF AbortGovernance, AccessTypeOK, Pending
<1>6. ASSUME NEW g \in Requests, ShowAnswer(g) PROVE AccessInv'
  BY <1>6, QuietStep DEF ShowAnswer, AccessTypeOK, Pending
<1>7. ASSUME NEW o \in Orders, ExecuteLifecycle(o) PROVE AccessInv'
  BY <1>7, ExecuteKeeps DEF ExecuteLifecycle
<1>8. CASE UNCHANGED accessVars
  BY <1>8, ExecuteKeeps DEF accessVars
<1> QED BY <1>1, <1>2, <1>3, <1>4, <1>5, <1>6, <1>7, <1>8, DecideKeeps, RecordKeeps,
           CommitKeeps DEF AccessNext

\* Only a commit changes who is a member, and only an order of a Super Admin a store.
LEMMA WhoWrites ==
    ASSUME [AccessNext]_accessVars
    PROVE  \/ UNCHANGED <<member, store>>
           \/ UNCHANGED store /\ \E g \in Requests : CommitGovernance(g)
           \/ UNCHANGED member /\ \E o \in Orders : ExecuteLifecycle(o)
BY DEF AccessNext, SendForm, BeginGovernance, ContextDenied, LockGovernance, DecideGovernance,
   RecordGovernance, AbortGovernance, CommitGovernance, ShowAnswer, ExecuteLifecycle, accessVars

\* What a step may do to stores and members, given the invariant.
LEMMA StepKeepsRules ==
    ASSUME AccessTypeOK, AccessInv, [AccessNext]_accessVars
    PROVE  /\ \A t \in Stores : Admins(t) # {} => Admins(t)' # {}
           /\ member' # member =>
                \E g \in Requests : /\ phase[g] = "recorded" /\ phase'[g] = "answered"
                                    /\ form[g].actor \in Admins(context[g].store)
           /\ \A t \in Stores : store'[t] # store[t] =>
                /\ store[t] # "ARCHIVED"
                /\ \E r \in orders' \ orders :
                      r.answer = "ok" /\ r.order.store = t
                      /\ store'[t] = After(r.order.action)
<1>1. CASE UNCHANGED <<member, store>>
  BY <1>1 DEF Admins
<1>2. ASSUME UNCHANGED store, NEW g \in Requests, CommitGovernance(g)
      PROVE  /\ \A t \in Stores : Admins(t) # {} => Admins(t)' # {}
             /\ member' # member => /\ phase[g] = "recorded" /\ phase'[g] = "answered"
                                    /\ form[g].actor \in Admins(context[g].store)
  <2>1. PICK t : t = context[g].store
    OBVIOUS
  <2>2. /\ \A s \in Stores \ {t} : Admins(s)' = Admins(s)
        /\ Admins(t) # {} => Admins(t)' # {}
        /\ member' # member => form[g].actor \in Admins(t)
    BY <1>2, <2>1, CommitMoves
  <2>3. phase[g] = "recorded" /\ phase'[g] = "answered"
    BY <1>2 DEF CommitGovernance, AccessTypeOK
  <2> QED BY <2>1, <2>2, <2>3
<1>3. ASSUME UNCHANGED member, NEW o \in Orders, ExecuteLifecycle(o)
      PROVE  /\ \A t \in Stores : Admins(t) # {} => Admins(t)' # {}
             /\ \A t \in Stores : store'[t] # store[t] =>
                  /\ store[t] # "ARCHIVED"
                  /\ \E r \in orders' \ orders :
                        r.answer = "ok" /\ r.order.store = t
                        /\ store'[t] = After(r.order.action)
  <2>1. \A t \in Stores : Admins(t)' = Admins(t)
    BY <1>3 DEF Admins
  <2>2. ASSUME NEW t \in Stores, store'[t] # store[t]
        PROVE  /\ store[t] # "ARCHIVED"
               /\ \E r \in orders' \ orders :
                     r.answer = "ok" /\ r.order.store = t /\ store'[t] = After(r.order.action)
    <3> DEFINE r == [order |-> o, answer |-> "ok"]
    <3>1. /\ store[o.store] \in Before(o.action) /\ orders' = orders \cup {r}
          /\ store' = [store EXCEPT ![o.store] = After(o.action)] /\ ~OrderSeen(o)
      BY <1>3, <2>2 DEF ExecuteLifecycle
    <3>2. t = o.store /\ store'[t] = After(o.action)
      BY <2>2, <3>1 DEF AccessTypeOK
    <3>3. "ARCHIVED" \notin Before(o.action)
      BY FormParts DEF Before
    <3>4. r.order = o /\ r.answer = "ok"
      OBVIOUS
    <3> HIDE DEF r
    <3>5. r \notin orders
      BY <3>1, <3>4 DEF OrderSeen
    <3> QED BY <3>1, <3>2, <3>3, <3>4, <3>5
  <2> QED BY <2>1, <2>2
<1> QED BY <1>1, <1>2, <1>3, WhoWrites

\* A request is where its lock says, and what it has read, decided and written is of the
\* kind the tables hold (tenants, memberships, audit_events).
THEOREM AccessTypeCorrect == AccessSpec => []AccessTypeOK
BY AccessInitType, AccessNextType, PTL DEF AccessSpec

\* The invariant on which governance rests: between decision and commit nothing that the
\* decision was taken on changes, although each store has a lock of its own and only the
\* address of a new member is locked across stores.
THEOREM AccessSound == AccessSpec => [](AccessTypeOK /\ AccessInv)
<1>1. AccessInit => AccessTypeOK /\ AccessInv
  BY AccessInitType, AccessInitInv
<1>2. AccessTypeOK /\ AccessInv /\ [AccessNext]_accessVars => (AccessTypeOK /\ AccessInv)'
  BY AccessNextType, AccessNextInv
<1> QED BY <1>1, <1>2, PTL DEF AccessSpec

\* A form sent again is answered as it was the first time or told of a conflict, never
\* judged anew: for any number of stores, users and requests.
THEOREM RetriesAnswered == AccessSpec => []RetryAnswersAsFirst
<1>1. AccessInv => RetryAnswersAsFirst
  BY DEF AccessInv
<1> QED BY <1>1, AccessSound, PTL

\* No store that has an admin is ever left without one, only admins govern, and a store moves
\* only with a new receipt of the lifecycle and never out of the archive.
THEOREM StoresRuled == AccessSpec => StoreRules
<1>1. AccessTypeOK /\ AccessInv /\ [AccessNext]_accessVars =>
        /\ [\A t \in Stores : Admins(t) # {} => Admins(t)' # {}]_accessVars
        /\ [member' # member =>
              \E g \in Requests : /\ phase[g] = "recorded" /\ phase'[g] = "answered"
                                  /\ form[g].actor \in Admins(context[g].store)]_accessVars
        /\ [\A t \in Stores : store'[t] # store[t] =>
              /\ store[t] # "ARCHIVED"
              /\ \E r \in orders' \ orders :
                    r.answer = "ok" /\ r.order.store = t
                    /\ store'[t] = After(r.order.action)]_accessVars
  BY StepKeepsRules
<1> QED BY <1>1, AccessSound, PTL
        DEF AccessSpec, StoreRules, AdminsNeverRunOut, OnlyAdminsGovern, StoreMovesWithReceipt
-----------------------------------------------------------------------------
(* How often somebody may make the program work (RateLimits) *)

\* A statement that counts a call leaves a row of this instant, within the limit.
LEMMA CountedRow ==
    ASSUME NEW row \in SlotRows \cup {NoRow}, row # NoRow => row.count \in 1 .. MaxCalls,
           NEW now \in Times, NEW new \in CountCall(row, now)
    PROVE  /\ new \in SlotRows /\ new # NoRow /\ new.count \in 1 .. MaxCalls /\ new.last = now
           /\ \/ new.count = 1 /\ (row = NoRow \/ row.last + Window <= now)
              \/ row # NoRow /\ new.count = row.count + 1
<1>1. MaxCalls \in Nat \ {0}
  BY RateAssumption
<1>2. new.last = now /\ new = [count |-> new.count, last |-> now]
  BY DEF CountCall
<1>3. new.count \in 1 .. MaxCalls
  BY <1>1 DEF CountCall, SlotRows
<1>4. \/ new.count = 1 /\ (row = NoRow \/ row.last + Window <= now)
      \/ row # NoRow /\ new.count = row.count + 1
  BY DEF CountCall
<1>5. new \in SlotRows
  BY <1>1, <1>2, <1>3 DEF SlotRows
<1> QED BY <1>2, <1>3, <1>4, <1>5, NoRowAssumption

\* A visit is counted in a window that is running, or begins one.
LEMMA CountedVisit ==
    ASSUME NEW row \in VisitorRows \cup {NoRow}, row # NoRow => row.count \in 1 .. MaxCalls + 1,
           NEW now \in Times
    PROVE  LET new == CountVisit(row, now)
           IN /\ new \in VisitorRows /\ new # NoRow /\ new.count \in 1 .. MaxCalls + 1
              /\ \/ /\ new.count = 1 /\ new.started = now
                    /\ row = NoRow \/ row.started + Window <= now
                 \/ /\ row # NoRow /\ new.started = row.started /\ now < row.started + Window
                    /\ new.count = IF row.count <= MaxCalls THEN row.count + 1 ELSE row.count
<1>1. MaxCalls \in Nat \ {0} /\ Window \in Nat /\ now \in Nat
  BY RateAssumption DEF Times
<1>2. CASE row = NoRow \/ row.started + Window <= now
  <2>1. CountVisit(row, now) = [count |-> 1, started |-> now]
    BY <1>2 DEF CountVisit
  <2>2. CountVisit(row, now) \in VisitorRows
    BY <2>1 DEF VisitorRows
  <2> QED BY <1>1, <1>2, <2>1, <2>2, NoRowAssumption
<1>3. CASE row # NoRow /\ ~(row.started + Window <= now)
  <2>1. row \in VisitorRows /\ row.count \in Nat /\ row.started \in Nat
    BY <1>3 DEF VisitorRows, Times
  <2>2. CountVisit(row, now)
          = [row EXCEPT !.count = IF row.count <= MaxCalls THEN row.count + 1 ELSE row.count]
    BY <1>3 DEF CountVisit
  <2>3. /\ CountVisit(row, now) \in VisitorRows
        /\ CountVisit(row, now).started = row.started
        /\ CountVisit(row, now).count
             = IF row.count <= MaxCalls THEN row.count + 1 ELSE row.count
    BY <2>1, <2>2 DEF VisitorRows
  <2>4. now < row.started + Window
    BY <1>1, <1>3, <2>1
  <2> QED BY <1>1, <1>3, <2>1, <2>3, <2>4, NoRowAssumption
<1> QED BY <1>2, <1>3

\* What happens at one instant adds nothing to a stretch it is not in, and to one it is in
\* no more than what comes after an entry that is a stretch older.
LEMMA LoggedNow ==
    ASSUME NEW log \in Seq(Times), NEW now \in Times, NEW n \in Nat, NEW limit \in Nat,
           NEW j \in 0 .. Len(log), Len(log) + 1 - j <= limit,
           \A i \in 1 .. j : log[i] + n <= now,
           \A t \in Times : During(log, t, n) <= limit
    PROVE  \A t \in Times : During(Append(log, now), t, n) <= limit
<1> SUFFICES ASSUME NEW t \in Times PROVE During(Append(log, now), t, n) <= limit
  OBVIOUS
<1> DEFINE new == Append(log, now)
           hits(l) == {i \in DOMAIN l : l[i] \in t .. t + n - 1}
<1>1. /\ t \in Nat /\ now \in Nat /\ Len(log) \in Nat /\ \A i \in 1 .. Len(log) : log[i] \in Nat
      /\ DOMAIN log = 1 .. Len(log) /\ DOMAIN new = 1 .. Len(log) + 1
      /\ new[Len(log) + 1] = now /\ \A i \in 1 .. Len(log) : new[i] = log[i]
  <2>1. Times \subseteq Nat /\ Len(log) \in Nat
    BY RateAssumption DEF Times
  <2>2. \A i \in 1 .. Len(log) : log[i] \in Times
    OBVIOUS
  <2>3. DOMAIN log = 1 .. Len(log) /\ new \in Seq(Times) /\ Len(new) = Len(log) + 1
    OBVIOUS
  <2>4. DOMAIN new = 1 .. Len(log) + 1
    BY <2>3
  <2>5. new[Len(log) + 1] = now
    OBVIOUS
  <2>6. \A i \in 1 .. Len(log) : new[i] = log[i]
    OBVIOUS
  <2> QED BY <2>1, <2>2, <2>3, <2>4, <2>5, <2>6
<1>2. CASE now \notin t .. t + n - 1
  <2>1. hits(new) = hits(log)
    BY <1>1, <1>2
  <2> QED BY <2>1 DEF During
<1>3. CASE now \in t .. t + n - 1
  <2>1. hits(new) \subseteq j + 1 .. Len(log) + 1
    <3> SUFFICES ASSUME NEW i \in 1 .. Len(log) + 1, new[i] \in t .. t + n - 1, i <= j
                 PROVE  FALSE
      BY <1>1
    <3>1. i \in 1 .. j /\ new[i] = log[i] /\ log[i] \in Nat
      BY <1>1
    <3> QED BY <1>1, <1>3, <3>1
  <2>2. /\ IsFiniteSet(j + 1 .. Len(log) + 1)
        /\ Cardinality(j + 1 .. Len(log) + 1) = Len(log) + 1 - j
    BY <1>1, FS_Interval
  <2>3. Cardinality(hits(new)) <= Len(log) + 1 - j /\ Cardinality(hits(new)) \in Nat
    BY <2>1, <2>2, FS_Subset, FS_CardinalityType
  <2>4. During(new, t, n) = Cardinality(hits(new))
    BY DEF During
  <2> HIDE DEF new, hits
  <2> QED BY <1>1, <2>3, <2>4 DEF new
<1> QED BY <1>2, <1>3

\* Nobody has called in the beginning.
LEMMA RateInitInv == RateInit => RateTypeOK /\ RateInv
<1> SUFFICES ASSUME RateInit PROVE RateTypeOK /\ RateInv
  OBVIOUS
<1>1. RateTypeOK
  BY RateAssumption DEF RateInit, RateTypeOK, Times
<1>2. NeverOverTheLimit /\ NeverThreeBursts
  <2>1. \A t \in Times : During(<<>>, t, Window - Delay) = 0
    <3>1. \A t \in Times : {i \in DOMAIN <<>> : <<>>[i] \in t .. t + (Window - Delay) - 1} = {}
      OBVIOUS
    <3> QED BY <3>1, FS_EmptySet DEF During
  <2> QED BY <2>1, RateAssumption DEF RateInit, NeverOverTheLimit, NeverThreeBursts
<1>3. DOMAIN windows = {} /\ Cardinality({}) = 0 /\ IsFiniteSet({})
  BY FS_EmptySet DEF RateInit
<1>4. MapIsBounded
  BY <1>3, RateAssumption DEF MapIsBounded
<1>5. ReadLately(called, Calls) /\ ReadLately(visited, Visits)
  BY DEF RateInit, ReadLately
<1>6. InOrder(admitted) /\ InOrder(received) /\ RowCountsLast /\ CountsFromRow /\ WindowCountsLast
  BY DEF RateInit, InOrder, RowCountsLast, CountsFromRow, WindowCountsLast
<1> QED BY <1>1, <1>2, <1>3, <1>4, <1>5, <1>6 DEF RateInv, LimitsHold

\* The constants are what clocks and counters are.
LEMMA RateNumbers ==
    /\ MaxCalls \in Nat \ {0} /\ Window \in Nat \ {0} /\ Delay \in Nat /\ Window - Delay \in Nat
    /\ MaxReaders \in Nat \ {0} /\ Times \subseteq Nat /\ Horizon \in Nat
BY RateAssumption DEF Times

\* A log with one more instant at its end.
LEMMA LogGrows ==
    ASSUME NEW log \in Seq(Times), InOrder(log), clock \in Times
    PROVE  /\ Len(log) \in Nat /\ Len(Append(log, clock)) = Len(log) + 1
           /\ Append(log, clock) \in Seq(Times)
           /\ Append(log, clock)[Len(log) + 1] = clock
           /\ \A i \in 1 .. Len(log) : /\ Append(log, clock)[i] = log[i]
                                       /\ log[i] \in Nat /\ log[i] <= clock
           /\ clock' = clock => InOrder(Append(log, clock))'
<1> DEFINE new == Append(log, clock)
<1>1. DOMAIN log = 1 .. Len(log) /\ Len(log) \in Nat
  OBVIOUS
<1>2. new \in Seq(Times) /\ Len(new) = Len(log) + 1
  OBVIOUS
<1>3. DOMAIN new = 1 .. Len(log) + 1
  BY <1>2
<1>4. new[Len(log) + 1] = clock
  OBVIOUS
<1>5. \A i \in 1 .. Len(log) : new[i] = log[i] /\ log[i] \in Times
  OBVIOUS
<1>6. \A i \in 1 .. Len(log) : log[i] <= clock /\ log[i] \in Nat
  BY <1>1, <1>5, RateNumbers DEF InOrder
<1>7. \A i, j \in 1 .. Len(log) : i <= j => log[i] <= log[j]
  BY <1>1 DEF InOrder
<1> HIDE DEF new
<1>8. \A i, j \in DOMAIN new : i <= j => new[i] <= new[j]
  <2> SUFFICES ASSUME NEW i \in 1 .. Len(log) + 1, NEW j \in 1 .. Len(log) + 1, i <= j
               PROVE  new[i] <= new[j]
    BY <1>3
  <2>1. CASE j = Len(log) + 1
    BY <1>4, <1>5, <1>6, <2>1, RateNumbers
  <2>2. CASE j # Len(log) + 1
    BY <1>1, <1>5, <1>7, <2>2
  <2> QED BY <2>1, <2>2
<1>9. \A i \in DOMAIN new : new[i] <= clock
  BY <1>3, <1>4, <1>5, <1>6, RateNumbers
<1>10. clock' = clock => InOrder(new)'
  <2> USE DEF new
  <2> QED BY <1>8, <1>9 DEF InOrder
<1> QED BY <1>1, <1>2, <1>4, <1>5, <1>6, <1>10 DEF new

\* A call that commits is logged now, within the limit of every stretch: either the row
\* begins again, and all before is nearly a window old, or it counts one more.
LEMMA AdmittedKeeps ==
    ASSUME RateTypeOK, RateInv, NEW c \in Calls, CallAdmitted(c)
    PROVE  /\ slot' \in SlotRows /\ slot'.count \in 1 .. MaxCalls /\ slot'.last <= clock
           /\ admitted' \in Seq(Times) /\ InOrder(admitted)' /\ RowCountsLast'
           /\ NeverOverTheLimit'
<1> DEFINE n == Len(admitted)
           row == counting[c]
           now == called[c]
<1>1. /\ slot' = row /\ clock' = clock /\ admitted' = Append(admitted, clock)
      /\ row \in CountCall(slot, now) /\ now \in Times /\ now <= clock /\ clock <= now + Delay
  BY DEF CallAdmitted, RateTypeOK, RateInv, CountsFromRow, ReadLately
<1>2. /\ n \in Nat /\ clock \in Nat /\ now \in Nat
      /\ Len(admitted') = n + 1 /\ admitted' \in Seq(Times) /\ admitted'[n + 1] = clock
      /\ \A i \in 1 .. n : admitted'[i] = admitted[i] /\ admitted[i] \in Nat /\ admitted[i] <= clock
      /\ InOrder(admitted)'
  BY <1>1, LogGrows, RateNumbers DEF RateTypeOK, RateInv
<1>3. /\ row \in SlotRows /\ row # NoRow /\ row.count \in 1 .. MaxCalls /\ row.last = now
      /\ \/ row.count = 1 /\ (slot = NoRow \/ slot.last + Window <= now)
         \/ slot # NoRow /\ row.count = slot.count + 1
  BY <1>1, CountedRow DEF RateTypeOK
<1>4. slot # NoRow => slot.count \in Nat /\ slot.count # 0 /\ slot.last \in Nat
  <2> SUFFICES ASSUME slot # NoRow
               PROVE  slot.count \in Nat /\ slot.count # 0 /\ slot.last \in Nat
    OBVIOUS
  <2>1. slot \in SlotRows /\ slot.count \in 1 .. MaxCalls
    BY DEF RateTypeOK
  <2>2. slot.last \in Times
    BY <2>1 DEF SlotRows
  <2>3. slot.last \in Nat
    BY <2>2, RateNumbers
  <2>4. \A k \in 1 .. MaxCalls : k \in Nat /\ k # 0
    BY RateNumbers
  <2> QED BY <2>1, <2>3, <2>4
\* The first call of the window came nearly a window after the one before.
<1>5. \E j \in 0 .. n : /\ j + row.count = n + 1
                        /\ j > 0 => admitted'[j] + Window <= admitted'[j + 1] + Delay
  <2>1. CASE slot = NoRow
    <3>1. n = 0 /\ row.count = 1
      BY <1>3, <2>1 DEF RateInv, RowCountsLast
    <3> HIDE DEF n
    <3> QED BY <3>1
  <2>2. CASE slot # NoRow /\ row.count = 1 /\ slot.last + Window <= now
    <3>1. PICK j \in 0 .. n : j + slot.count = n
      BY <2>2 DEF RateInv, RowCountsLast
    <3>2. admitted[n] <= slot.last + Delay
      BY <2>2 DEF RateInv, RowCountsLast
    <3> HIDE DEF n, now, row
    <3>3. n \in 1 .. n
      BY <1>2, <1>4, <2>2, <3>1
    <3>4. admitted'[n] + Window <= admitted'[n + 1] + Delay
      BY <1>1, <1>2, <1>4, <2>2, <3>2, <3>3, RateNumbers
    <3> QED BY <1>2, <2>2, <3>4
  <2>3. CASE slot # NoRow /\ row.count = slot.count + 1
    <3>1. PICK j \in 0 .. n : /\ j + slot.count = n
                              /\ j > 0 => admitted[j] + Window <= admitted[j + 1] + Delay
      BY <2>3 DEF RateInv, RowCountsLast
    <3> HIDE DEF n, now, row
    <3>2. j + row.count = n + 1
      BY <1>2, <1>4, <2>3, <3>1
    <3>3. j + 1 \in 1 .. n /\ (j > 0 => j \in 1 .. n)
      BY <1>2, <1>4, <2>3, <3>1
    <3> QED BY <1>2, <3>1, <3>2, <3>3
  <2> QED BY <1>3, <2>1, <2>2, <2>3
<1> HIDE DEF n, row, now
<1>6. PICK j \in 0 .. n : /\ j + row.count = n + 1
                          /\ j > 0 => admitted'[j] + Window <= admitted'[j + 1] + Delay
  BY <1>5
<1>7. RowCountsLast'
  <2>1. slot' # NoRow /\ slot'.count = row.count /\ slot'.last = now
    BY <1>1, <1>3
  <2>2. now <= admitted'[n + 1] /\ admitted'[n + 1] <= now + Delay /\ j \in 0 .. n + 1
    BY <1>1, <1>2
  <2> QED BY <1>2, <1>6, <2>1, <2>2 DEF RowCountsLast
<1>8. NeverOverTheLimit'
  <2>1. \A i \in 1 .. j : admitted[i] + (Window - Delay) <= clock
    <3> SUFFICES ASSUME NEW i \in 1 .. j PROVE admitted[i] + (Window - Delay) <= clock
      OBVIOUS
    <3>1. j > 0 /\ j \in 1 .. n /\ i \in 1 .. n /\ i <= j
      BY <1>2
    <3>2. admitted[i] <= admitted[j] /\ admitted[i] \in Nat /\ admitted[j] \in Nat
      <4>1. DOMAIN admitted = 1 .. n
        BY DEF RateTypeOK, n
      <4> QED BY <1>2, <3>1, <4>1 DEF RateInv, InOrder
    <3>3. j + 1 \in DOMAIN admitted' /\ admitted'[j + 1] \in Nat
      <4>1. DOMAIN admitted' = 1 .. n + 1
        BY <1>2
      <4>2. j + 1 \in 1 .. n + 1
        BY <1>2, <3>1
      <4>3. admitted'[j + 1] \in Times
        BY <1>2, <4>1, <4>2
      <4> QED BY <4>1, <4>2, <4>3, RateNumbers
    <3>4. admitted'[j + 1] <= clock
      BY <1>1, <1>2, <3>3 DEF InOrder
    <3>5. admitted[j] + Window <= admitted'[j + 1] + Delay
      BY <1>2, <1>6, <3>1
    <3> QED BY <1>2, <3>2, <3>3, <3>4, <3>5, RateNumbers
  <2>2. row.count <= MaxCalls /\ row.count \in Nat
    BY <1>3, RateNumbers
  <2>3. j \in 0 .. Len(admitted) /\ Len(admitted) + 1 - j <= MaxCalls
    BY <1>2, <1>6, <2>2 DEF n
  <2>4. \A t \in Times : During(admitted, t, Window - Delay) <= MaxCalls
    BY DEF RateInv, LimitsHold, NeverOverTheLimit
  <2>5. \A t \in Times : During(Append(admitted, clock), t, Window - Delay) <= MaxCalls
    BY <2>1, <2>3, <2>4, LoggedNow, RateNumbers DEF RateTypeOK
  <2> QED BY <1>1, <2>5 DEF NeverOverTheLimit, During
<1> QED BY <1>1, <1>2, <1>3, <1>7, <1>8 DEF row, now

\* A visit that is let through is logged now: in the running window, or in a new one, and
\* then the two windows before it are too far apart for one stretch.
LEMMA ReceivedKeeps ==
    ASSUME RateTypeOK, RateInv, NEW v \in Visits, ConsumePublicAuthRateLimit(v)
    PROVE  /\ visitors' \in VisitorRows /\ visitors'.count \in 1 .. MaxCalls + 1
           /\ visitors'.started <= clock
           /\ received' \in Seq(Times) /\ InOrder(received)' /\ WindowCountsLast'
           /\ NeverThreeBursts'
<1> DEFINE n == Len(received)
           old == visitors
           now == visited[v]
           new == CountVisit(old, now)
           capped(c) == IF c <= MaxCalls THEN c ELSE MaxCalls
           k == capped(old.count)
           next == capped(new.count)
<1>1. /\ visitors' = new /\ clock' = clock /\ now \in Times /\ now <= clock /\ clock <= now + Delay
      /\ received' = IF new.count <= MaxCalls THEN Append(received, clock) ELSE received
  BY DEF ConsumePublicAuthRateLimit, RateTypeOK, RateInv, ReadLately
<1>2. /\ n \in Nat /\ clock \in Nat /\ now \in Nat
      /\ \A i \in 1 .. n : received[i] \in Nat /\ received[i] <= clock
  BY <1>1, LogGrows, RateNumbers DEF RateTypeOK, RateInv
<1>3. /\ new \in VisitorRows /\ new # NoRow /\ new.count \in 1 .. MaxCalls + 1
      /\ \/ /\ new.count = 1 /\ new.started = now
            /\ old = NoRow \/ old.started + Window <= now
         \/ /\ old # NoRow /\ new.started = old.started /\ now < old.started + Window
            /\ new.count = IF old.count <= MaxCalls THEN old.count + 1 ELSE old.count
  BY <1>1, CountedVisit DEF RateTypeOK
<1>4. old # NoRow => /\ old.started \in Nat /\ old.started <= clock /\ old.count \in Nat
                     /\ 1 <= old.count /\ old.count <= MaxCalls + 1
  <2> SUFFICES ASSUME old # NoRow
               PROVE  /\ old.started \in Nat /\ old.started <= clock /\ old.count \in Nat
                      /\ 1 <= old.count /\ old.count <= MaxCalls + 1
    OBVIOUS
  <2>1. old \in VisitorRows /\ old.count \in 1 .. MaxCalls + 1 /\ old.started <= clock
    BY DEF RateTypeOK
  <2>2. old.started \in Times
    BY <2>1 DEF VisitorRows
  <2>3. old.started \in Nat
    BY <2>2, RateNumbers
  <2> QED BY <2>1, <2>3, RateNumbers
<1>5. new.started \in Nat /\ new.started <= clock /\ new.count \in Nat /\ new.count \in 1 .. MaxCalls + 1
  BY <1>1, <1>2, <1>3, <1>4, RateNumbers
\* The running window, and the ones before it.
<1>6. old = NoRow => n = 0
  BY DEF RateInv, WindowCountsLast
<1>7. old # NoRow => \E i \in 0 .. n, j \in 0 .. n :
                        /\ i + k = n /\ i <= j + MaxCalls
                        /\ \A l \in 1 .. n : received[l] < old.started + Window + Delay
                        /\ \A l \in 1 .. i : received[l] < old.started + Delay
                        /\ \A l \in 1 .. j : received[l] + Window < old.started + Delay
  BY DEF RateInv, WindowCountsLast
<1>8. NeverThreeBursts
  BY DEF RateInv, LimitsHold
<1>9. CASE new.count > MaxCalls
  <2>1. received' = received /\ old # NoRow /\ new.started = old.started /\ next = k
    BY <1>1, <1>3, <1>4, <1>5, <1>9, RateNumbers
  <2>2. NeverThreeBursts'
    BY <1>8, <2>1 DEF NeverThreeBursts, During
  <2>3. InOrder(received)' /\ received' \in Seq(Times)
    BY <1>1, <2>1 DEF InOrder, RateInv, RateTypeOK
  <2>4. WindowCountsLast'
    <3>1. /\ Len(received') = n /\ visitors' # NoRow /\ visitors'.started = old.started
          /\ capped(visitors'.count) = k
      BY <1>1, <1>3, <2>1
    <3> HIDE DEF n, k, old, new, now
    <3> QED BY <1>7, <2>1, <3>1 DEF WindowCountsLast
  <2> QED BY <1>1, <1>3, <1>5, <2>2, <2>3, <2>4
<1>10. CASE new.count <= MaxCalls
  <2>1. /\ received' = Append(received, clock) /\ next = new.count
        /\ next \in Nat /\ next >= 1 /\ next <= MaxCalls
    BY <1>1, <1>5, <1>10, RateNumbers
  <2>2. /\ Len(received') = n + 1 /\ received' \in Seq(Times) /\ received'[n + 1] = clock
        /\ \A i \in 1 .. n : received'[i] = received[i]
        /\ InOrder(received)'
    BY <1>1, <2>1, LogGrows DEF RateTypeOK, RateInv
  <2> DEFINE S == new.started
  <2>3. S \in Nat /\ S <= clock
    BY <1>5
  <2> HIDE DEF n, next, S
\* Where the new window, or the running one with one more, begins and what is before.
  <2>4. \E i \in 0 .. n, j \in 0 .. n :
           /\ i + next = n + 1 /\ i <= j + MaxCalls
           /\ clock < S + Window + Delay
           /\ \A l \in 1 .. n : received[l] < S + Window + Delay
           /\ \A l \in 1 .. i : received[l] < S + Delay
           /\ \A l \in 1 .. j : received[l] + Window < S + Delay
    <3>1. CASE old = NoRow
      <4>1. n = 0 /\ next = 1 /\ S = now
        BY <1>2, <1>3, <1>6, <2>1, <3>1 DEF S
      <4>2. clock < S + Window + Delay
        BY <1>1, <1>2, <4>1, RateNumbers
      <4> QED BY <4>1, <4>2, RateNumbers
    <3>2. CASE old # NoRow
      <4>1. PICK i \in 0 .. n, j \in 0 .. n :
               /\ i + k = n /\ i <= j + MaxCalls
               /\ \A l \in 1 .. n : received[l] < old.started + Window + Delay
               /\ \A l \in 1 .. i : received[l] < old.started + Delay
               /\ \A l \in 1 .. j : received[l] + Window < old.started + Delay
        BY <1>7, <3>2
      <4>2. k \in Nat /\ k <= MaxCalls /\ old.started \in Nat
        BY <1>4, <3>2, RateNumbers
      <4>3. CASE new.count = 1 /\ S = now /\ old.started + Window <= now
        <5>1. n + next = n + 1 /\ n <= i + MaxCalls
          BY <1>2, <2>1, <4>1, <4>2, <4>3, RateNumbers
        <5> HIDE DEF k, old, now
        <5>2. clock < S + Window + Delay
          BY <1>1, <1>2, <4>3, RateNumbers
        <5>3. \A l \in 1 .. n : received[l] < S + Delay
          BY <1>2, <4>1, <4>2, <4>3, RateNumbers
        <5>4. \A l \in 1 .. n : received[l] < S + Window + Delay
          BY <1>2, <4>3, <5>3, RateNumbers
        <5>5. \A l \in 1 .. i : received[l] + Window < S + Delay
          <6>1. \A l \in 1 .. i : l \in 1 .. n
            BY <1>2
          <6> QED BY <1>2, <4>1, <4>2, <4>3, <6>1, RateNumbers
        <5> QED BY <1>2, <5>1, <5>2, <5>3, <5>4, <5>5
      <4>4. CASE /\ new.started = old.started /\ now < old.started + Window
                 /\ new.count = IF old.count <= MaxCalls THEN old.count + 1 ELSE old.count
        <5>1. old.count <= MaxCalls /\ next = k + 1 /\ S = old.started
          BY <1>4, <1>10, <2>1, <3>2, <4>4, RateNumbers DEF S
        <5>2. clock < S + Window + Delay
          BY <1>1, <1>2, <1>4, <4>2, <4>4, <5>1, RateNumbers
        <5> HIDE DEF k, old, now
        <5>3. i + next = n + 1
          BY <1>2, <4>1, <4>2, <5>1
        <5> QED BY <4>1, <5>1, <5>2, <5>3
      <4> QED BY <1>3, <3>2, <4>3, <4>4 DEF S
    <3> QED BY <3>1, <3>2
  <2>5. PICK i \in 0 .. n, j \in 0 .. n :
           /\ i + next = n + 1 /\ i <= j + MaxCalls
           /\ clock < S + Window + Delay
           /\ \A l \in 1 .. n : received[l] < S + Window + Delay
           /\ \A l \in 1 .. i : received[l] < S + Delay
           /\ \A l \in 1 .. j : received[l] + Window < S + Delay
    BY <2>4
  <2>6. WindowCountsLast'
    <3>1. /\ Len(received') = n + 1 /\ visitors' # NoRow /\ visitors'.started = S
          /\ capped(visitors'.count) = next
      BY <1>1, <1>3, <2>2 DEF S, next
    <3>2. /\ \A l \in 1 .. n + 1 : received'[l] < S + Window + Delay
          /\ \A l \in 1 .. i : received'[l] < S + Delay
          /\ \A l \in 1 .. j : received'[l] + Window < S + Delay
          /\ i \in 0 .. n + 1 /\ j \in 0 .. n + 1
      BY <1>2, <2>2, <2>5
    <3> HIDE DEF new, old, now
    <3> QED BY <2>5, <3>1, <3>2 DEF WindowCountsLast
  <2>7. NeverThreeBursts'
    <3>1. \A l \in 1 .. j : received[l] + (Window - Delay) <= clock
      <4> SUFFICES ASSUME NEW l \in 1 .. j PROVE received[l] + (Window - Delay) <= clock
        OBVIOUS
      <4>1. l \in 1 .. n
        BY <1>2
      <4>2. received[l] \in Nat /\ received[l] + Window < S + Delay
        BY <1>2, <2>5, <4>1
      <4> QED BY <1>2, <2>3, <4>2, RateNumbers
    <3>2. j \in 0 .. Len(received) /\ Len(received) + 1 - j <= 2 * MaxCalls
      BY <1>2, <2>1, <2>5, RateNumbers DEF n
    <3>3. 2 * MaxCalls \in Nat /\ received \in Seq(Times) /\ clock \in Times
      BY RateNumbers DEF RateTypeOK
    <3>4. \A t \in Times : During(received, t, Window - Delay) <= 2 * MaxCalls
      BY <1>8 DEF NeverThreeBursts
    <3>5. \A t \in Times : During(Append(received, clock), t, Window - Delay) <= 2 * MaxCalls
      BY <3>1, <3>2, <3>3, <3>4, LoggedNow, RateNumbers
    <3> QED BY <2>1, <3>5 DEF NeverThreeBursts, During
  <2> QED BY <1>1, <1>3, <1>5, <2>2, <2>6, <2>7
<1> QED BY <1>5, <1>9, <1>10, RateNumbers


\* The calls half.
CallsSound ==
    /\ slot \in SlotRows \cup {NoRow}
    /\ slot # NoRow => slot.count \in 1 .. MaxCalls /\ slot.last <= clock
    /\ counting \in [Calls -> SlotRows \cup {NoRow}]
    /\ \A c, d \in Calls : counting[c] # NoRow /\ counting[d] # NoRow => c = d
    /\ called \in [Calls -> Times \cup {NoRow}] /\ ReadLately(called, Calls)
    /\ admitted \in Seq(Times) /\ InOrder(admitted)
    /\ RowCountsLast /\ CountsFromRow /\ NeverOverTheLimit

\* The visits half.
VisitsSound ==
    /\ visitors \in VisitorRows \cup {NoRow}
    /\ visitors # NoRow => visitors.count \in 1 .. MaxCalls + 1 /\ visitors.started <= clock
    /\ visited \in [Visits -> Times \cup {NoRow}] /\ ReadLately(visited, Visits)
    /\ received \in Seq(Times) /\ InOrder(received)
    /\ WindowCountsLast /\ NeverThreeBursts

\* The map.
MapSound ==
    /\ DOMAIN windows \subseteq Readers
    /\ \A k \in DOMAIN windows : windows[k] \in VisitorRows
    /\ IsFiniteSet(DOMAIN windows) /\ MapIsBounded

\* The invariant is its halves and the map.
LEMMA RateHalves ==
    RateTypeOK /\ RateInv <=> clock \in Times /\ CallsSound /\ VisitsSound /\ MapSound
BY DEF RateTypeOK, RateInv, LimitsHold, CallsSound, VisitsSound, MapSound

\* What a row is counted on is not changed by the others.
LEMMA CallsStep ==
    ASSUME RateTypeOK, RateInv, NEW c \in Calls,
           \/ ReadClock(c) \/ EnforceRateLimit(c) \/ RateLimited(c)
           \/ CallAdmitted(c) \/ CallRolledBack(c)
    PROVE  CallsSound'
<1>0. /\ clock' = clock /\ clock \in Times /\ CallsSound
      /\ \A t \in Times : t \in Nat /\ t # NoRow
  BY RateHalves, RateNumbers, NoRowAssumption
     DEF ReadClock, EnforceRateLimit, RateLimited, CallAdmitted, CallRolledBack
\* Where the log and the row stay.
<1>1. ASSUME UNCHANGED <<slot, admitted>>
      PROVE  /\ slot' \in SlotRows \cup {NoRow}
             /\ slot' # NoRow => slot'.count \in 1 .. MaxCalls /\ slot'.last <= clock'
             /\ admitted' \in Seq(Times) /\ InOrder(admitted)'
             /\ RowCountsLast' /\ NeverOverTheLimit'
  BY <1>0, <1>1 DEF CallsSound, InOrder, RowCountsLast, NeverOverTheLimit, During
<1>2. CASE ReadClock(c)
  <2>1. /\ called' = [called EXCEPT ![c] = clock] /\ called[c] = NoRow
        /\ UNCHANGED <<slot, admitted, counting>>
    BY <1>2 DEF ReadClock
  <2>2. called' \in [Calls -> Times \cup {NoRow}] /\ ReadLately(called, Calls)'
    BY <1>0, <2>1, RateNumbers DEF CallsSound, ReadLately
  <2>3. CountsFromRow'
    BY <1>0, <2>1 DEF CallsSound, CountsFromRow
  <2> QED BY <1>0, <1>1, <2>1, <2>2, <2>3 DEF CallsSound
<1>3. CASE EnforceRateLimit(c)
  <2>1. PICK row \in CountCall(slot, called[c]) :
           /\ counting' = [counting EXCEPT ![c] = row] /\ called[c] # NoRow
           /\ \A d \in Calls : counting[d] = NoRow
           /\ UNCHANGED <<slot, called, admitted>>
    BY <1>3 DEF EnforceRateLimit
  <2>2. row \in SlotRows
    BY <1>0, <2>1, CountedRow DEF CallsSound
  <2>3. /\ counting' \in [Calls -> SlotRows \cup {NoRow}]
        /\ \A d \in Calls : counting'[d] # NoRow => d = c
        /\ counting'[c] = row
    BY <1>0, <2>1, <2>2 DEF CallsSound
  <2>4. CountsFromRow'
    BY <2>1, <2>3 DEF CountsFromRow
  <2> QED BY <1>0, <1>1, <2>1, <2>3, <2>4 DEF CallsSound, ReadLately
<1>4. ASSUME called' = [called EXCEPT ![c] = NoRow]
      PROVE  called' \in [Calls -> Times \cup {NoRow}] /\ ReadLately(called, Calls)'
  BY <1>0, <1>4 DEF CallsSound, ReadLately
<1>5. CASE RateLimited(c)
  <2>1. /\ called' = [called EXCEPT ![c] = NoRow] /\ \A d \in Calls : counting[d] = NoRow
        /\ UNCHANGED <<slot, counting, admitted>>
    BY <1>5 DEF RateLimited
  <2>2. CountsFromRow'
    BY <2>1 DEF CountsFromRow
  <2> QED BY <1>0, <1>1, <1>4, <2>1, <2>2 DEF CallsSound
<1>6. ASSUME counting[c] # NoRow, counting' = [counting EXCEPT ![c] = NoRow]
      PROVE  /\ counting' = [d \in Calls |-> NoRow]
             /\ CountsFromRow'
  <2>1. \A d \in Calls \ {c} : counting[d] = NoRow
    BY <1>0, <1>6 DEF CallsSound
  <2>2. counting' = [d \in Calls |-> NoRow]
    BY <1>0, <1>6, <2>1 DEF CallsSound
  <2> QED BY <2>2 DEF CountsFromRow
<1>7. CASE CallRolledBack(c)
  <2>1. /\ counting[c] # NoRow /\ counting' = [counting EXCEPT ![c] = NoRow]
        /\ called' = [called EXCEPT ![c] = NoRow] /\ UNCHANGED <<slot, admitted>>
    BY <1>7 DEF CallRolledBack
  <2> QED BY <1>0, <1>1, <1>4, <1>6, <2>1 DEF CallsSound
<1>8. CASE CallAdmitted(c)
  <2>1. /\ counting[c] # NoRow /\ counting' = [counting EXCEPT ![c] = NoRow]
        /\ called' = [called EXCEPT ![c] = NoRow]
    BY <1>8 DEF CallAdmitted
  <2> QED BY <1>0, <1>4, <1>6, <1>8, <2>1, AdmittedKeeps DEF CallsSound
<1> QED BY <1>2, <1>3, <1>5, <1>7, <1>8

\* A visit that reads the clock, or is counted.
LEMMA VisitsStep ==
    ASSUME RateTypeOK, RateInv, NEW v \in Visits,
           ReadVisitClock(v) \/ ConsumePublicAuthRateLimit(v)
    PROVE  VisitsSound'
<1>0. /\ clock' = clock /\ clock \in Times /\ VisitsSound
      /\ \A t \in Times : t \in Nat /\ t # NoRow
  BY RateHalves, RateNumbers, NoRowAssumption DEF ReadVisitClock, ConsumePublicAuthRateLimit
<1>1. CASE ReadVisitClock(v)
  <2>1. visited' = [visited EXCEPT ![v] = clock] /\ UNCHANGED <<visitors, received>>
    BY <1>1 DEF ReadVisitClock
  <2>2. visited' \in [Visits -> Times \cup {NoRow}] /\ ReadLately(visited, Visits)'
    BY <1>0, <2>1, RateNumbers DEF VisitsSound, ReadLately
  <2> QED BY <1>0, <2>1, <2>2
          DEF VisitsSound, InOrder, WindowCountsLast, NeverThreeBursts, During
<1>2. CASE ConsumePublicAuthRateLimit(v)
  <2>1. visited' = [visited EXCEPT ![v] = NoRow]
    BY <1>2 DEF ConsumePublicAuthRateLimit
  <2>2. visited' \in [Visits -> Times \cup {NoRow}] /\ ReadLately(visited, Visits)'
    BY <1>0, <2>1 DEF VisitsSound, ReadLately
  <2> QED BY <1>0, <1>2, <2>2, ReceivedKeeps DEF VisitsSound
<1> QED BY <1>1, <1>2

\* Room is made before a key is added.
LEMMA MapStep ==
    ASSUME RateTypeOK, RateInv, NEW k \in Readers, StartWindow(k) \/ CountInWindow(k)
    PROVE  MapSound'
<1>0. MapSound /\ clock \in Times
  BY RateHalves
<1>1. CASE StartWindow(k)
  <2>1. /\ windows' = [j \in Kept \cup {k} |->
                          IF j = k THEN [count |-> 1, started |-> clock] ELSE windows[j]]
    BY <1>1 DEF StartWindow
  <2>2. Kept \subseteq DOMAIN windows
    BY DEF Kept, Live
  <2>3. IsFiniteSet(Kept) /\ Cardinality(Kept) \in Nat
    BY <1>0, <2>2, FS_Subset, FS_CardinalityType DEF MapSound
  <2>4. Cardinality(Kept) < MaxReaders
    BY RateNumbers, FS_EmptySet DEF Kept
  <2>5. IsFiniteSet(Kept \cup {k}) /\ Cardinality(Kept \cup {k}) <= MaxReaders
    <3>1. /\ IsFiniteSet(Kept \cup {k})
          /\ \/ Cardinality(Kept \cup {k}) = Cardinality(Kept)
             \/ Cardinality(Kept \cup {k}) = Cardinality(Kept) + 1
      BY <2>3, FS_AddElement
    <3>2. MaxReaders \in Nat
      BY RateNumbers
    <3> HIDE DEF Kept
    <3> QED BY <2>3, <2>4, <3>1, <3>2
  <2>6. DOMAIN windows' = Kept \cup {k}
    BY <2>1
  <2>7. [count |-> 1, started |-> clock] \in VisitorRows
    BY <1>0 DEF VisitorRows
  <2>8. \A j \in Kept \cup {k} : windows'[j] \in VisitorRows
    BY <1>0, <2>1, <2>2, <2>7 DEF MapSound
  <2> QED BY <1>0, <2>2, <2>5, <2>6, <2>8 DEF MapSound, MapIsBounded
<1>2. CASE CountInWindow(k)
  <2>1. windows' = [windows EXCEPT ![k].count = @ + 1] /\ k \in DOMAIN windows
    BY <1>2 DEF CountInWindow, Running
  <2>2. DOMAIN windows' = DOMAIN windows
    BY <2>1
  <2>3. [windows[k] EXCEPT !.count = @ + 1] \in VisitorRows
    BY <1>0, <2>1 DEF MapSound, VisitorRows
  <2>4. \A j \in DOMAIN windows : windows'[j] \in VisitorRows
    BY <1>0, <2>1, <2>3 DEF MapSound
  <2> QED BY <1>0, <2>2, <2>4 DEF MapSound, MapIsBounded
<1> QED BY <1>1, <1>2

\* A half stays as it is where nobody touches it.
LEMMA RateRests ==
    ASSUME RateTypeOK, RateInv, clock' = clock
    PROVE  /\ UNCHANGED slotVars => CallsSound'
           /\ UNCHANGED visitVars => VisitsSound'
           /\ UNCHANGED windows => MapSound'
<1>1. CallsSound /\ VisitsSound /\ MapSound
  BY RateHalves
<1>2. UNCHANGED slotVars => CallsSound'
  BY <1>1 DEF CallsSound, slotVars, ReadLately, InOrder, RowCountsLast, CountsFromRow,
              NeverOverTheLimit, During
<1>3. UNCHANGED visitVars => VisitsSound'
  BY <1>1 DEF VisitsSound, visitVars, ReadLately, InOrder, WindowCountsLast, NeverThreeBursts,
              During
<1>4. UNCHANGED windows => MapSound'
  BY <1>1 DEF MapSound, MapIsBounded
<1> QED BY <1>2, <1>3, <1>4

\* Time passes only as long as whoever has read the clock is not late.
LEMMA TickKeeps ==
    ASSUME RateTypeOK, RateInv, Tick
    PROVE  clock' \in Times /\ CallsSound' /\ VisitsSound' /\ MapSound'
<1>1. /\ CallsSound /\ VisitsSound /\ MapSound /\ clock \in Nat
      /\ clock' = clock + 1 /\ clock' \in Times
      /\ UNCHANGED <<slotVars, visitVars, windows>>
  BY RateHalves, RateNumbers DEF Tick, Times
<1>2. UNCHANGED <<slot, counting, called, admitted, visitors, visited, received, windows>>
  BY <1>1 DEF slotVars, visitVars
<1>3. ReadLately(called, Calls)' /\ ReadLately(visited, Visits)'
  <2>1. \A c \in Calls : called[c] # NoRow => called[c] \in Nat /\ clock < called[c] + Delay
    BY <1>1, RateNumbers DEF Tick, CallsSound
  <2>2. \A v \in Visits : visited[v] # NoRow => visited[v] \in Nat /\ clock < visited[v] + Delay
    BY <1>1, RateNumbers DEF Tick, VisitsSound
  <2> QED BY <1>1, <1>2, <2>1, <2>2, RateNumbers DEF ReadLately, CallsSound, VisitsSound
<1>4. ASSUME NEW log \in Seq(Times), InOrder(log)
      PROVE  \A i \in DOMAIN log : log[i] <= clock'
  <2>1. \A i \in DOMAIN log : log[i] \in Times
    OBVIOUS
  <2>2. \A t \in Times : t \in Nat
    BY RateNumbers
  <2>3. \A i \in DOMAIN log : log[i] <= clock
    BY <1>4 DEF InOrder
  <2> TAKE i \in DOMAIN log
  <2>4. log[i] \in Nat /\ log[i] <= clock
    BY <2>1, <2>2, <2>3
  <2> QED BY <1>1, <2>4
<1>5. InOrder(admitted)' /\ InOrder(received)'
  BY <1>1, <1>2, <1>4 DEF InOrder, CallsSound, VisitsSound
<1>6. /\ slot' # NoRow => slot'.last <= clock'
      /\ visitors' # NoRow => visitors'.started <= clock'
  <2>1. slot # NoRow => slot.last \in Nat /\ slot.last <= clock
    BY <1>1, RateNumbers DEF CallsSound, SlotRows
  <2>2. visitors # NoRow => visitors.started \in Nat /\ visitors.started <= clock
    BY <1>1, RateNumbers DEF VisitsSound, VisitorRows
  <2> QED BY <1>1, <1>2, <2>1, <2>2
<1>7. CallsSound'
  BY <1>1, <1>2, <1>3, <1>5, <1>6
     DEF CallsSound, RowCountsLast, CountsFromRow, NeverOverTheLimit, During
<1>8. VisitsSound'
  BY <1>1, <1>2, <1>3, <1>5, <1>6 DEF VisitsSound, WindowCountsLast, NeverThreeBursts, During
<1>9. MapSound'
  BY <1>1, <1>2 DEF MapSound, MapIsBounded
<1> QED BY <1>1, <1>7, <1>8, <1>9

\* Every step keeps types and limits.
LEMMA RateNextInv ==
    RateTypeOK /\ RateInv /\ [RateNext]_rateVars => (RateTypeOK /\ RateInv)'
<1> SUFFICES ASSUME RateTypeOK, RateInv, [RateNext]_rateVars
             PROVE  (RateTypeOK /\ RateInv)'
  OBVIOUS
<1>0. clock \in Times
  BY DEF RateTypeOK
<1>1. ASSUME NEW c \in Calls,
             \/ ReadClock(c) \/ EnforceRateLimit(c) \/ RateLimited(c)
             \/ CallAdmitted(c) \/ CallRolledBack(c)
      PROVE  clock' \in Times /\ CallsSound' /\ VisitsSound' /\ MapSound'
  <2>1. clock' = clock /\ UNCHANGED <<visitVars, windows>>
    BY <1>1 DEF ReadClock, EnforceRateLimit, RateLimited, CallAdmitted, CallRolledBack
  <2> QED BY <1>0, <1>1, <2>1, CallsStep, RateRests
<1>2. ASSUME NEW v \in Visits, ReadVisitClock(v) \/ ConsumePublicAuthRateLimit(v)
      PROVE  clock' \in Times /\ CallsSound' /\ VisitsSound' /\ MapSound'
  <2>1. clock' = clock /\ UNCHANGED <<slotVars, windows>>
    BY <1>2 DEF ReadVisitClock, ConsumePublicAuthRateLimit
  <2> QED BY <1>0, <1>2, <2>1, VisitsStep, RateRests
<1>3. ASSUME NEW k \in Readers, StartWindow(k) \/ CountInWindow(k)
      PROVE  clock' \in Times /\ CallsSound' /\ VisitsSound' /\ MapSound'
  <2>1. clock' = clock /\ UNCHANGED <<slotVars, visitVars>>
    BY <1>3 DEF StartWindow, CountInWindow
  <2> QED BY <1>0, <1>3, <2>1, MapStep, RateRests
<1>4. ASSUME UNCHANGED rateVars
      PROVE  clock' \in Times /\ CallsSound' /\ VisitsSound' /\ MapSound'
  <2>1. clock' = clock /\ UNCHANGED slotVars /\ UNCHANGED visitVars /\ UNCHANGED windows
    BY <1>4 DEF rateVars
  <2> QED BY <1>0, <2>1, RateRests
<1>5. (clock \in Times /\ CallsSound /\ VisitsSound /\ MapSound)'
  <2>1. CASE RateNext
    BY <1>1, <1>2, <1>3, <2>1, TickKeeps DEF RateNext
  <2> QED BY <1>4, <2>1
<1> QED BY <1>5, RateHalves, PTL

\* The rows, the logs and the map are typed, and who holds the row of a member is alone.
THEOREM RateTypeCorrect == RateSpec => []RateTypeOK
BY RateInitInv, RateNextInv, PTL DEF RateSpec

\* The invariant on which the limits rest: each row counts the last calls of its log.
THEOREM RatesSound == RateSpec => []RateInv
BY RateInitInv, RateNextInv, PTL DEF RateSpec

\* No stretch shorter than a window by the delay of a call admits more calls than the limit,
\* or more visits than two of it, and the map stays within its bound: for any window, limit,
\* delay and number of callers.
THEOREM LimitsAlwaysHold == RateSpec => []LimitsHold
<1>1. RateInv => LimitsHold
  BY DEF RateInv
<1> QED BY <1>1, RatesSound, PTL
=============================================================================
