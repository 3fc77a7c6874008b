------------------------------ MODULE Accounts ------------------------------
(***************************************************************************)
(* How accounts come to be: a manager creates operators up to a quota      *)
(* (team.service.ts), and an invited user registers (invitation.service.ts *)
(* and registerUser of auth.service.ts).  One manager, one invitation.     *)
(*                                                                         *)
(* A token is the number of the mail it was sent in.  An account is the    *)
(* spelling of its address: the invitation is compared without regard to   *)
(* case, the unique index on User.email regards it.  The role is left out, *)
(* and another account at the same address fails as a second one does.     *)
(***************************************************************************)
EXTENDS ServiceCalls

CONSTANT Spellings      \* bound: spellings of the invited address

VARIABLES
    operators,      \* the manager's operators
    maxOperators,   \* managerOperatorProvisioning.maxOperators
    quotaCalls,     \* [Calls -> createManagedOperator in progress]
    quotaStale,     \* history: an operator was created on a stale count, or the limit lowered
    invitation,     \* the UserInvitation row
    accounts,       \* the accounts registered with it
    inviteCalls,    \* [Calls -> registerUser or resendInvitation in progress]
    raced           \* history: an account was made by a registration that overlapped
                    \* another one, or was never marked in the invitation

quotaVars == <<operators, maxOperators, quotaCalls, quotaStale>>
inviteVars == <<invitation, accounts, inviteCalls, raced>>

-----------------------------------------------------------------------------
(* Operator accounts of a manager.                                         *)

QuotaCall == [busy : BOOLEAN, overtaken : BOOLEAN]
QuotaIdle == [busy |-> FALSE, overtaken |-> FALSE]

QuotaInit ==
    /\ operators = 0
    /\ maxOperators = 2
    /\ quotaCalls = [c \in Calls |-> QuotaIdle]
    /\ quotaStale = FALSE

\* Mutant: the limit itself is let through.
CountOperatorsOffByOne(c) ==
    /\ ~quotaCalls[c].busy
    /\ operators <= maxOperators
    /\ quotaCalls' = [quotaCalls EXCEPT ![c].busy = TRUE]
    /\ UNCHANGED <<operators, maxOperators, quotaStale>>

\* createManagedOperator counts the manager's operators, ...
CountOperators(c) ==
    /\ ~quotaCalls[c].busy
    /\ operators < maxOperators
    /\ quotaCalls' = [quotaCalls EXCEPT ![c].busy = TRUE]
    /\ UNCHANGED <<operators, maxOperators, quotaStale>>

\* ... and creates one more, or finds that the address is taken.
CreateOperator(c) ==
    /\ quotaCalls[c].busy
    /\ \/ /\ operators' = operators + 1
          /\ quotaStale' = (quotaStale \/ quotaCalls[c].overtaken)
          /\ quotaCalls' = Finish(quotaCalls, c, QuotaIdle)
       \/ /\ quotaCalls' = GiveUp(quotaCalls, c, QuotaIdle)
          /\ UNCHANGED <<operators, quotaStale>>
    /\ UNCHANGED maxOperators

\* setManagerOperatorProvisioning: at least two, whatever exists already.
SetQuota(limit) ==
    /\ maxOperators' = IF limit < 2 THEN 2 ELSE limit
    /\ quotaStale' = (quotaStale \/ maxOperators' < operators)
    /\ quotaCalls' = [c \in Calls |-> [quotaCalls[c] EXCEPT !.overtaken = quotaCalls[c] # QuotaIdle]]
    /\ UNCHANGED operators

QuotaNext ==
    \/ \E c \in Calls : CountOperators(c) \/ CreateOperator(c)
    \/ \E limit \in 1..MaxUpdates + 1 : SetQuota(limit)

QuotaSpec == QuotaInit /\ [][QuotaNext]_quotaVars

-----------------------------------------------------------------------------
(* An invitation.                                                          *)

Invitation == [token : Nat, accepted : BOOLEAN, revoked : BOOLEAN, expired : BOOLEAN]

\* overlapped is history: another registration was in progress at some time of
\* this one.
InviteStage == {"idle", "create", "mark", "resend"}
InviteCall == [stage : InviteStage, account : Spellings \cup {"none"}, overlapped : BOOLEAN]
InviteIdle == [stage |-> "idle", account |-> "none", overlapped |-> FALSE]

\* createInvitation
InviteInit ==
    /\ invitation = [token |-> 1, accepted |-> FALSE, revoked |-> FALSE, expired |-> FALSE]
    /\ accounts = {}
    /\ inviteCalls = [c \in Calls |-> InviteIdle]
    /\ raced = FALSE

Registering(d) == inviteCalls[d].stage \in {"create", "mark"}

\* Mutant: whether it was accepted is not looked at.
UsableAgain(token) ==
    token = invitation.token /\ ~invitation.revoked /\ ~invitation.expired

\* The row found by the token's hash.
Usable(token) ==
    /\ token = invitation.token
    /\ ~invitation.revoked /\ ~invitation.accepted /\ ~invitation.expired

\* There is no such account, and the invitation is good, ...
CheckInvitation(c, token, account) ==
    /\ inviteCalls[c] = InviteIdle
    /\ account \notin accounts
    /\ Usable(token)
    /\ inviteCalls' = [d \in Calls |->
          IF d = c THEN [stage |-> "create", account |-> account,
                         overlapped |-> \E e \in Calls : Registering(e)]
          ELSE [inviteCalls[d] EXCEPT !.overlapped = @ \/ Registering(d)]]
    /\ UNCHANGED <<invitation, accounts, raced>>

\* ... the account is created, unless the index refuses it, ...
CreateAccount(c) ==
    LET call == inviteCalls[c] IN
    /\ call.stage = "create"
    /\ \/ /\ call.account \notin accounts
          /\ accounts' = accounts \cup {call.account}
          /\ raced' = (raced \/ call.overlapped)
          /\ inviteCalls' = [inviteCalls EXCEPT ![c].stage = "mark"]
       \/ /\ call.account \in accounts
          /\ inviteCalls' = GiveUp(inviteCalls, c, InviteIdle)
          /\ UNCHANGED <<accounts, raced>>
    /\ UNCHANGED invitation

\* ... and the invitation is marked, by id; or the call has died before.
MarkAccepted(c) ==
    /\ inviteCalls[c].stage = "mark"
    /\ invitation' = [invitation EXCEPT !.accepted = TRUE]
    /\ inviteCalls' = GiveUp(inviteCalls, c, InviteIdle)
    /\ UNCHANGED <<accounts, raced>>

RegistrationDies(c) ==
    /\ inviteCalls[c].stage \in {"create", "mark"}
    /\ inviteCalls' = GiveUp(inviteCalls, c, InviteIdle)
    /\ raced' = (raced \/ inviteCalls[c].stage = "mark")
    /\ UNCHANGED <<invitation, accounts>>

\* resendInvitation looks at the row, ...
CheckResend(c) ==
    /\ inviteCalls[c] = InviteIdle
    /\ ~invitation.accepted /\ ~invitation.revoked
    /\ invitation.token < MaxUpdates
    /\ inviteCalls' = [inviteCalls EXCEPT ![c].stage = "resend"]
    /\ UNCHANGED <<invitation, accounts, raced>>

\* ... and gives it another token and another term.
Resend(c) ==
    /\ inviteCalls[c].stage = "resend"
    /\ invitation' = [invitation EXCEPT !.token = @ + 1, !.expired = FALSE]
    /\ inviteCalls' = GiveUp(inviteCalls, c, InviteIdle)
    /\ UNCHANGED <<accounts, raced>>

\* revokeInvitation, of an accepted one, too
Revoke ==
    /\ invitation' = [invitation EXCEPT !.revoked = TRUE]
    /\ UNCHANGED <<accounts, inviteCalls, raced>>

Expire ==
    /\ invitation' = [invitation EXCEPT !.expired = TRUE]
    /\ UNCHANGED <<accounts, inviteCalls, raced>>

InviteNext ==
    \/ \E c \in Calls, token \in 1..invitation.token, account \in Spellings :
         CheckInvitation(c, token, account)
    \/ \E c \in Calls : \/ CreateAccount(c) \/ MarkAccepted(c) \/ RegistrationDies(c)
                        \/ CheckResend(c) \/ Resend(c)
    \/ Revoke \/ Expire

InviteSpec == InviteInit /\ [][InviteNext]_inviteVars

-----------------------------------------------------------------------------
AccountsTypeOK ==
    /\ operators \in Nat /\ maxOperators \in Nat
    /\ quotaCalls \in [Calls -> QuotaCall]
    /\ quotaStale \in BOOLEAN
    /\ invitation \in Invitation
    /\ accounts \in SUBSET Spellings
    /\ inviteCalls \in [Calls -> InviteCall]
    /\ \A c \in Calls : inviteCalls[c].stage = "create" => inviteCalls[c].account \in Spellings
    /\ raced \in BOOLEAN

\* A manager has more operators than allowed only after two creations that
\* overlapped, or a limit set below what existed (team.service.ts:115-128).
QuotaKept == ~quotaStale => operators <= maxOperators

\* "Invitation is invalid or already used" (auth.service.ts:101): an invitation,
\* however often it is sent again, gives one account, unless two registrations
\* overlapped, or one died before it had marked the invitation
\* (auth.service.ts:124-129).
InvitationUsedOnce == ~raced => \A a, b \in accounts : a = b

\* The two limits on accounts hold but for the races named above.
AccountsWithinLimits == QuotaKept /\ InvitationUsedOnce

\* The inductive invariants.  A count nobody overtook still holds; ...
FreshCounts ==
    \A c \in Calls : quotaCalls[c].busy /\ ~quotaCalls[c].overtaken => operators < maxOperators

\* ... an account nobody raced for is marked, or about to be, and a registration
\* that is alone works for the first one.
MarkedOrMarking ==
    ~raced /\ accounts # {} =>
        invitation.accepted \/ \E c \in Calls : inviteCalls[c].stage = "mark"

AloneUnlessOverlapped ==
    \A c \in Calls : inviteCalls[c].stage = "create" /\ ~inviteCalls[c].overlapped =>
        /\ ~raced => accounts = {}
        /\ \A d \in Calls : Registering(d) => d = c
=============================================================================
