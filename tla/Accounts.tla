------------------------------ MODULE Accounts ------------------------------
(***************************************************************************)
(* Accounts: EmailVerificationService, PasswordResetService, UsersService  *)
(* and the linking half of OAuthService over the users, email_verifications*)
(* and password_resets tables, with the e-mails that carry the links.      *)
(*                                                                         *)
(* An account is named by its e-mail address, which is unique whether or   *)
(* not the row is soft-deleted; a link is a row of one of the two token    *)
(* tables.  A slot is one running handler, as in AuthSessions, which has   *)
(* the sessions of these accounts; registering ends here with the sending  *)
(* of the first link, which the service starts and does not wait for.      *)
(* Callers wait for nobody: any handlers may overlap.                      *)
(* Passwords are left out: that a reset sets one is that its link works.   *)
(***************************************************************************)
EXTENDS Naturals, FiniteSets

CONSTANTS
    Users,      \* e-mail addresses
    Links,      \* random one-time tokens
    Roles,      \* ONBOARDABLE_ROLES
    Asked,      \* the statuses admins ask for
    Slots,      \* handlers that may run at the same time
    None        \* NULL

ASSUME ConstantsAssumption ==
    /\ None \notin Users \cup Links \cup Roles
    /\ Asked \subseteq {"PENDING", "ACTIVE", "SUSPENDED"}
    /\ IsFiniteSet(Slots)

VARIABLES
    row,       \* row[u]: the account's row
    status,    \* status[u]: its status
    verified,  \* the accounts with emailVerified
    oauth,     \* the accounts whose provider is GOOGLE
    linked,    \* the accounts with a googleId
    role,      \* role[u]: what the account was onboarded as, or None
    link,      \* link[l]: the row whose token is l, or None
    used,      \* the links with usedAt
    expired,   \* the links whose expiresAt has passed
    mailed,    \* the links that were sent
    call,      \* the running handlers
    works,     \* history: how often a link has done its work
    most,      \* history: how many handlers have ever been at one thing at once
    crossed    \* history: whose sending another one has met, past both invalidations

accounts == <<row, status, verified, oauth, linked, role>>
links == <<link, used, expired, mailed, works>>
vars == <<row, status, verified, oauth, linked, role,
          link, used, expired, mailed, call, works, most, crossed>>

RowState == {"absent", "present", "deleted"}

\* An INACTIVE account is treated like a SUSPENDED one.
Statuses == {"PENDING", "ACTIVE", "SUSPENDED"}

Kinds == {"verify", "reset"}
LinkRow == [kind : Kinds, user : Users]

\* The steps at which each handler may wait.
StepsOf ==
    [register              |-> {"create", "invalidate", "insert", "mail"},
     sendVerificationEmail |-> {"invalidate", "insert", "mail"},
     verifyEmail           |-> {"write"},
     requestPasswordReset  |-> {"invalidate", "insert", "mail"},
     resetPassword         |-> {"write"},
     onboard               |-> {"find", "write"},
     handleGoogleLogin     |-> {"link", "create"},
     update                |-> {"write"}]

Ops == DOMAIN StepsOf

\* What a handler is about, for one account: a kind of link, or something else.
KindOf(op) ==
    CASE op \in {"register", "sendVerificationEmail", "verifyEmail"} -> "verify"
      [] op \in {"requestPasswordReset", "resetPassword"} -> "reset"
      [] OTHER -> op

\* A running handler: what it is, what it does next, for which account, with which
\* link, and the role or the status in the request.
Call == {c \in [op : Ops, step : UNION {StepsOf[op] : op \in Ops}, user : Users,
                link : Links \cup {None}, arg : Roles \cup Statuses \cup {None}] :
    /\ c.step \in StepsOf[c.op]
    /\ c.link \in Links <=> c.op \in {"verifyEmail", "resetPassword"} \/ c.step = "mail"
    /\ c.op = "onboard" => c.arg \in Roles
    /\ c.op = "update" => c.arg \in Statuses}

Idle == [op |-> "idle"]

\* What several handlers may be at together: the verification of an account, from
\* sending a link to following it, and following one link.
Activities ==
    [what : {"verifying"}, user : Users] \cup [what : {"following"}, link : Links]

TypeOK ==
    /\ row \in [Users -> RowState]
    /\ status \in [Users -> Statuses]
    /\ verified \in SUBSET Users
    /\ oauth \in SUBSET Users
    /\ linked \in SUBSET Users
    /\ role \in [Users -> Roles \cup {None}]
    /\ link \in [Links -> LinkRow \cup {None}]
    /\ used \in SUBSET Links
    /\ expired \in SUBSET Links
    /\ mailed \in SUBSET Links
    /\ call \in [Slots -> Call \cup {Idle}]
    /\ works \in [Links -> Nat]
    /\ most \in [Activities -> Nat]
    /\ crossed \in SUBSET Slots

Init ==
    /\ row = [u \in Users |-> "absent"]
    /\ status = [u \in Users |-> "PENDING"]
    /\ verified = {} /\ oauth = {} /\ linked = {}
    /\ role = [u \in Users |-> None]
    /\ link = [l \in Links |-> None]
    /\ used = {} /\ expired = {} /\ mailed = {}
    /\ call = [p \in Slots |-> Idle]
    /\ works = [l \in Links |-> 0]
    /\ most = [a \in Activities |-> 1]
    /\ crossed = {}

Present(u) == row[u] = "present"
InTable(u) == row[u] # "absent"

LinksOf(u, kind) == {l \in Links : link[l] # None /\ link[l].user = u /\ link[l].kind = kind}

Usable(l) == link[l] # None /\ l \notin used /\ l \notin expired

----------------------------------------------------------------------------
(* Handlers: starting, waiting at a step, returning.  An operator ending in *)
(* _ is a slip in the one below it; the mutation runs put it in its place.  *)

Running(p) == call[p].op # "idle"

At(p, op, step) == call[p].op = op /\ call[p].step = step

Follows(p) == call[p].op \in {"verifyEmail", "resetPassword"}

Handler(op, step, u, l, arg) == [op |-> op, step |-> step, user |-> u, link |-> l, arg |-> arg]

Reads(p, c) ==
    /\ ~Running(p)
    /\ call' = [call EXCEPT ![p] = c]
    /\ UNCHANGED <<accounts, links>>

Goto(p, step) == call' = [call EXCEPT ![p].step = step]

Return(p) == call' = [call EXCEPT ![p] = Idle]

----------------------------------------------------------------------------
(* Creating accounts.                                                      *)

\* UsersService.create finds nobody, so far as soft deletion lets it see ...
Register(p, u) == ~Present(u) /\ Reads(p, Handler("register", "create", u, None, None))

\* ... and inserts, unless the unique index refuses; then the link is sent.
CreateUser(p) ==
    LET u == call[p].user IN
    /\ At(p, "register", "create")
    /\ \/ /\ ~InTable(u)
          /\ row' = [row EXCEPT ![u] = "present"]
          /\ Goto(p, "invalidate")
       \/ InTable(u) /\ Return(p) /\ UNCHANGED row
    /\ UNCHANGED <<status, verified, oauth, linked, role, links>>

\* handleGoogleLogin finds no account with the Google id; one with the e-mail, of
\* provider LOCAL, or none.
GoogleLogin(p, u) ==
    \/ /\ Present(u) /\ u \notin oauth \cup linked
       /\ Reads(p, Handler("handleGoogleLogin", "link", u, None, None))
    \/ ~Present(u) /\ Reads(p, Handler("handleGoogleLogin", "create", u, None, None))

LinkGoogle(p) ==
    LET u == call[p].user IN
    /\ At(p, "handleGoogleLogin", "link")
    /\ linked' = linked \cup {u}
    /\ verified' = verified \cup {u}
    /\ status' = [status EXCEPT ![u] = "ACTIVE"]
    /\ Return(p)
    /\ UNCHANGED <<row, oauth, role, links>>

CreateOAuthUser(p) ==
    LET u == call[p].user IN
    /\ At(p, "handleGoogleLogin", "create")
    /\ \/ /\ ~InTable(u)
          /\ row' = [row EXCEPT ![u] = "present"]
          /\ status' = [status EXCEPT ![u] = "ACTIVE"]
          /\ verified' = verified \cup {u}
          /\ oauth' = oauth \cup {u}
          /\ linked' = linked \cup {u}
       \/ InTable(u) /\ UNCHANGED <<row, status, verified, oauth, linked>>
    /\ Return(p)
    /\ UNCHANGED <<role, links>>

----------------------------------------------------------------------------
(* Sending a link: whoever does it marks the older ones used, inserts the  *)
(* new one and mails it.                                                   *)

SendVerification_(p, u) ==
    Present(u) /\ Reads(p, Handler("sendVerificationEmail", "invalidate", u, None, None))
SendVerification(p, u) ==
    /\ Present(u) /\ u \notin verified
    /\ Reads(p, Handler("sendVerificationEmail", "invalidate", u, None, None))

RequestReset(p, u) ==
    /\ Present(u) /\ u \notin oauth
    /\ Reads(p, Handler("requestPasswordReset", "invalidate", u, None, None))

Invalidated_(u, kind) == LinksOf(u, kind) \cap mailed
Invalidated(u, kind) == LinksOf(u, kind)

InvalidateTokens(p) ==
    /\ Running(p) /\ call[p].step = "invalidate"
    /\ used' = used \cup Invalidated(call[p].user, KindOf(call[p].op))
    /\ Goto(p, "insert")
    /\ UNCHANGED <<accounts, link, expired, mailed, works>>

InsertLink(p) ==
    /\ Running(p) /\ call[p].step = "insert"
    /\ \E l \in Links :
          /\ link[l] = None
          /\ link' = [link EXCEPT ![l] = [kind |-> KindOf(call[p].op), user |-> call[p].user]]
          /\ call' = [call EXCEPT ![p].step = "mail", ![p].link = l]
    /\ UNCHANGED <<accounts, used, expired, mailed, works>>

\* EmailService hands it to Resend; an e-mail that is lost is one nobody follows.
Mail(p) ==
    /\ Running(p) /\ call[p].step = "mail"
    /\ mailed' = mailed \cup {call[p].link}
    /\ Return(p)
    /\ UNCHANGED <<accounts, link, used, expired, works>>

----------------------------------------------------------------------------
(* Using a link: who has the e-mail follows it, as often as they like.     *)

Accepted_(l) == link[l] # None /\ l \notin expired
Accepted(l) == Usable(l)

FollowLink(p, l, op, kind) ==
    /\ l \in mailed
    /\ Accepted(l) /\ link[l].kind = kind
    /\ Reads(p, Handler(op, "write", link[l].user, l, None))

VerifyEmail(p, l) == FollowLink(p, l, "verifyEmail", "verify")
ResetPassword(p, l) == FollowLink(p, l, "resetPassword", "reset")

\* The transactions at their end look at neither the link nor the account again.
Works(l) ==
    /\ works' = [works EXCEPT ![l] = @ + 1]
    /\ used' = used \cup {l}
    /\ UNCHANGED <<link, expired, mailed>>

VerifyAndActivate(p) ==
    LET u == call[p].user IN
    /\ At(p, "verifyEmail", "write")
    /\ verified' = verified \cup {u}
    /\ status' = [status EXCEPT ![u] = "ACTIVE"]
    /\ Works(call[p].link)
    /\ Return(p)
    /\ UNCHANGED <<row, oauth, linked, role>>

ResetWithToken(p) ==
    /\ At(p, "resetPassword", "write")
    /\ Works(call[p].link)
    /\ Return(p)
    /\ UNCHANGED accounts

----------------------------------------------------------------------------
(* Onboarding, and what an admin does to an account.                       *)

\* The access token's validation reads the account ...
Onboard(p, u, r) ==
    /\ Present(u) /\ u \in verified /\ status[u] = "ACTIVE"
    /\ Reads(p, Handler("onboard", "find", u, None, r))

\* ... the service reads it again ...
MayOnboard_(u) == Present(u) /\ u \in verified
MayOnboard(u) == Present(u) /\ u \in verified /\ role[u] = None

FindToOnboard(p) ==
    /\ At(p, "onboard", "find")
    /\ \/ MayOnboard(call[p].user) /\ Goto(p, "write")
       \/ ~MayOnboard(call[p].user) /\ Return(p)
    /\ UNCHANGED <<accounts, links>>

\* ... and updates it by its id.
UpdateRole(p) ==
    /\ At(p, "onboard", "write")
    /\ role' = [role EXCEPT ![call[p].user] = call[p].arg]
    /\ Return(p)
    /\ UNCHANGED <<row, status, verified, oauth, linked, links>>

\* PATCH /users/:id with a status.
Update(p, u, s) == Present(u) /\ Reads(p, Handler("update", "write", u, None, s))

UpdateStatus(p) ==
    /\ At(p, "update", "write")
    /\ status' = [status EXCEPT ![call[p].user] = call[p].arg]
    /\ Return(p)
    /\ UNCHANGED <<row, verified, oauth, linked, role, links>>

\* remove: its read and its update are one step, for it only ever sets deletedAt.
SoftDelete(u) ==
    /\ Present(u)
    /\ row' = [row EXCEPT ![u] = "deleted"]
    /\ UNCHANGED <<status, verified, oauth, linked, role, links, call>>

----------------------------------------------------------------------------
\* Time passes: 24 hours for a verification, one hour for a reset.
Expire(l) ==
    /\ Usable(l)
    /\ expired' = expired \cup {l}
    /\ UNCHANGED <<accounts, link, used, mailed, works, call>>

\* The process dies, or a query fails: what the handler committed stays.
Crash(p) == Running(p) /\ Return(p) /\ UNCHANGED <<accounts, links>>

Start(p) ==
    \/ \E u \in Users :
          \/ Register(p, u) \/ GoogleLogin(p, u)
          \/ SendVerification(p, u) \/ RequestReset(p, u)
          \/ \E r \in Roles : Onboard(p, u, r)
          \/ \E s \in Asked : Update(p, u, s)
    \/ \E l \in Links : VerifyEmail(p, l) \/ ResetPassword(p, l)

Continue(p) ==
    \/ CreateUser(p) \/ LinkGoogle(p) \/ CreateOAuthUser(p)
    \/ InvalidateTokens(p) \/ InsertLink(p) \/ Mail(p)
    \/ VerifyAndActivate(p) \/ ResetWithToken(p)
    \/ FindToOnboard(p) \/ UpdateRole(p) \/ UpdateStatus(p)

Environment ==
    \/ \E u \in Users : SoftDelete(u)
    \/ \E l \in Links : Expire(l)

\* The handlers that are at an activity.
Doing(a) ==
    {p \in Slots : Running(p) /\
        CASE a.what = "verifying" -> KindOf(call[p].op) = "verify" /\ call[p].user = a.user
          [] a.what = "following" -> Follows(p) /\ call[p].link = a.link}

\* p and q are sending links of one kind to one account, past their invalidations.
Meet(p, q) ==
    /\ Running(p) /\ call[p].step = "insert"
    /\ Running(q) /\ call[q].step = "insert"
    /\ call[p].user = call[q].user /\ KindOf(call[p].op) = KindOf(call[q].op)

\* What the history variables record of a step.
Observe ==
    /\ most' = [a \in Activities |-> IF Cardinality(Doing(a)') > most[a]
                                     THEN Cardinality(Doing(a)') ELSE most[a]]
    /\ crossed' = {p \in Slots : \/ p \in crossed /\ Meet(p, p)'
                                 \/ \E q \in Slots \ {p} : Meet(p, q)'}

Next ==
    /\ \/ \E p \in Slots : Start(p) \/ Continue(p) \/ Crash(p)
       \/ Environment
    /\ Observe

Spec == Init /\ [][Next]_vars

----------------------------------------------------------------------------
(* Properties, for handlers that overlap in any way: a double click, a     *)
(* retry after the timeout, two devices.                                   *)

Verifying(u) == [what |-> "verifying", user |-> u]
Following(l) == [what |-> "following", link |-> l]

\* Asking for a new link ends every older one of its kind (invalidateUserTokens before
\* create): a sending that meets no other past its invalidation leaves the account
\* with the link it made and no other usable one, however many overlapped before.
SendingEndsOlder ==
    [][\A p \in Slots :
          /\ Running(p) /\ call[p].step = "insert" /\ p \notin crossed
          /\ Running(p)' /\ call'[p].step = "mail"
          =>
              \A l \in LinksOf(call[p].user, KindOf(call[p].op))' :
                  Usable(l)' => l = call'[p].link]_vars

\* "Should throw for already-used token": usedAt is checked on the read and the write is
\* unconditional, so a link works for those who follow it at the same time, and for
\* nobody after them: once, if they do not overlap.
LinkWorksForOverlapping == \A l \in Links : works[l] <= most[Following(l)]

\* A verified account that is suspended is made ACTIVE by an admin or by linking
\* Google to it, never by a verification link sent before, as long as its
\* verifications have not overlapped (and unless linking Google is what verified it:
\* that leaves the links as they are).
SuspensionLasts ==
    [][\A u \in verified \ linked :
          status[u] = "SUSPENDED" /\ status'[u] = "ACTIVE" /\ most[Verifying(u)] = 1 =>
              \E p \in Slots : /\ call[p] # call'[p]
                               /\ call[p].user = u
                               /\ call[p].op \in {"update", "handleGoogleLogin"}]_vars

\* Nobody who passed the checks of an onboarding before u had a role is left.
RoleSettled(u) == role[u] # None /\ \A p \in Slots : At(p, "onboard", "write") => call[p].user # u

\* "User has already been onboarded": from then on the role stays, whoever asks, and
\* nobody passes the checks again.
RoleSettles == [][\A u \in Users : RoleSettled(u) => RoleSettled(u)' /\ role'[u] = role[u]]_vars
=============================================================================
