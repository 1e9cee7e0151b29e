--------------------------- MODULE AccountsProofs ---------------------------
(***************************************************************************)
(* Theorems about Accounts, for any sets of addresses, links, roles and    *)
(* concurrent handlers.                                                    *)
(***************************************************************************)
EXTENDS Accounts, FiniteSetTheorems, TLAPS

(* Types.                                                                  *)

\* The operations by name: expanding StepsOf everywhere would be slow.
LEMMA OpsAre ==
    /\ Ops = {"register", "sendVerificationEmail", "verifyEmail", "requestPasswordReset",
              "resetPassword", "onboard", "handleGoogleLogin", "update"}
    /\ StepsOf["register"] = {"create", "invalidate", "insert", "mail"}
    /\ StepsOf["sendVerificationEmail"] = {"invalidate", "insert", "mail"}
    /\ StepsOf["verifyEmail"] = {"write"}
    /\ StepsOf["requestPasswordReset"] = {"invalidate", "insert", "mail"}
    /\ StepsOf["resetPassword"] = {"write"}
    /\ StepsOf["onboard"] = {"find", "write"}
    /\ StepsOf["handleGoogleLogin"] = {"link", "create"}
    /\ StepsOf["update"] = {"write"}
BY DEF Ops, StepsOf

LEMMA HandlerType ==
    ASSUME NEW op \in Ops, NEW step \in StepsOf[op], NEW u \in Users,
           NEW l \in Links \cup {None}, NEW arg \in Roles \cup Statuses \cup {None},
           l \in Links <=> op \in {"verifyEmail", "resetPassword"} \/ step = "mail",
           op = "onboard" => arg \in Roles,
           op = "update" => arg \in Statuses
    PROVE  Handler(op, step, u, l, arg) \in Call
<1>1. step \in UNION {StepsOf[o] : o \in Ops}
  OBVIOUS
<1>. HIDE DEF Ops, StepsOf
<1>. QED  BY <1>1 DEF Handler, Call

LEMMA SlotType ==
    ASSUME TypeOK, NEW p \in Slots, Running(p)
    PROVE  /\ call[p] \in Call
           /\ call[p].op \in Ops /\ call[p].step \in StepsOf[call[p].op]
           /\ call[p].user \in Users
           /\ call[p].link \in Links <=>
                call[p].op \in {"verifyEmail", "resetPassword"} \/ call[p].step = "mail"
           /\ call[p].op = "onboard" => call[p].arg \in Roles
           /\ call[p].op = "update" => call[p].arg \in Statuses
<1>1. call[p] \in Call
  BY DEF TypeOK, Running, Idle
<1>. HIDE DEF Ops, StepsOf
<1>. QED  BY <1>1 DEF Call

\* Only what p changed in its slot matters.
LEMMA CallType ==
    ASSUME TypeOK, NEW p \in Slots, NEW c \in Call \cup {Idle},
           call' = [call EXCEPT ![p] = c]
    PROVE  call' \in [Slots -> Call \cup {Idle}]
BY DEF TypeOK

LEMMA MoveType ==
    ASSUME TypeOK, NEW p \in Slots, Running(p), NEW step \in StepsOf[call[p].op],
           step = "mail" <=> call[p].step = "mail",
           Goto(p, step)
    PROVE  call' \in [Slots -> Call \cup {Idle}]
<1>1. call[p] \in Call /\ call[p].op \in Ops
  BY SlotType
<1>2. step \in UNION {StepsOf[o] : o \in Ops}
  BY <1>1
<1>. HIDE DEF Ops, StepsOf
<1>3. [call[p] EXCEPT !.step = step] \in Call
  BY <1>1, <1>2 DEF Call
<1>. QED  BY <1>3 DEF TypeOK, Goto

LEMMA ReturnType ==
    ASSUME TypeOK, NEW p \in Slots, Return(p)
    PROVE  call' \in [Slots -> Call \cup {Idle}]
BY DEF TypeOK, Return

\* The activities, and who is at them.
LEMMA ActivitiesAre ==
    /\ \A u \in Users : Verifying(u) \in Activities
    /\ \A l \in Links : Following(l) \in Activities
    /\ \A u : Doing(Verifying(u)) =
            {p \in Slots : Running(p) /\ KindOf(call[p].op) = "verify" /\ call[p].user = u}
    /\ \A l : Doing(Following(l)) = {p \in Slots : Running(p) /\ Follows(p) /\ call[p].link = l}
BY DEF Activities, Verifying, Following, Doing

LEMMA SlotsFinite ==
    ASSUME NEW S \in SUBSET Slots
    PROVE  IsFiniteSet(S) /\ Cardinality(S) \in Nat
BY ConstantsAssumption, FS_Subset, FS_CardinalityType

LEMMA ObserveType ==
    ASSUME TypeOK, Observe
    PROVE  /\ most' \in [Activities -> Nat]
           /\ crossed' \in SUBSET Slots
<1>1. ASSUME NEW a \in Activities PROVE Cardinality(Doing(a)') \in Nat
  <2>1. Doing(a)' \in SUBSET Slots
    BY DEF Doing
  <2>. QED  BY <2>1, SlotsFinite
<1>. QED  BY <1>1 DEF Observe, TypeOK

LEMMA ReadsType ==
    ASSUME TypeOK, Observe, NEW p \in Slots, NEW c \in Call, Reads(p, c)
    PROVE  TypeOK'
BY ObserveType DEF TypeOK, Reads, accounts, links

LEMMA TypeStart ==
    ASSUME TypeOK, Observe, NEW p \in Slots, Start(p)
    PROVE  TypeOK'
<1>. USE OpsAre, ConstantsAssumption
<1>1. ASSUME NEW u \in Users, Register(p, u) \/ GoogleLogin(p, u)
                                \/ SendVerification(p, u) \/ RequestReset(p, u)
      PROVE  TypeOK'
  <2>1. ASSUME NEW op \in Ops, NEW step \in StepsOf[op],
               op \notin {"verifyEmail", "resetPassword", "onboard", "update"},
               step # "mail",
               Reads(p, Handler(op, step, u, None, None))
        PROVE  TypeOK'
    <3>1. Handler(op, step, u, None, None) \in Call
      BY <2>1, HandlerType
    <3>. QED  BY <2>1, <3>1, ReadsType
  <2>2. CASE Register(p, u)
    BY <2>1, <2>2 DEF Register
  <2>3. CASE GoogleLogin(p, u)
    BY <2>1, <2>3 DEF GoogleLogin
  <2>4. CASE SendVerification(p, u)
    BY <2>1, <2>4 DEF SendVerification
  <2>5. CASE RequestReset(p, u)
    BY <2>1, <2>5 DEF RequestReset
  <2>. QED  BY <1>1, <2>2, <2>3, <2>4, <2>5
<1>2. ASSUME NEW u \in Users, NEW r \in Roles, Onboard(p, u, r)
      PROVE  TypeOK'
  <2>1. Handler("onboard", "find", u, None, r) \in Call
    BY HandlerType
  <2>. QED  BY <1>2, <2>1, ReadsType DEF Onboard
<1>3. ASSUME NEW u \in Users, NEW s \in Asked, Update(p, u, s)
      PROVE  TypeOK'
  <2>1. Handler("update", "write", u, None, s) \in Call
    BY HandlerType DEF Statuses
  <2>. QED  BY <1>3, <2>1, ReadsType DEF Update
<1>4. ASSUME NEW l \in Links, VerifyEmail(p, l) \/ ResetPassword(p, l)
      PROVE  TypeOK'
  <2>1. link[l] \in LinkRow
    BY <1>4 DEF TypeOK, VerifyEmail, ResetPassword, FollowLink, Accepted, Usable
  <2>2. link[l].user \in Users
    BY <2>1 DEF LinkRow
  <2>3. /\ Handler("verifyEmail", "write", link[l].user, l, None) \in Call
        /\ Handler("resetPassword", "write", link[l].user, l, None) \in Call
    BY <2>2, HandlerType
  <2>. QED  BY <1>4, <2>3, ReadsType DEF VerifyEmail, ResetPassword, FollowLink
<1>. QED  BY <1>1, <1>2, <1>3, <1>4 DEF Start

\* The handlers that send a link are about one of the two kinds.
LEMMA SenderKind ==
    ASSUME TypeOK, NEW p \in Slots, Running(p), call[p].step \in {"invalidate", "insert"}
    PROVE  /\ call[p].op \in {"register", "sendVerificationEmail", "requestPasswordReset"}
           /\ KindOf(call[p].op) \in Kinds
<1>1. call[p].op \in {"register", "sendVerificationEmail", "requestPasswordReset"}
  BY SlotType, OpsAre
<1>. QED  BY <1>1 DEF KindOf, Kinds

LEMMA TypeContinue ==
    ASSUME TypeOK, Observe, NEW p \in Slots, Continue(p)
    PROVE  TypeOK'
<1>. USE OpsAre, ObserveType DEF accounts, links, RowState, Statuses
<1>1. CASE CreateUser(p)
  <2>1. Running(p) /\ call[p].op = "register" /\ call[p].step = "create"
    BY <1>1 DEF CreateUser, At, Running
  <2>2. call' \in [Slots -> Call \cup {Idle}]
    BY <1>1, <2>1, MoveType, ReturnType DEF CreateUser
  <2>. QED  BY <1>1, <2>2 DEF CreateUser, TypeOK
<1>2. CASE LinkGoogle(p)
  <2>1. call[p].user \in Users
    BY <1>2, SlotType DEF LinkGoogle, At, Running
  <2>. QED  BY <1>2, <2>1, ReturnType DEF LinkGoogle, TypeOK
<1>3. CASE CreateOAuthUser(p)
  <2>1. call[p].user \in Users
    BY <1>3, SlotType DEF CreateOAuthUser, At, Running
  <2>. QED  BY <1>3, <2>1, ReturnType DEF CreateOAuthUser, TypeOK
<1>4. CASE InvalidateTokens(p)
  <2>1. call' \in [Slots -> Call \cup {Idle}]
    BY <1>4, MoveType, SenderKind DEF InvalidateTokens
  <2>2. used' \in SUBSET Links
    BY <1>4 DEF InvalidateTokens, Invalidated, LinksOf, TypeOK
  <2>. QED  BY <1>4, <2>1, <2>2 DEF InvalidateTokens, TypeOK
<1>5. CASE InsertLink(p)
  <2>1. /\ Running(p) /\ call[p].step = "insert"
        /\ call[p] \in Call /\ call[p].user \in Users
        /\ call[p].op \in {"register", "sendVerificationEmail", "requestPasswordReset"}
        /\ KindOf(call[p].op) \in Kinds
    BY <1>5, SlotType, SenderKind DEF InsertLink
  <2>2. PICK l \in Links :
          /\ link' = [link EXCEPT ![l] = [kind |-> KindOf(call[p].op), user |-> call[p].user]]
          /\ call' = [call EXCEPT ![p].step = "mail", ![p].link = l]
    BY <1>5 DEF InsertLink
  <2>3. link' \in [Links -> LinkRow \cup {None}]
    BY <2>1, <2>2 DEF TypeOK, LinkRow
  <2>4. "mail" \in UNION {StepsOf[o] : o \in Ops}
    OBVIOUS
  <2>5. [call[p] EXCEPT !.step = "mail", !.link = l] \in Call
    BY <2>1, <2>4 DEF Call
  <2>6. call' \in [Slots -> Call \cup {Idle}]
    BY <2>2, <2>5 DEF TypeOK
  <2>. QED  BY <1>5, <2>3, <2>6 DEF InsertLink, TypeOK
<1>6. CASE Mail(p)
  <2>1. call[p].link \in Links
    BY <1>6, SlotType DEF Mail
  <2>. QED  BY <1>6, <2>1, ReturnType DEF Mail, TypeOK
<1>7. ASSUME NEW l \in Links, Works(l)
      PROVE  /\ used' \in SUBSET Links
             /\ works' \in [Links -> Nat]
             /\ UNCHANGED <<link, expired, mailed>>
  BY <1>7 DEF Works, TypeOK
<1>8. CASE VerifyAndActivate(p)
  <2>1. call[p].user \in Users /\ call[p].link \in Links
    BY <1>8, SlotType DEF VerifyAndActivate, At, Running
  <2>2. Works(call[p].link)
    BY <1>8 DEF VerifyAndActivate
  <2>. QED  BY <1>7, <1>8, <2>1, <2>2, ReturnType DEF VerifyAndActivate, TypeOK
<1>9. CASE ResetWithToken(p)
  <2>1. call[p].link \in Links
    BY <1>9, SlotType DEF ResetWithToken, At, Running
  <2>2. Works(call[p].link)
    BY <1>9 DEF ResetWithToken
  <2>. QED  BY <1>7, <1>9, <2>1, <2>2, ReturnType DEF ResetWithToken, TypeOK
<1>10. CASE FindToOnboard(p)
  <2>1. Running(p) /\ call[p].op = "onboard" /\ call[p].step = "find"
    BY <1>10 DEF FindToOnboard, At, Running
  <2>2. call' \in [Slots -> Call \cup {Idle}]
    BY <1>10, <2>1, MoveType, ReturnType DEF FindToOnboard
  <2>. QED  BY <1>10, <2>2 DEF FindToOnboard, TypeOK
<1>11. CASE UpdateRole(p)
  <2>1. call[p].arg \in Roles
    BY <1>11, SlotType DEF UpdateRole, At, Running
  <2>. QED  BY <1>11, <2>1, ReturnType DEF UpdateRole, TypeOK
<1>12. CASE UpdateStatus(p)
  <2>1. call[p].arg \in Statuses
    BY <1>12, SlotType DEF UpdateStatus, At, Running
  <2>. QED  BY <1>12, <2>1, ReturnType DEF UpdateStatus, TypeOK
<1>. QED  BY <1>1, <1>2, <1>3, <1>4, <1>5, <1>6, <1>8, <1>9, <1>10, <1>11, <1>12
          DEF Continue

LEMMA TypeStep == TypeOK /\ [Next]_vars => TypeOK'
<1>. SUFFICES ASSUME TypeOK, [Next]_vars PROVE TypeOK'
  OBVIOUS
<1>1. CASE UNCHANGED vars
  BY <1>1 DEF TypeOK, vars
<1>2. ASSUME Observe, NEW p \in Slots, Crash(p) PROVE TypeOK'
  BY <1>2, ReturnType, ObserveType DEF Crash, TypeOK, accounts, links
<1>3. CASE Observe /\ Environment
  BY <1>3, ObserveType DEF Environment, SoftDelete, Expire, TypeOK, accounts, links, RowState
<1>. QED  BY <1>1, <1>2, <1>3, TypeStart, TypeContinue DEF Next

LEMMA TypeInit == Init => TypeOK
BY DEF Init, TypeOK, RowState, Statuses

\* The account, link and handler tables keep the shapes the services give them,
\* however many handlers overlap; a handler that holds a link is one that follows
\* or mails it.
THEOREM TypeCorrect == Spec => []TypeOK
BY TypeInit, TypeStep, PTL DEF Spec

----------------------------------------------------------------------------
(* What one step of a handler does.                                        *)

LinkFor(l, kind, u) == link[l] # None /\ link[l].kind = kind /\ link[l].user = u

\* What p carries through its steps.
Kept(p) == call'[p].op = call[p].op /\ call'[p].user = call[p].user

\* The link p inserts, if it does.
Inserts(p, l) ==
    /\ Running(p) /\ call[p].step = "insert"
    /\ link[l] = None
    /\ link' = [link EXCEPT ![l] = [kind |-> KindOf(call[p].op), user |-> call[p].user]]
    /\ UNCHANGED <<accounts, used, expired, works>>

\* p's link does its work.
Uses(p) ==
    /\ \/ At(p, "verifyEmail", "write") /\ verified' = verified \cup {call[p].user}
       \/ At(p, "resetPassword", "write") /\ verified' = verified
    /\ used' = used \cup {call[p].link}
    /\ works' = [works EXCEPT ![call[p].link] = @ + 1]
    /\ UNCHANGED <<row, oauth, linked, role, link, expired>>

\* Accounts and links only gain from a step that neither inserts nor uses a link:
\* no row leaves its table, no link becomes usable, and an account that becomes
\* verified is linked to Google.
OnlyGains ==
    /\ \A u \in Users : InTable(u) => InTable(u)'
    /\ linked \subseteq linked'
    /\ verified' \ linked' \subseteq verified \ linked
    /\ used \subseteq used' /\ expired \subseteq expired'
    /\ UNCHANGED <<link, works>>

\* A handler changes the role of an account only at the end of its onboarding.
RoleEvolves(p) ==
    \/ role' = role
    \/ At(p, "onboard", "write") /\ \A u \in Users \ {call[p].user} : role'[u] = role[u]

\* A handler that starts only reads.
LEMMA StartReads ==
    ASSUME NEW p \in Slots, Start(p)
    PROVE  \E c : Reads(p, c)
BY DEF Start, Register, GoogleLogin, SendVerification, RequestReset, Onboard, Update,
   VerifyEmail, ResetPassword, FollowLink

\* What a step of p may do to the tables.
LEMMA Effects ==
    ASSUME TypeOK, NEW p \in Slots, Start(p) \/ Continue(p) \/ Crash(p)
    PROVE  /\ OnlyGains \/ Uses(p) \/ \E l \in Links : Inserts(p, l)
           /\ RoleEvolves(p)
           /\ \A q \in Slots \ {p} : call'[q] = call[q]
           /\ \/ Start(p) /\ UNCHANGED <<accounts, links>> /\ ~Running(p)
              \/ Running(p) /\ (~Running(p)' \/ Kept(p))
<1>. USE DEF accounts, links
<1>0. UNCHANGED <<accounts, links>> => OnlyGains /\ RoleEvolves(p)
  BY DEF OnlyGains, RoleEvolves, InTable
<1>1. CASE Start(p)
  <2>1. \E c : Reads(p, c)
    BY <1>1, StartReads
  <2>. QED  BY <1>0, <1>1, <2>1 DEF Reads, TypeOK
<1>2. CASE Crash(p)
  BY <1>0, <1>2 DEF Crash, Return, Running, Idle, TypeOK
<1>3. CASE Continue(p)
  <2>1. Running(p) /\ call[p] \in Call
    <3>1. Running(p)
      BY <1>3 DEF Continue, CreateUser, LinkGoogle, CreateOAuthUser, InvalidateTokens,
         InsertLink, Mail, VerifyAndActivate, ResetWithToken, FindToOnboard, UpdateRole,
         UpdateStatus, At, Running
    <3>. QED  BY <3>1, SlotType
  <2>2. /\ \A q \in Slots \ {p} : call'[q] = call[q]
        /\ ~Running(p)' \/ Kept(p)
    <3>1. CASE Return(p)
      BY <3>1 DEF Return, Running, Idle, TypeOK
    <3>2. CASE \E step : Goto(p, step)
      <4>. PICK step : Goto(p, step)
        BY <3>2
      <4>1. call'[p] = [call[p] EXCEPT !.step = step]
        BY DEF Goto, TypeOK
      <4>. QED  BY <2>1, <4>1 DEF Goto, TypeOK, Kept, Call
    <3>3. CASE InsertLink(p)
      <4>. PICK l \in Links : call' = [call EXCEPT ![p].step = "mail", ![p].link = l]
        BY <3>3 DEF InsertLink
      <4>1. call'[p] = [call[p] EXCEPT !.step = "mail", !.link = l]
        BY DEF TypeOK
      <4>. QED  BY <2>1, <4>1 DEF TypeOK, Kept, Call
    <3>. QED
      BY <1>3, <3>1, <3>2, <3>3 DEF Continue, CreateUser, LinkGoogle, CreateOAuthUser,
         InvalidateTokens, Mail, VerifyAndActivate, ResetWithToken, FindToOnboard,
         UpdateRole, UpdateStatus
  <2>3. call[p].user \in Users
    BY <2>1, SlotType
  <2>4. /\ OnlyGains \/ Uses(p) \/ \E l \in Links : Inserts(p, l)
        /\ RoleEvolves(p)
    <3>1. CASE CreateUser(p)
      BY <2>3, <3>1 DEF CreateUser, OnlyGains, RoleEvolves, InTable, TypeOK
    <3>2. CASE LinkGoogle(p)
      BY <2>3, <3>2 DEF LinkGoogle, OnlyGains, RoleEvolves, InTable, TypeOK
    <3>3. CASE CreateOAuthUser(p)
      BY <2>3, <3>3 DEF CreateOAuthUser, OnlyGains, RoleEvolves, InTable, TypeOK
    <3>4. CASE InvalidateTokens(p)
      BY <3>4 DEF InvalidateTokens, OnlyGains, RoleEvolves, InTable
    <3>5. CASE InsertLink(p)
      BY <3>5 DEF InsertLink, Inserts, RoleEvolves
    <3>6. CASE Mail(p)
      BY <3>6 DEF Mail, OnlyGains, RoleEvolves, InTable
    <3>7. CASE VerifyAndActivate(p)
      BY <3>7 DEF VerifyAndActivate, Works, Uses, RoleEvolves
    <3>8. CASE ResetWithToken(p)
      BY <3>8 DEF ResetWithToken, Works, Uses, RoleEvolves
    <3>9. CASE FindToOnboard(p)
      BY <1>0, <3>9 DEF FindToOnboard
    <3>10. CASE UpdateRole(p)
      BY <3>10 DEF UpdateRole, OnlyGains, RoleEvolves, InTable, TypeOK
    <3>11. CASE UpdateStatus(p)
      BY <3>11 DEF UpdateStatus, OnlyGains, RoleEvolves, InTable
    <3>. QED
      BY <1>3, <3>1, <3>2, <3>3, <3>4, <3>5, <3>6, <3>7, <3>8, <3>9, <3>10, <3>11
         DEF Continue
  <2>. QED  BY <2>1, <2>2, <2>4
<1>. QED  BY <1>1, <1>2, <1>3

\* The kinds by operation.
LEMMA KindsAre ==
    /\ KindOf("register") = "verify" /\ KindOf("sendVerificationEmail") = "verify"
    /\ KindOf("verifyEmail") = "verify"
    /\ KindOf("requestPasswordReset") = "reset" /\ KindOf("resetPassword") = "reset"
    /\ KindOf("onboard") = "onboard" /\ KindOf("update") = "update"
    /\ KindOf("handleGoogleLogin") = "handleGoogleLogin"
BY DEF KindOf

\* Steps of the environment only let links expire and rows be soft-deleted.
LEMMA EnvironmentEffects ==
    ASSUME TypeOK, Environment
    PROVE  OnlyGains /\ UNCHANGED <<call, status, verified, linked, role>>
BY DEF Environment, SoftDelete, Expire, accounts, links, OnlyGains, InTable, TypeOK

\* The history variables only go up, and count everyone.
LEMMA MostGrows ==
    ASSUME TypeOK, Observe, NEW a \in Activities
    PROVE  most'[a] >= most[a] /\ most'[a] >= Cardinality(Doing(a)')
<1>1. Doing(a)' \in SUBSET Slots
  BY DEF Doing
<1>. QED  BY <1>1, SlotsFinite DEF TypeOK, Observe

----------------------------------------------------------------------------
(* Roles.                                                                  *)

\* "User has already been onboarded": once an account has a role and nobody is past
\* the checks of an onboarding, its role stays and nobody passes them again, whatever
\* onboardings overlapped before.
THEOREM RoleSettlesAlways == Spec => RoleSettles
<1>1. TypeOK /\ [Next]_vars =>
        [\A u \in Users : RoleSettled(u) => RoleSettled(u)' /\ role'[u] = role[u]]_vars
  <2>. SUFFICES ASSUME TypeOK, Next, NEW u \in Users, RoleSettled(u)
                PROVE  RoleSettled(u)' /\ role'[u] = role[u]
    OBVIOUS
  <2>1. CASE Environment
    BY <2>1, EnvironmentEffects DEF RoleSettled, At
  <2>2. ASSUME NEW p \in Slots, Start(p) \/ Continue(p) \/ Crash(p)
        PROVE  RoleSettled(u)' /\ role'[u] = role[u]
    <3>1. /\ RoleEvolves(p)
          /\ \A q \in Slots \ {p} : call'[q] = call[q]
      BY <2>2, Effects
    <3>2. role'[u] = role[u]
      BY <3>1 DEF RoleEvolves, RoleSettled
    <3>3. At(p, "onboard", "write")' => call'[p].user # u
      <4>. SUFFICES ASSUME At(p, "onboard", "write")', call'[p].user = u
                    PROVE  FALSE
        OBVIOUS
      <4>1. CASE Start(p)
        <5>1. ASSUME NEW op, NEW step, NEW v, NEW l, NEW arg,
                     op # "onboard" \/ step # "write",
                     Reads(p, Handler(op, step, v, l, arg))
              PROVE  FALSE
          BY <5>1 DEF Reads, Handler, At, TypeOK
        <5>. QED
          BY <4>1, <5>1 DEF Start, Register, GoogleLogin, SendVerification, RequestReset,
             Onboard, Update, VerifyEmail, ResetPassword, FollowLink
      <4>2. CASE Return(p)
        BY <4>2 DEF Return, At, Idle, TypeOK
      <4>3. ASSUME NEW step, Goto(p, step) PROVE step = "write"
        BY <4>3, Effects, SlotType, <2>2 DEF Goto, At, TypeOK, Call
      <4>4. CASE FindToOnboard(p) /\ ~Return(p)
        <5>1. call[p].user = u /\ role[u] = None
          BY <4>4, Effects, <2>2 DEF FindToOnboard, MayOnboard, At, Running, Kept
        <5>. QED  BY <5>1 DEF RoleSettled
      <4>5. CASE InsertLink(p)
        <5>1. call[p].op # "onboard"
          BY <4>5, SenderKind DEF InsertLink
        <5>. QED  BY <2>2, <4>5, <5>1, Effects DEF InsertLink, At, Kept, Running, Idle
      <4>. QED
        BY <2>2, <4>1, <4>2, <4>3, <4>4, <4>5 DEF Continue, Crash, CreateUser, LinkGoogle,
           CreateOAuthUser, InvalidateTokens, Mail, VerifyAndActivate, ResetWithToken,
           FindToOnboard, UpdateRole, UpdateStatus
    <3>. QED  BY <3>1, <3>2, <3>3 DEF RoleSettled, At
  <2>. QED  BY <2>1, <2>2 DEF Next
<1>. QED  BY <1>1, TypeCorrect, PTL DEF Spec, RoleSettles

----------------------------------------------------------------------------
(* Links that are superseded.                                              *)

\* A sending that has invalidated the older links, and has met no other since, finds
\* none of them usable when it inserts its own.
OlderEnded ==
    \A p \in Slots :
        /\ Running(p) /\ call[p].step = "insert" /\ p \notin crossed =>
               \A l \in LinksOf(call[p].user, KindOf(call[p].op)) : ~Usable(l)
        /\ \A q \in Slots \ {p} : Meet(p, q) => p \in crossed

SendingInv == TypeOK /\ OlderEnded

\* Who is past the invalidation and uncrossed was not crossed before.
LEMMA StaysCrossed ==
    ASSUME Observe, NEW p \in Slots, p \notin crossed',
           Running(p)', call'[p].step = "insert"
    PROVE  /\ p \notin crossed
           /\ \A q \in Slots \ {p} : ~Meet(p, q)'
BY DEF Observe, Meet

LEMMA SendingStep == SendingInv /\ [Next]_vars => SendingInv'
<1>. SUFFICES ASSUME SendingInv, [Next]_vars PROVE SendingInv'
  OBVIOUS
<1>0. TypeOK /\ TypeOK' /\ OlderEnded
  BY TypeStep DEF SendingInv
<1>1. CASE UNCHANGED vars
  BY <1>0, <1>1 DEF vars, SendingInv, OlderEnded, LinksOf, Usable, Meet, Running
<1>2. CASE Next
  <2>1. \A p, q \in Slots : p # q /\ Meet(p, q)' => p \in crossed'
    BY <1>2 DEF Next, Observe
  <2>2. ASSUME NEW q \in Slots, Running(q)', call'[q].step = "insert", q \notin crossed',
               NEW l \in Links, link'[l] # None, link'[l].user = call'[q].user,
               link'[l].kind = KindOf(call'[q].op), Usable(l)'
        PROVE  FALSE
    <3>0. q \notin crossed
      BY <1>2, <2>2, StaysCrossed DEF Next
    <3>1. ASSUME OnlyGains \/ (used \subseteq used' /\ UNCHANGED <<link, expired>>), call'[q] = call[q]
          PROVE  FALSE
      BY <1>0, <2>2, <3>0, <3>1 DEF OnlyGains, OlderEnded, LinksOf, Usable, Running
    <3>2. CASE Environment
      BY <1>0, <3>1, <3>2, EnvironmentEffects
    <3>3. ASSUME NEW p \in Slots, Start(p) \/ Continue(p) \/ Crash(p)
          PROVE  FALSE
      <4>1. CASE q # p
        <5>1. call'[q] = call[q]
          BY <1>0, <3>3, <4>1, Effects
        <5>2. CASE OnlyGains \/ Uses(p)
          BY <3>1, <5>1, <5>2 DEF Uses
        <5>3. ASSUME NEW n \in Links, Inserts(p, n) PROVE FALSE
          <6>1. Running(p) /\ call[p].step = "insert" /\ Running(q) /\ call[q].step = "insert"
            BY <2>2, <5>1, <5>3 DEF Inserts, Running
          <6>2. ~Meet(q, p)
            BY <1>0, <3>0, <4>1 DEF OlderEnded
          <6>3. l # n
            BY <1>0, <2>2, <5>1, <5>3, <6>1, <6>2 DEF Inserts, Meet, TypeOK
          <6>4. link'[l] = link[l] /\ UNCHANGED <<used, expired>>
            BY <1>0, <5>3, <6>3 DEF Inserts, TypeOK
          <6>. QED  BY <1>0, <2>2, <3>0, <5>1, <6>1, <6>4 DEF OlderEnded, LinksOf, Usable
        <5>. QED  BY <1>0, <3>3, <5>2, <5>3, Effects
      <4>2. CASE q = p
        <5>1. CASE Start(p)
          <6>1. ASSUME NEW op, NEW step, NEW v, NEW m, NEW arg, step # "insert",
                       Reads(p, Handler(op, step, v, m, arg))
                PROVE  FALSE
            BY <1>0, <2>2, <4>2, <6>1 DEF Reads, Handler, TypeOK
          <6>. QED
            BY <5>1, <6>1 DEF Start, Register, GoogleLogin, SendVerification, RequestReset,
               Onboard, Update, VerifyEmail, ResetPassword, FollowLink
        <5>2. CASE Return(p)
          BY <1>0, <2>2, <4>2, <5>2 DEF Return, Running, Idle, TypeOK
        <5>3. CASE InvalidateTokens(p)
          <6>1. Kept(p)
            BY <1>0, <2>2, <3>3, <4>2, <5>3, Effects DEF InvalidateTokens, Reads
          <6>2. /\ used' = used \cup LinksOf(call[p].user, KindOf(call[p].op))
                /\ link' = link
            BY <5>3 DEF InvalidateTokens, Invalidated
          <6>. QED  BY <2>2, <4>2, <6>1, <6>2 DEF Kept, LinksOf, Usable
        <5>4. ASSUME NEW step, Goto(p, step), Running(p) PROVE step = "insert"
          BY <1>0, <2>2, <4>2, <5>4, SlotType DEF Goto, TypeOK, Call
        <5>5. CASE InsertLink(p)
          <6>1. PICK m \in Links : call' = [call EXCEPT ![p].step = "mail", ![p].link = m]
            BY <5>5 DEF InsertLink
          <6>2. Running(p) /\ call[p] \in Call
            BY <1>0, <5>5, SlotType DEF InsertLink
          <6>3. call'[p] = [call[p] EXCEPT !.step = "mail", !.link = m]
            BY <1>0, <6>1 DEF TypeOK
          <6>. QED  BY <2>2, <4>2, <6>2, <6>3 DEF Call
        <5>. QED
          BY <3>3, <5>1, <5>2, <5>3, <5>4, <5>5 DEF Continue, Crash, CreateUser, LinkGoogle,
             CreateOAuthUser, Mail, VerifyAndActivate, ResetWithToken, FindToOnboard,
             UpdateRole, UpdateStatus, At, Running
      <4>. QED  BY <4>1, <4>2
    <3>. QED  BY <1>2, <3>2, <3>3 DEF Next
  <2>. QED  BY <1>0, <2>1, <2>2 DEF SendingInv, OlderEnded, LinksOf
<1>. QED  BY <1>1, <1>2

\* Asking for a new link ends every older one of its kind, however many handlers of
\* whatever kind overlap: only a sending that meets another past its invalidation may
\* leave the account with two usable links, and the next one that meets none ends both.
THEOREM SendingEndsOlderAlways == Spec => SendingEndsOlder
<1>1. Init => SendingInv
  <2>. SUFFICES ASSUME Init PROVE SendingInv
    OBVIOUS
  <2>1. \A p \in Slots : ~Running(p)
    BY DEF Init, Running, Idle
  <2>. QED  BY <2>1, TypeInit DEF SendingInv, OlderEnded, Meet
<1>2. SendingInv /\ [Next]_vars =>
        [\A p \in Slots :
          /\ Running(p) /\ call[p].step = "insert" /\ p \notin crossed
          /\ Running(p)' /\ call'[p].step = "mail"
          =>
              \A l \in LinksOf(call[p].user, KindOf(call[p].op))' :
                  Usable(l)' => l = call'[p].link]_vars
  <2>. SUFFICES ASSUME SendingInv, Next, NEW p \in Slots,
                       Running(p), call[p].step = "insert", p \notin crossed,
                       Running(p)', call'[p].step = "mail",
                       NEW l \in LinksOf(call[p].user, KindOf(call[p].op))', Usable(l)'
                PROVE  l = call'[p].link
    OBVIOUS
  <2>0. TypeOK /\ OlderEnded
    BY DEF SendingInv
  <2>1. Continue(p)
    <3>1. ~Environment
      BY <2>0, EnvironmentEffects
    <3>2. PICK q \in Slots : Start(q) \/ Continue(q) \/ Crash(q)
      BY <3>1 DEF Next
    <3>3. q = p
      BY <2>0, <3>2, Effects
    <3>. QED  BY <2>0, <3>2, <3>3, StartReads DEF Reads, Crash, Return, Idle, Running, TypeOK
  <2>2. call[p].op \in {"register", "sendVerificationEmail", "requestPasswordReset"}
    BY <2>0, SenderKind
  <2>3. InsertLink(p)
    <3>1. call'[p] # Idle
      BY DEF Running, Idle
    <3>. QED
      BY <2>0, <2>1, <2>2, <3>1 DEF Continue, CreateUser, LinkGoogle, CreateOAuthUser,
         InvalidateTokens, Mail, VerifyAndActivate, ResetWithToken, FindToOnboard,
         UpdateRole, UpdateStatus, At
  <2>4. PICK n \in Links :
          /\ link' = [link EXCEPT ![n] = [kind |-> KindOf(call[p].op), user |-> call[p].user]]
          /\ call' = [call EXCEPT ![p].step = "mail", ![p].link = n]
    BY <2>3 DEF InsertLink
  <2>5. UNCHANGED <<used, expired>>
    BY <2>3 DEF InsertLink
  <2>6. /\ call'[p].link = n /\ call'[p].op = call[p].op /\ call'[p].user = call[p].user
    <3>1. call'[p] = [call[p] EXCEPT !.step = "mail", !.link = n]
      BY <2>0, <2>4 DEF TypeOK
    <3>. QED  BY <2>0, <3>1, SlotType DEF Call
  <2>7. l \in Links /\ link'[l].user = call[p].user /\ link'[l].kind = KindOf(call[p].op)
    BY <2>6 DEF LinksOf
  <2>8. CASE l # n
    <3>1. link'[l] = link[l]
      BY <2>0, <2>4, <2>7, <2>8 DEF TypeOK
    <3>2. Usable(l) /\ l \in LinksOf(call[p].user, KindOf(call[p].op))
      BY <2>5, <2>7, <3>1 DEF Usable, LinksOf
    <3>. QED  BY <2>0, <3>2 DEF OlderEnded
  <2>. QED  BY <2>6, <2>8
<1>. QED  BY <1>1, <1>2, SendingStep, PTL DEF Spec, SendingEndsOlder

----------------------------------------------------------------------------
(* Links that are followed.                                                *)

\* Those who follow a link now and the times it has worked: together no more than
\* were ever following it at once, for nobody begins once it has worked.
FollowersCounted ==
    \A l \in Links :
        /\ works[l] + Cardinality(Doing(Following(l))) <= most[Following(l)]
        /\ works[l] # 0 => l \in used

FollowingInv == TypeOK /\ FollowersCounted

\* Who follows a link has one step to go.
LEMMA FollowerEnds ==
    ASSUME TypeOK, NEW p \in Slots, Continue(p) \/ Crash(p)
    PROVE  ~(Running(p)' /\ Follows(p)')
<1>. SUFFICES ASSUME Running(p)', Follows(p)' PROVE FALSE
  OBVIOUS
<1>1. ~Return(p)
  BY DEF Return, Running, Idle, TypeOK
<1>2. Running(p) /\ Kept(p)
  <2>1. Running(p)
    BY <1>1 DEF Continue, Crash, CreateUser, LinkGoogle, CreateOAuthUser, InvalidateTokens,
       InsertLink, Mail, VerifyAndActivate, ResetWithToken, FindToOnboard, UpdateRole,
       UpdateStatus, At, Running
  <2>. QED  BY <2>1, Effects
<1>3. call[p].op \in {"verifyEmail", "resetPassword"} /\ call[p].step = "write"
  BY <1>2, SlotType, OpsAre DEF Follows, Kept
<1>. QED
  BY <1>1, <1>3, SenderKind DEF Continue, Crash, CreateUser, LinkGoogle, CreateOAuthUser,
     InvalidateTokens, InsertLink, Mail, VerifyAndActivate, ResetWithToken, FindToOnboard,
     UpdateRole, UpdateStatus, At

LEMMA FollowingStep == FollowingInv /\ [Next]_vars => FollowingInv'
<1>. SUFFICES ASSUME FollowingInv, [Next]_vars PROVE FollowingInv'
  OBVIOUS
<1>0. TypeOK /\ TypeOK' /\ FollowersCounted
  BY TypeStep DEF FollowingInv
<1>. SUFFICES ASSUME NEW l \in Links
              PROVE  /\ works'[l] + Cardinality(Doing(Following(l))') <= most'[Following(l)]
                     /\ works'[l] # 0 => l \in used'
  BY <1>0 DEF FollowingInv, FollowersCounted, Following
<1>. DEFINE D == {p \in Slots : Running(p) /\ Follows(p) /\ call[p].link = l}
            E == {p \in Slots : Running(p)' /\ Follows(p)' /\ call'[p].link = l}
<1>1. /\ Doing(Following(l)) = D /\ Doing(Following(l))' = E
      /\ Following(l) \in Activities
  <2>1. Doing(Following(l))' = E
    BY DEF Doing, Following
  <2>. QED  BY <2>1, ActivitiesAre
<1>2. /\ D \in SUBSET Slots /\ E \in SUBSET Slots
      /\ IsFiniteSet(D) /\ Cardinality(D) \in Nat /\ Cardinality(E) \in Nat
  BY SlotsFinite
<1>3. /\ works[l] + Cardinality(D) <= most[Following(l)]
      /\ works[l] # 0 => l \in used
      /\ works[l] \in Nat /\ most[Following(l)] \in Nat /\ most'[Following(l)] \in Nat
  BY <1>0, <1>1 DEF FollowersCounted, TypeOK
<1>4. CASE UNCHANGED vars
  <2>1. E = D /\ works'[l] = works[l] /\ used' = used /\ most' = most
    BY <1>4 DEF vars, Running, Follows
  <2>. QED  BY <1>1, <1>3, <2>1
<1>5. CASE Next
  <2>1. /\ most'[Following(l)] >= most[Following(l)]
        /\ most'[Following(l)] >= Cardinality(E)
    BY <1>0, <1>1, <1>5, MostGrows DEF Next
  <2>. HIDE DEF D, E
  <2>2. CASE Environment
    <3>1. E = D /\ works'[l] = works[l] /\ used \subseteq used'
      BY <1>0, <2>2, EnvironmentEffects DEF D, E, Running, Follows, OnlyGains
    <3>. QED  BY <1>1, <1>2, <1>3, <2>1, <3>1
  <2>3. ASSUME NEW p \in Slots, Start(p) \/ Continue(p) \/ Crash(p)
        PROVE  /\ works'[l] + Cardinality(E) <= most'[Following(l)]
               /\ works'[l] # 0 => l \in used'
    <3>1. \A q \in Slots \ {p} : call'[q] = call[q]
      BY <1>0, <2>3, Effects
    <3>2. \A q \in Slots \ {p} : q \in E <=> q \in D
      BY <3>1 DEF D, E, Running, Follows
    <3>3. CASE Uses(p) /\ call[p].link = l
      <4>1. p \in D /\ p \notin E
        <5>1. p \in D /\ ~Start(p)
          BY <3>3, StartReads DEF Uses, At, D, Running, Follows, Reads
        <5>. QED  BY <1>0, <2>3, <5>1, FollowerEnds DEF E
      <4>2. E = D \ {p}
        BY <1>2, <3>2, <4>1
      <4>3. Cardinality(E) = Cardinality(D) - 1
        BY <1>2, <4>1, <4>2, FS_RemoveElement
      <4>4. works'[l] = works[l] + 1 /\ l \in used'
        BY <1>0, <3>3 DEF Uses, TypeOK
      <4>. QED  BY <1>2, <1>3, <2>1, <4>3, <4>4
    <3>4. CASE ~(Uses(p) /\ call[p].link = l)
      <4>1. works'[l] = works[l] /\ used \subseteq used'
        <5>1. Uses(p) => call[p].link \in Links
          BY <1>0, SlotType DEF Uses, At, Running
        <5>. QED  BY <1>0, <2>3, <3>4, <5>1, Effects DEF OnlyGains, Uses, Inserts, TypeOK
      <4>2. CASE p \notin E
        <5>1. E \subseteq D
          BY <1>2, <3>2, <4>2
        <5>2. Cardinality(E) <= Cardinality(D)
          BY <1>2, <5>1, FS_Subset
        <5>. QED  BY <1>2, <1>3, <2>1, <4>1, <5>2
      <4>3. CASE p \in E
        <5>1. Start(p)
          BY <1>0, <2>3, <4>3, FollowerEnds DEF E
        <5>2. l \notin used
          <6>1. ASSUME NEW op, NEW step, NEW u, NEW arg,
                       op \notin {"verifyEmail", "resetPassword"},
                       Reads(p, Handler(op, step, u, None, arg))
                PROVE  FALSE
            BY <1>0, <4>3, <6>1 DEF Reads, Handler, TypeOK, E, Follows
          <6>2. PICK n \in Links, op \in {"verifyEmail", "resetPassword"} :
                  /\ Usable(n)
                  /\ Reads(p, Handler(op, "write", link[n].user, n, None))
            BY <5>1, <6>1 DEF Start, Register, GoogleLogin, SendVerification, RequestReset,
               Onboard, Update, VerifyEmail, ResetPassword, FollowLink, Accepted
          <6>3. n = l
            BY <1>0, <4>3, <6>2 DEF Reads, Handler, TypeOK, E
          <6>. QED  BY <6>2, <6>3 DEF Usable
        <5>. QED  BY <1>2, <1>3, <2>1, <4>1, <5>2
      <4>. QED  BY <4>2, <4>3
    <3>. QED  BY <3>3, <3>4
  <2>. QED  BY <1>1, <1>5, <2>2, <2>3 DEF Next
<1>. QED  BY <1>4, <1>5

\* "Should throw for already-used token", with callers who overlap: a link does its
\* work for at most as many as ever followed it at the same time, although usedAt is
\* checked on a read and the write is unconditional; once, if they never overlap.
THEOREM LinkWorksForOverlappingAlways == Spec => []LinkWorksForOverlapping
<1>1. Init => FollowingInv
  <2>. SUFFICES ASSUME Init PROVE FollowingInv
    OBVIOUS
  <2>1. ASSUME NEW l \in Links
        PROVE  /\ works[l] = 0 /\ most[Following(l)] = 1
               /\ Doing(Following(l)) = {}
    BY ActivitiesAre DEF Init, Running, Idle
  <2>. QED  BY <2>1, TypeInit, FS_EmptySet DEF FollowingInv, FollowersCounted
<1>2. FollowingInv => LinkWorksForOverlapping
  <2>. SUFFICES ASSUME FollowingInv, NEW l \in Links
                PROVE  works[l] <= most[Following(l)]
    BY DEF LinkWorksForOverlapping
  <2>1. Doing(Following(l)) \in SUBSET Slots
    BY DEF Doing
  <2>2. Cardinality(Doing(Following(l))) \in Nat
    BY <2>1, SlotsFinite
  <2>3. works[l] \in Nat /\ most[Following(l)] \in Nat
    BY ActivitiesAre DEF FollowingInv, TypeOK
  <2>. QED  BY <2>2, <2>3 DEF FollowingInv, FollowersCounted
<1>. QED  BY <1>1, <1>2, FollowingStep, PTL DEF Spec

----------------------------------------------------------------------------
(* Suspensions.                                                            *)

\* Nobody is counted out.
MostCounts == \A a \in Activities : most[a] >= 1 /\ Cardinality(Doing(a)) <= most[a]

\* Whoever a link is for is in the table, and a handler holds the link it follows.
RowsSound ==
    /\ \A l \in Links : link[l] # None => InTable(link[l].user)
    /\ \A u \in verified \ linked : InTable(u)
    /\ \A p \in Slots : Running(p) =>
          /\ call[p].step \in {"invalidate", "insert"} => InTable(call[p].user)
          /\ Follows(p) => LinkFor(call[p].link, KindOf(call[p].op), call[p].user)

\* An account whose verifications have not overlapped has one usable verification
\* link, and none while a sending is past its invalidation or once a link has verified
\* it; and nobody is then about to send or follow one.
VerifyingSound(u) ==
    /\ \A l, m \in Links :
          Usable(l) /\ LinkFor(l, "verify", u) /\ Usable(m) /\ LinkFor(m, "verify", u) => l = m
    /\ u \in verified \ linked => \A l \in Links : Usable(l) => ~LinkFor(l, "verify", u)
    /\ \A p \in Doing(Verifying(u)) :
          /\ call[p].step = "insert" => \A l \in Links : Usable(l) => ~LinkFor(l, "verify", u)
          /\ Follows(p) => \A l \in Links :
                 Usable(l) /\ LinkFor(l, "verify", u) => l = call[p].link
          /\ u \in verified \ linked => call[p].step = "create"

VerifyingInv ==
    /\ TypeOK
    /\ MostCounts
    /\ RowsSound
    /\ \A u \in Users : most[Verifying(u)] = 1 => VerifyingSound(u)

LEMMA MostStep == TypeOK /\ MostCounts /\ [Next]_vars => MostCounts'
<1>. SUFFICES ASSUME TypeOK, MostCounts, [Next]_vars, NEW a \in Activities
              PROVE  most'[a] >= 1 /\ Cardinality(Doing(a)') <= most'[a]
  BY DEF MostCounts, Activities
<1>1. CASE UNCHANGED vars
  <2>1. Doing(a)' = Doing(a) /\ most' = most
    BY <1>1 DEF vars, Doing, Running, Follows
  <2>. QED  BY <2>1 DEF MostCounts
<1>2. CASE Next
  <2>1. /\ most'[a] >= most[a] /\ most'[a] >= Cardinality(Doing(a)')
        /\ most[a] \in Nat /\ most'[a] \in Nat
    BY <1>2, MostGrows, ObserveType DEF Next, TypeOK
  <2>2. Doing(a)' \in SUBSET Slots
    BY DEF Doing
  <2>. QED  BY <2>1, <2>2, SlotsFinite DEF MostCounts
<1>. QED  BY <1>1, <1>2

\* Where nobody has overlapped, two handlers at one thing are one.
LEMMA OneAtOnce ==
    ASSUME NEW S \in SUBSET Slots, Cardinality(S) <= 1, NEW p \in S, NEW q \in S
    PROVE  p = q
<1>. SUFFICES ASSUME p # q PROVE FALSE
  OBVIOUS
<1>1. Cardinality({p}) = 1 /\ IsFiniteSet({p})
  BY FS_Singleton
<1>2. Cardinality({p, q}) = 2
  <2>1. {p, q} = {p} \cup {q}
    OBVIOUS
  <2>. QED  BY <1>1, <2>1, FS_AddElement
<1>3. IsFiniteSet(S) /\ Cardinality(S) \in Nat
  BY SlotsFinite
<1>4. Cardinality({p, q}) <= Cardinality(S)
  BY <1>3, FS_Subset
<1>. QED  BY <1>2, <1>3, <1>4

\* An account that has not overlapped at this step has not before it.
LEMMA StaysAlone ==
    ASSUME TypeOK, MostCounts, Next, NEW u \in Users, most'[Verifying(u)] = 1
    PROVE  /\ most[Verifying(u)] = 1
           /\ \A p, q \in Doing(Verifying(u)) : p = q
           /\ \A p, q \in Doing(Verifying(u))' : p = q
<1>1. Verifying(u) \in Activities
  BY ActivitiesAre
<1>2. most[Verifying(u)] = 1 /\ Cardinality(Doing(Verifying(u))') <= 1
  <2>1. Doing(Verifying(u))' \in SUBSET Slots
    BY DEF Doing
  <2>2. /\ most'[Verifying(u)] >= most[Verifying(u)]
        /\ most'[Verifying(u)] >= Cardinality(Doing(Verifying(u)))'
        /\ most[Verifying(u)] \in Nat
    BY <1>1, MostGrows DEF Next, TypeOK, Verifying
  <2>. QED  BY <1>1, <2>1, <2>2, SlotsFinite DEF MostCounts
<1>3. Doing(Verifying(u)) \in SUBSET Slots /\ Doing(Verifying(u))' \in SUBSET Slots
  BY DEF Doing
<1>4. Cardinality(Doing(Verifying(u))) <= 1
  BY <1>1, <1>2 DEF MostCounts
<1>. QED  BY <1>2, <1>3, <1>4, OneAtOnce

\* What a handler is doing when it has started.
LEMMA StartsAt ==
    ASSUME TypeOK, NEW p \in Slots, Start(p)
    PROVE  LET c == call'[p] IN
           /\ UNCHANGED <<accounts, links>> /\ ~Running(p)
           /\ c.user \in Users
           /\ \/ c.op = "register" /\ c.step = "create"
              \/ /\ c.op \in {"handleGoogleLogin", "onboard", "update"}
                 /\ c.step \in {"create", "link", "find", "write"}
              \/ /\ c.step = "invalidate" /\ Present(c.user)
                 /\ c.op = "sendVerificationEmail" => c.user \notin verified
                 /\ c.op \in {"sendVerificationEmail", "requestPasswordReset"}
              \/ /\ c.op \in {"verifyEmail", "resetPassword"} /\ c.step = "write"
                 /\ c.link \in Links /\ Usable(c.link)
                 /\ LinkFor(c.link, KindOf(c.op), c.user)
<1>. USE KindsAre DEF accounts, links
<1>0. ~Running(p)
  BY StartReads DEF Reads
<1>1. ASSUME NEW op, NEW step, NEW u, NEW l, NEW arg, Reads(p, Handler(op, step, u, l, arg))
      PROVE  /\ call'[p].op = op /\ call'[p].step = step
             /\ call'[p].user = u /\ call'[p].link = l /\ UNCHANGED <<accounts, links>>
  BY <1>1 DEF Reads, Handler, TypeOK
<1>2. ASSUME NEW u \in Users, Register(p, u) \/ GoogleLogin(p, u)
      PROVE  /\ call'[p].op \in {"register", "handleGoogleLogin"} /\ call'[p].user = u
             /\ \/ call'[p].step = "create"
                \/ call'[p].op # "register" /\ call'[p].step = "link"
             /\ UNCHANGED <<accounts, links>>
  <2>1. \/ Reads(p, Handler("register", "create", u, None, None))
        \/ Reads(p, Handler("handleGoogleLogin", "create", u, None, None))
        \/ Reads(p, Handler("handleGoogleLogin", "link", u, None, None))
    BY <1>2 DEF Register, GoogleLogin
  <2>. QED  BY <1>1, <2>1
<1>3. ASSUME NEW u \in Users, SendVerification(p, u) \/ RequestReset(p, u)
      PROVE  /\ call'[p].step = "invalidate" /\ call'[p].user = u /\ Present(u)
             /\ call'[p].op = "sendVerificationEmail" => u \notin verified
             /\ call'[p].op \in {"sendVerificationEmail", "requestPasswordReset"}
             /\ UNCHANGED <<accounts, links>>
  BY <1>1, <1>3 DEF SendVerification, RequestReset
<1>4. ASSUME NEW u \in Users, NEW r, Onboard(p, u, r) \/ Update(p, u, r)
      PROVE  /\ call'[p].op \in {"onboard", "update"} /\ call'[p].user = u
             /\ call'[p].step \in {"find", "write"}
             /\ UNCHANGED <<accounts, links>>
  BY <1>1, <1>4 DEF Onboard, Update
<1>5. ASSUME NEW l \in Links, VerifyEmail(p, l) \/ ResetPassword(p, l)
      PROVE  /\ call'[p].op \in {"verifyEmail", "resetPassword"} /\ call'[p].step = "write"
             /\ call'[p].link = l /\ Usable(l) /\ call'[p].user = link[l].user
             /\ LinkFor(l, KindOf(call'[p].op), link[l].user)
             /\ UNCHANGED <<accounts, links>>
  BY <1>1, <1>5 DEF VerifyEmail, ResetPassword, FollowLink, Accepted, Usable, LinkFor
<1>6. \A l \in Links : Usable(l) => link[l].user \in Users
  BY DEF Usable, TypeOK, LinkRow
<1>. HIDE DEF accounts, links
<1>7. CASE \E u \in Users : Register(p, u) \/ GoogleLogin(p, u)
  BY <1>0, <1>2, <1>7
<1>8. CASE \E u \in Users : SendVerification(p, u) \/ RequestReset(p, u)
  BY <1>0, <1>3, <1>8
<1>9. CASE \E u \in Users : \E r : Onboard(p, u, r) \/ Update(p, u, r)
  BY <1>0, <1>4, <1>9
<1>10. CASE \E l \in Links : VerifyEmail(p, l) \/ ResetPassword(p, l)
  BY <1>0, <1>5, <1>6, <1>10
<1>. QED  BY <1>7, <1>8, <1>9, <1>10 DEF Start

\* What a handler that goes on does next.
LEMMA GoesTo ==
    ASSUME TypeOK, NEW p \in Slots, Continue(p) \/ Crash(p), Running(p)'
    PROVE  LET c == call'[p] IN
           /\ Running(p) /\ Kept(p) /\ c.user \in Users /\ ~Follows(p)'
           /\ \/ /\ c.step = "invalidate" /\ ~InTable(c.user)
                 /\ row' = [row EXCEPT ![c.user] = "present"]
                 /\ UNCHANGED <<verified, linked>>
              \/ /\ c.step = "insert" /\ call[p].step = "invalidate"
                 /\ used' = used \cup LinksOf(c.user, KindOf(c.op))
                 /\ UNCHANGED <<accounts, link, expired>>
              \/ c.step = "mail" /\ call[p].step = "insert" /\ UNCHANGED accounts
              \/ c.op = "onboard" /\ c.step = "write"
<1>. USE DEF accounts, links
<1>1. ~Return(p)
  BY DEF Return, Running, Idle, TypeOK
<1>2. Running(p) /\ Kept(p) /\ call[p].user \in Users /\ ~Follows(p)'
  <2>1. Running(p)
    BY <1>1 DEF Continue, Crash, CreateUser, LinkGoogle, CreateOAuthUser,
       InvalidateTokens, InsertLink, Mail, VerifyAndActivate, ResetWithToken,
       FindToOnboard, UpdateRole, UpdateStatus, At, Running
  <2>. QED  BY <2>1, Effects, SlotType, FollowerEnds
<1>3. ASSUME NEW step, Goto(p, step) PROVE call'[p].step = step
  <2>1. call'[p] = [call[p] EXCEPT !.step = step]
    BY <1>3 DEF Goto, TypeOK
  <2>. QED  BY <1>2, <2>1, SlotType DEF Call
<1>4. CASE CreateUser(p)
  BY <1>1, <1>2, <1>3, <1>4 DEF CreateUser, Kept
<1>5. CASE InvalidateTokens(p)
  BY <1>2, <1>3, <1>5 DEF InvalidateTokens, Invalidated, Kept
<1>6. CASE InsertLink(p)
  <2>1. PICK l \in Links : call' = [call EXCEPT ![p].step = "mail", ![p].link = l]
    BY <1>6 DEF InsertLink
  <2>2. call'[p] = [call[p] EXCEPT !.step = "mail", !.link = l]
    BY <2>1 DEF TypeOK
  <2>3. call'[p].step = "mail"
    BY <1>2, <2>2, SlotType DEF Call
  <2>. QED  BY <1>2, <1>6, <2>3 DEF InsertLink, Kept
<1>7. CASE FindToOnboard(p)
  BY <1>1, <1>2, <1>3, <1>7 DEF FindToOnboard, At, Kept
<1>. QED
  BY <1>1, <1>4, <1>5, <1>6, <1>7 DEF Continue, Crash, LinkGoogle, CreateOAuthUser,
     Mail, VerifyAndActivate, ResetWithToken, UpdateRole, UpdateStatus

LEMMA RowsStep ==
    ASSUME TypeOK, RowsSound, NEW p \in Slots, Start(p) \/ Continue(p) \/ Crash(p)
    PROVE  RowsSound'
<1>1. \A q \in Slots \ {p} : call'[q] = call[q]
  BY Effects
<1>2. /\ \A u \in Users : InTable(u) => InTable(u)'
      /\ \A l \in Links : link[l] # None => link'[l] = link[l]
  BY Effects DEF OnlyGains, Uses, Inserts, InTable, accounts, TypeOK
<1>3. \A l \in Links : link[l] # None => link[l].user \in Users
  BY DEF TypeOK, LinkRow
<1>4. ASSUME NEW l \in Links, link'[l] # None
      PROVE  row'[link'[l].user] # "absent"
  <2>1. CASE link[l] # None
    BY <1>2, <1>3, <2>1 DEF RowsSound, InTable
  <2>2. CASE link[l] = None
    <3>1. PICK n \in Links : Inserts(p, n)
      BY <1>4, <2>2, Effects DEF OnlyGains, Uses
    <3>2. link'[l].user = call[p].user
      BY <1>4, <2>2, <3>1 DEF Inserts, TypeOK
    <3>. QED  BY <3>1, <3>2 DEF Inserts, RowsSound, InTable, accounts
  <2>. QED  BY <2>1, <2>2
<1>5. ASSUME NEW u \in verified' \ linked'
      PROVE  InTable(u)'
  <2>0. u \in Users
    <3>1. Uses(p) => call[p].user \in Users
      BY SlotType DEF Uses, At, Running
    <3>2. verified \subseteq Users
      BY DEF TypeOK
    <3>. QED  BY <1>5, <3>1, <3>2, Effects DEF OnlyGains, Uses, Inserts, accounts
  <2>1. CASE u \in verified \ linked
    BY <1>2, <2>0, <2>1 DEF RowsSound
  <2>2. CASE u \notin verified \ linked
    <3>1. Uses(p) /\ At(p, "verifyEmail", "write") /\ u = call[p].user
      BY <1>5, <2>2, Effects DEF OnlyGains, Uses, Inserts, accounts
    <3>2. LinkFor(call[p].link, KindOf(call[p].op), call[p].user) /\ call[p].link \in Links
      BY <3>1, SlotType DEF RowsSound, At, Running, Follows
    <3>. QED  BY <1>2, <2>0, <3>1, <3>2 DEF RowsSound, LinkFor
  <2>. QED  BY <2>1, <2>2
<1>6. ASSUME NEW q \in Slots, Running(q)'
      PROVE  /\ call'[q].step \in {"invalidate", "insert"} => row'[call'[q].user] # "absent"
             /\ Follows(q)' => LinkFor(call[q].link, KindOf(call[q].op), call[q].user)'
  <2>1. CASE q # p
    <3>1. Running(q) /\ call'[q] = call[q] /\ call[q].user \in Users
      BY <1>1, <1>6, <2>1, SlotType DEF Running
    <3>2. Follows(q) => call[q].link \in Links
      BY <3>1, SlotType DEF Follows
    <3>. QED  BY <1>2, <3>1, <3>2 DEF RowsSound, InTable, LinkFor, Follows
  <2>2. CASE q = p
    <3>1. CASE Start(p)
      <4>1. UNCHANGED <<accounts, links>>
        BY <1>6, <2>2, <3>1, StartsAt
      <4>2. call'[p].step \in {"invalidate", "insert"} => Present(call'[p].user)
        BY <1>6, <2>2, <3>1, StartsAt
      <4>3. Follows(p)' => LinkFor(call[p].link, KindOf(call[p].op), call[p].user)'
        <5>1. Follows(p)' =>
                /\ link[call'[p].link] # None
                /\ link[call'[p].link].kind = KindOf(call'[p].op)
                /\ link[call'[p].link].user = call'[p].user
          BY <1>6, <2>2, <3>1, StartsAt DEF LinkFor, Follows
        <5>. QED  BY <4>1, <5>1 DEF LinkFor, links
      <4>. QED  BY <2>2, <4>1, <4>2, <4>3 DEF Present, accounts
    <3>2. CASE ~Start(p)
      <4>1. /\ Running(p) /\ Kept(p) /\ call'[p].user \in Users /\ ~Follows(p)'
            /\ \/ call'[p].step = "invalidate" /\ row' = [row EXCEPT ![call'[p].user] = "present"]
               \/ call'[p].step = "insert" /\ call[p].step = "invalidate" /\ UNCHANGED accounts
               \/ call'[p].step \notin {"invalidate", "insert"}
        BY <1>6, <2>2, <3>2, GoesTo
      <4>2. call'[p].step = "insert" => row'[call'[p].user] # "absent"
        BY <4>1 DEF RowsSound, InTable, Kept, accounts
      <4>3. call'[p].step = "invalidate" => row'[call'[p].user] # "absent"
        BY <4>1 DEF TypeOK
      <4>. QED  BY <2>2, <4>1, <4>2, <4>3
    <3>. QED  BY <3>1, <3>2
  <2>. QED  BY <2>1, <2>2
<1>. QED  BY <1>4, <1>5, <1>6 DEF RowsSound, InTable, LinkFor, Follows

\* What the handlers of u find when p has made a step.
LEMMA VerifyingStep ==
    ASSUME TypeOK, MostCounts, RowsSound, Next,
           NEW p \in Slots, Start(p) \/ Continue(p) \/ Crash(p),
           NEW u \in Users, most'[Verifying(u)] = 1, VerifyingSound(u)
    PROVE  VerifyingSound(u)'
<1>. USE KindsAre
<1>. DEFINE Fits(l) == Usable(l) /\ LinkFor(l, "verify", u)
            FitsNext(l) == Usable(l)' /\ LinkFor(l, "verify", u)'
            ByLink == u \in verified \ linked
            ByLinkNext == u \in verified' \ linked'
            Mine == Running(p) /\ KindOf(call[p].op) = "verify" /\ call[p].user = u
            Theirs(q) == q \in Doing(Verifying(u))
            TheirsNext(q) == Running(q)' /\ KindOf(call'[q].op) = "verify" /\ call'[q].user = u
<1>1. /\ \A q \in Slots \ {p} : call'[q] = call[q]
      /\ OnlyGains \/ Uses(p) \/ \E n \in Links : Inserts(p, n)
  BY Effects
<1>2. /\ \A q, r \in Slots : Theirs(q) /\ Theirs(r) => q = r
      /\ \A q \in Slots : Theirs(q) <=>
            Running(q) /\ KindOf(call[q].op) = "verify" /\ call[q].user = u
      /\ Mine <=> Theirs(p)
  BY StaysAlone, ActivitiesAre
<1>3. /\ \A l, m \in Links : Fits(l) /\ Fits(m) => l = m
      /\ ByLink => \A l \in Links : ~Fits(l)
      /\ \A q \in Slots : Theirs(q) =>
          /\ call[q].step = "insert" => \A l \in Links : ~Fits(l)
          /\ Follows(q) => \A l \in Links : Fits(l) => l = call[q].link
          /\ ByLink => call[q].step = "create"
  BY DEF VerifyingSound
<1>4. \/ \A l \in Links : FitsNext(l) => Fits(l)
      \/ Mine /\ call[p].step = "insert" /\ \E n \in Links : \A l \in Links : FitsNext(l) => l = n \/ Fits(l)
  <2>1. CASE OnlyGains \/ Uses(p)
    BY <2>1 DEF OnlyGains, Uses, Usable, LinkFor
  <2>2. ASSUME NEW n \in Links, Inserts(p, n)
        PROVE  /\ \A l \in Links : FitsNext(l) => l = n \/ Fits(l)
               /\ call[p].step = "insert"
               /\ FitsNext(n) => Mine
    BY <2>2 DEF Inserts, TypeOK, Usable, LinkFor
  <2>. QED  BY <1>1, <2>1, <2>2
<1>5. ByLinkNext =>
        \/ ByLink
        \/ /\ Mine /\ Follows(p) /\ call[p].step = "write"
           /\ \A l \in Links : FitsNext(l) => l # call[p].link
  BY <1>1 DEF OnlyGains, Uses, Inserts, accounts, At, Running, Follows, Usable
<1>. HIDE DEF Fits, FitsNext, ByLink, ByLinkNext, Theirs
<1>6. /\ \A l, m \in Links : FitsNext(l) /\ FitsNext(m) => l = m
      /\ ByLinkNext => \A l \in Links : ~FitsNext(l)
  BY <1>2, <1>3, <1>4, <1>5
<1>7. ASSUME NEW q \in Slots, TheirsNext(q)
      PROVE  /\ call'[q].step = "insert" => \A l \in Links : ~FitsNext(l)
             /\ Follows(q)' => \A l \in Links : FitsNext(l) => l = call'[q].link
             /\ ByLinkNext => call'[q].step = "create"
  <2>1. CASE q # p
    <3>1. call'[q] = call[q] /\ Theirs(q) /\ ~Mine
      BY <1>1, <1>2, <1>7, <2>1 DEF Running
    <3>. QED  BY <1>3, <1>4, <1>5, <3>1 DEF Follows
  <2>2. CASE q = p /\ Start(p)
    <3>1. UNCHANGED <<accounts, links>> /\ ~Mine
      BY <2>2, StartsAt
    <3>2. \A l \in Links : FitsNext(l) => Fits(l)
      BY <1>4, <3>1
    <3>3. ByLinkNext => ByLink
      BY <1>5, <3>1
    <3>4. \/ call'[p].step = "create" /\ call'[p].op = "register"
          \/ /\ call'[p].step = "invalidate" /\ call'[p].op = "sendVerificationEmail"
             /\ ~ByLink
          \/ call'[p].op = "verifyEmail" /\ call'[p].link \in Links /\ Fits(call'[p].link)
             /\ call'[p].step = "write"
      BY <1>7, <2>2, StartsAt DEF ByLink, Fits
    <3>. QED  BY <1>3, <2>2, <3>2, <3>3, <3>4 DEF Follows
  <2>3. CASE q = p /\ ~Start(p)
    <3>1. /\ Mine /\ Theirs(p) /\ call'[p].user = u /\ KindOf(call'[p].op) = "verify"
          /\ ~Follows(p)'
      BY <1>2, <1>7, <2>3, GoesTo DEF Kept
    <3>2. CASE call'[p].step = "invalidate"
      <4>1. ~InTable(u) /\ UNCHANGED <<verified, linked>>
        BY <1>7, <2>3, <3>1, <3>2, GoesTo
      <4>2. ~ByLinkNext
        BY <4>1 DEF RowsSound, ByLinkNext
      <4>. QED  BY <2>3, <3>1, <3>2, <4>2
    <3>3. CASE call'[p].step = "insert"
      <4>1. /\ call[p].step = "invalidate" /\ used' = used \cup LinksOf(u, "verify")
            /\ UNCHANGED <<verified, linked, link, expired>>
        BY <1>7, <2>3, <3>1, <3>3, GoesTo DEF accounts
      <4>2. \A l \in Links : ~FitsNext(l)
        BY <4>1 DEF FitsNext, Usable, LinkFor, LinksOf
      <4>3. ~ByLinkNext
        BY <1>3, <1>5, <3>1, <4>1
      <4>. QED  BY <2>3, <3>1, <4>2, <4>3
    <3>4. CASE call'[p].step = "mail"
      <4>1. call[p].step = "insert"
        BY <1>7, <2>3, <3>1, <3>4, GoesTo
      <4>2. ~ByLinkNext
        BY <1>3, <1>5, <3>1, <4>1
      <4>. QED  BY <2>3, <3>1, <3>4, <4>2
    <3>. QED  BY <1>7, <2>3, <3>1, <3>2, <3>3, <3>4, GoesTo
  <2>. QED  BY <2>1, <2>2, <2>3
<1>8. \A q \in Doing(Verifying(u))' : q \in Slots /\ TheirsNext(q)
  BY DEF Doing, Verifying
<1>. QED  BY <1>6, <1>7, <1>8 DEF VerifyingSound, FitsNext, ByLinkNext, Verifying

LEMMA VerifyingInvStep == VerifyingInv /\ [Next]_vars => VerifyingInv'
<1>. SUFFICES ASSUME VerifyingInv, [Next]_vars PROVE VerifyingInv'
  OBVIOUS
<1>0. TypeOK /\ TypeOK' /\ MostCounts /\ MostCounts' /\ RowsSound
  BY TypeStep, MostStep DEF VerifyingInv
<1>1. CASE UNCHANGED vars
  <2>1. RowsSound'
    BY <1>0, <1>1 DEF vars, RowsSound, LinkFor, InTable, Running, Follows
  <2>2. ASSUME NEW u \in Users, most'[Verifying(u)] = 1
        PROVE  VerifyingSound(u)'
    <3>1. VerifyingSound(u)
      BY <1>1, <2>2 DEF vars, VerifyingInv
    <3>. QED
      BY <1>1, <3>1 DEF vars, VerifyingSound, LinkFor, Usable, Doing, Running, Follows, Verifying
  <2>. QED  BY <1>0, <2>1, <2>2 DEF VerifyingInv, Verifying
<1>2. CASE Next
  <2>1. CASE Environment
    <3>0. OnlyGains /\ UNCHANGED <<call, verified, linked>>
      BY <1>0, <2>1, EnvironmentEffects
    <3>1. /\ \A l \in Links : (Usable(l)' => Usable(l)) /\ link'[l] = link[l]
          /\ \A l \in Links : link[l] # None => link[l].user \in Users
          /\ \A u \in verified \ linked : u \in Users
          /\ \A p \in Slots : Running(p) => call[p].user \in Users
      BY <1>0, <3>0, SlotType DEF OnlyGains, Usable, TypeOK, LinkRow
    <3>2. RowsSound'
      BY <1>0, <3>0, <3>1 DEF RowsSound, OnlyGains, LinkFor, InTable, Running, Follows
    <3>3. ASSUME NEW u \in Users, most'[Verifying(u)] = 1
          PROVE  VerifyingSound(u)'
      <4>1. VerifyingSound(u)
        BY <1>0, <1>2, <3>3, StaysAlone DEF VerifyingInv
      <4>2. Doing(Verifying(u))' = Doing(Verifying(u))
        BY <3>0 DEF Doing, Running, Follows, Verifying
      <4>3. \A l \in Links : LinkFor(l, "verify", u)' <=> LinkFor(l, "verify", u)
        BY <3>1 DEF LinkFor
      <4>. QED  BY <3>0, <3>1, <4>1, <4>2, <4>3 DEF VerifyingSound, Follows, Verifying
    <3>. QED  BY <1>0, <3>2, <3>3 DEF VerifyingInv, Verifying
  <2>2. ASSUME NEW p \in Slots, Start(p) \/ Continue(p) \/ Crash(p)
        PROVE  VerifyingInv'
    <3>1. RowsSound'
      BY <1>0, <2>2, RowsStep
    <3>2. ASSUME NEW u \in Users, most'[Verifying(u)] = 1
          PROVE  VerifyingSound(u)'
      <4>1. VerifyingSound(u)
        BY <1>0, <1>2, <3>2, StaysAlone DEF VerifyingInv
      <4>. QED  BY <1>0, <1>2, <2>2, <3>2, <4>1, VerifyingStep
    <3>. QED  BY <1>0, <3>1, <3>2 DEF VerifyingInv, Verifying
  <2>. QED  BY <1>2, <2>1, <2>2 DEF Next
<1>. QED  BY <1>1, <1>2

\* The suspension of an account verified by a link is lifted by an admin, or by linking
\* Google to it, and by no link sent before, as long as the account's own verifications
\* have not overlapped: whatever else overlaps, expires, crashes or is deleted.
THEOREM SuspensionLastsAlways == Spec => SuspensionLasts
<1>1. Init => VerifyingInv
  <2>. SUFFICES ASSUME Init PROVE VerifyingInv
    OBVIOUS
  <2>1. \A p \in Slots : ~Running(p)
    BY DEF Init, Running, Idle
  <2>2. \A a : Doing(a) = {}
    BY <2>1 DEF Doing
  <2>3. MostCounts
    BY <2>2, FS_EmptySet DEF Init, MostCounts
  <2>4. RowsSound
    BY <2>1 DEF Init, RowsSound
  <2>5. \A u \in Users : VerifyingSound(u)
    BY <2>2 DEF Init, VerifyingSound, Usable
  <2>. QED  BY <2>3, <2>4, <2>5, TypeInit DEF VerifyingInv
<1>2. VerifyingInv /\ [Next]_vars =>
        [\A u \in verified \ linked :
          status[u] = "SUSPENDED" /\ status'[u] = "ACTIVE" /\ most[Verifying(u)] = 1 =>
              \E p \in Slots : /\ call[p] # call'[p]
                               /\ call[p].user = u
                               /\ call[p].op \in {"update", "handleGoogleLogin"}]_vars
  <2>. SUFFICES ASSUME VerifyingInv, Next, NEW u \in verified \ linked,
                       status[u] = "SUSPENDED", status'[u] = "ACTIVE", most[Verifying(u)] = 1
                PROVE  \E p \in Slots : /\ call[p] # call'[p]
                                        /\ call[p].user = u
                                        /\ call[p].op \in {"update", "handleGoogleLogin"}
    OBVIOUS
  <2>0. TypeOK /\ status' # status /\ u \in Users /\ VerifyingSound(u)
    BY DEF VerifyingInv, TypeOK
  <2>1. PICK p \in Slots : LinkGoogle(p) \/ CreateOAuthUser(p) \/ VerifyAndActivate(p)
                             \/ UpdateStatus(p)
    <3>1. ~Environment
      BY <2>0, EnvironmentEffects
    <3>2. ASSUME NEW p \in Slots, Start(p) \/ Crash(p) PROVE FALSE
      <4>1. UNCHANGED <<accounts, links>>
        BY <3>2, StartReads DEF Crash, Reads
      <4>. QED  BY <2>0, <4>1 DEF accounts
    <3>3. PICK p \in Slots : Continue(p)
      BY <3>1, <3>2 DEF Next
    <3>. QED
      BY <2>0, <3>3 DEF Continue, CreateUser, InvalidateTokens, InsertLink, Mail,
         ResetWithToken, FindToOnboard, UpdateRole, accounts
  <2>2. /\ Running(p) /\ Return(p)
        /\ status'[u] # status[u] => call[p].user = u
    BY <2>0, <2>1 DEF LinkGoogle, CreateOAuthUser, VerifyAndActivate, UpdateStatus, At,
       Running, TypeOK
  <2>3. call[p] # call'[p]
    BY <2>0, <2>2 DEF Running, Return, Idle, TypeOK
  <2>4. ~VerifyAndActivate(p)
    <3>. SUFFICES ASSUME call[p].op = "verifyEmail", call[p].step = "write" PROVE FALSE
      BY DEF VerifyAndActivate, At
    <3>1. p \in Doing(Verifying(u))
      BY <2>2, KindsAre, ActivitiesAre
    <3>. QED  BY <2>0, <3>1 DEF VerifyingSound
  <2>5. call[p].op \in {"update", "handleGoogleLogin"}
    BY <2>1, <2>4 DEF LinkGoogle, CreateOAuthUser, UpdateStatus, At
  <2>. QED  BY <2>2, <2>3, <2>5
<1>. QED  BY <1>1, <1>2, VerifyingInvStep, PTL DEF Spec, SuspensionLasts
=============================================================================
