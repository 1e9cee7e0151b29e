------------------------- MODULE AuthSessionsProofs -------------------------
(***************************************************************************)
(* Theorems about AuthSessions, for any sets of accounts, tokens,          *)
(* concurrent handlers and kinds of failure.                               *)
(***************************************************************************)
EXTENDS AuthSessions, TLAPS

LEMMA OpsAndSteps ==
    /\ Ops = {"register", "login", "handleGoogleLogin", "refreshTokens", "logout", "logoutAll"}
    /\ StepsOf["register"] = {"create", "session", "rollback", "remove", "answer"}
    /\ StepsOf["login"] = {"session", "answer"}
    /\ StepsOf["handleGoogleLogin"] = {"create", "link", "check", "session", "answer"}
    /\ StepsOf["refreshTokens"] = {"authenticate", "status", "find", "rotate", "answer"}
    /\ StepsOf["logout"] = {"revoke"}
    /\ StepsOf["logoutAll"] = {"revoke"}
    /\ \A op \in Ops : StepsOf[op] \subseteq Steps
BY DEF Ops, Steps, StepsOf

\* A running handler is at a step of its own.
LEMMA SlotType ==
    ASSUME TypeOK, NEW p \in Slots, call[p].op # "idle"
    PROVE  /\ call[p] \in Call
           /\ call[p] \in CallRecord
           /\ call[p].op \in Ops
           /\ call[p].step \in StepsOf[call[p].op]
           /\ call[p].user \in Users
           /\ call[p].step = "answer" <=> call[p].new \in Tokens
<1>1. call[p] \in Call
  BY DEF TypeOK, Idle
<1>2. call[p] \in CallRecord
  BY <1>1 DEF Call
<1>. QED  BY <1>1, <1>2 DEF Call, CallRecord

LEMMA HandlerType ==
    ASSUME NEW op \in Ops, NEW step \in StepsOf[op], step # "answer",
           NEW u \in Users, NEW t \in Tokens \cup {None},
           op \in {"refreshTokens", "logout"} => t \in Tokens
    PROVE  /\ Handler(op, step, u, t) \in Call
           /\ Handler(op, step, u, t).op = op
           /\ Handler(op, step, u, t).step = step
           /\ Handler(op, step, u, t).user = u
           /\ Handler(op, step, u, t).token = t
<1>1. step \in Steps
  BY OpsAndSteps
<1>2. None \notin Tokens
  BY ConstantsAssumption
<1>. QED  BY <1>1, <1>2 DEF Handler, Call, CallRecord

\* Every token a client holds, or is about to get, is one the server stored.
Stored ==
    /\ \A t \in held : owner[t] \in Users
    /\ \A p \in Slots : call[p].op # "idle" /\ call[p].step = "answer"
                            => owner[call[p].new] \in Users

\* What the first read of a handler has found out.
FirstRead(c) ==
    /\ c.step = "create" => Fresh(c.user)
    /\ c.step # "create" => Present(c.user)
    /\ c.step = "session" => InUse(c.user)
    /\ c.step \notin {"status", "find", "rotate", "answer"}
    /\ c.op = "refreshTokens" => c.token \in held /\ owner[c.token] = c.user

\* Every handler starts by reading, and only reads.
LEMMA StartsRead ==
    ASSUME TypeOK, Stored, NEW p \in Slots, Starts(p)
    PROVE  \E c \in Call : Reads(p, c) /\ FirstRead(c)
<1>1. ASSUME NEW u \in Users, Register(p, u)
      PROVE  \E c \in Call : Reads(p, c) /\ FirstRead(c)
  <2>. DEFINE c == Handler("register", "create", u, None)
  <2>1. c \in Call /\ c.op = "register" /\ c.step = "create" /\ c.user = u
    BY HandlerType, OpsAndSteps
  <2>2. Reads(p, c) /\ Fresh(u)
    BY <1>1 DEF Register
  <2>. HIDE DEF c
  <2>. QED  BY <2>1, <2>2 DEF FirstRead
<1>2. ASSUME NEW u \in Users, Login(p, u)
      PROVE  \E c \in Call : Reads(p, c) /\ FirstRead(c)
  <2>. DEFINE c == Handler("login", "session", u, None)
  <2>1. c \in Call /\ c.op = "login" /\ c.step = "session" /\ c.user = u
    BY HandlerType, OpsAndSteps
  <2>2. Reads(p, c) /\ InUse(u)
    BY <1>2 DEF Login
  <2>. HIDE DEF c
  <2>. QED  BY <2>1, <2>2 DEF FirstRead, InUse
<1>3. ASSUME NEW u \in Users, GoogleLogin(p, u)
      PROVE  \E c \in Call : Reads(p, c) /\ FirstRead(c)
  <2>. DEFINE c(step) == Handler("handleGoogleLogin", step, u, None)
  <2>1. \A step \in {"session", "link", "create"} :
          c(step) \in Call /\ c(step).op = "handleGoogleLogin"
                           /\ c(step).step = step /\ c(step).user = u
    BY HandlerType, OpsAndSteps
  <2>2. \/ Reads(p, c("session")) /\ InUse(u)
        \/ Reads(p, c("link")) /\ Present(u)
        \/ Reads(p, c("create")) /\ Fresh(u)
    BY <1>3 DEF GoogleLogin
  <2>. HIDE DEF c
  <2>. QED  BY <2>1, <2>2 DEF FirstRead, InUse
<1>4. ASSUME NEW u \in Users, NEW t \in Tokens, Logout(p, u, t)
      PROVE  \E c \in Call : Reads(p, c) /\ FirstRead(c)
  <2>. DEFINE c == Handler("logout", "revoke", u, t)
  <2>1. c \in Call /\ c.op = "logout" /\ c.step = "revoke" /\ c.user = u
    BY HandlerType, OpsAndSteps
  <2>2. Reads(p, c) /\ Present(u)
    BY <1>4 DEF Logout, LogsOut, InUse
  <2>. HIDE DEF c
  <2>. QED  BY <2>1, <2>2 DEF FirstRead
<1>5. ASSUME NEW u \in Users, LogoutAll(p, u)
      PROVE  \E c \in Call : Reads(p, c) /\ FirstRead(c)
  <2>. DEFINE c == Handler("logoutAll", "revoke", u, None)
  <2>1. c \in Call /\ c.op = "logoutAll" /\ c.step = "revoke" /\ c.user = u
    BY HandlerType, OpsAndSteps
  <2>2. Reads(p, c) /\ Present(u)
    BY <1>5 DEF LogoutAll, LogsOut, InUse
  <2>. HIDE DEF c
  <2>. QED  BY <2>1, <2>2 DEF FirstRead
<1>6. ASSUME NEW t \in Tokens, Refresh(p, t)
      PROVE  \E c \in Call : Reads(p, c) /\ FirstRead(c)
  <2>. DEFINE c == Handler("refreshTokens", "authenticate", owner[t], t)
  <2>0. t \in held /\ owner[t] \in Users
    BY <1>6 DEF Refresh, Stored
  <2>1. /\ c \in Call /\ c.op = "refreshTokens" /\ c.step = "authenticate"
        /\ c.user = owner[t] /\ c.token = t
    BY <2>0, HandlerType, OpsAndSteps
  <2>2. Reads(p, c) /\ Present(owner[t])
    BY <1>6 DEF Refresh
  <2>. HIDE DEF c
  <2>. QED  BY <2>0, <2>1, <2>2 DEF FirstRead
<1>. QED  BY <1>1, <1>2, <1>3, <1>4, <1>5, <1>6 DEF Starts

LEMMA ReadFields ==
    ASSUME TypeOK, NEW p \in Slots, NEW c \in Call, Reads(p, c)
    PROVE  /\ call' \in [Slots -> Call \cup {Idle}]
           /\ call'[p] = c
           /\ \A q \in Slots \ {p} : call'[q] = call[q]
           /\ call[p].op = "idle"
           /\ entitled' \in SUBSET Slots
           /\ InUse(c.user) => p \in entitled'
           /\ entitled \subseteq entitled'
           /\ UNCHANGED <<row, verified, active, google, session, owner, successor,
                          expired, held>>
BY DEF TypeOK, Reads, Running, accounts, sessions

LEMMA GotoFields ==
    ASSUME TypeOK, NEW p \in Slots, call[p].op # "idle", call[p].step # "answer",
           NEW step \in StepsOf[call[p].op] \ {"answer"},
           call' = [call EXCEPT ![p].step = step]
    PROVE  /\ call' \in [Slots -> Call \cup {Idle}]
           /\ call'[p].op = call[p].op
           /\ call'[p].step = step
           /\ call'[p].user = call[p].user
           /\ call'[p].token = call[p].token
           /\ \A q \in Slots \ {p} : call'[q] = call[q]
<1>1. call[p] \in Call /\ call[p] \in CallRecord /\ step \in Steps
  BY SlotType, OpsAndSteps
<1>2. call'[p] = [call[p] EXCEPT !.step = step]
  BY DEF TypeOK
<1>3. [call[p] EXCEPT !.step = step] \in Call
  BY <1>1 DEF Call, CallRecord
<1>4. call' \in [Slots -> Call \cup {Idle}]
  BY <1>3 DEF TypeOK
<1>. QED  BY <1>1, <1>2, <1>4 DEF CallRecord, TypeOK

LEMMA SignedFields ==
    ASSUME TypeOK, NEW p \in Slots, call[p].op # "idle", NEW t \in Tokens,
           "answer" \in StepsOf[call[p].op], Signed(p, t)
    PROVE  /\ call' \in [Slots -> Call \cup {Idle}]
           /\ call'[p].op = call[p].op
           /\ call'[p].step = "answer"
           /\ call'[p].user = call[p].user
           /\ call'[p].token = call[p].token
           /\ call'[p].new = t
           /\ \A q \in Slots \ {p} : call'[q] = call[q]
<1>1. call[p] \in Call /\ call[p] \in CallRecord /\ "answer" \in Steps
  BY SlotType, OpsAndSteps
<1>2. call'[p] = [call[p] EXCEPT !.step = "answer", !.new = t]
  BY DEF TypeOK, Signed
<1>3. [call[p] EXCEPT !.step = "answer", !.new = t] \in Call
  BY <1>1 DEF Call, CallRecord
<1>4. call' \in [Slots -> Call \cup {Idle}]
  BY <1>3 DEF TypeOK, Signed
<1>. QED  BY <1>1, <1>2, <1>4 DEF CallRecord, TypeOK, Signed

LEMMA ReturnFields ==
    ASSUME TypeOK, NEW p \in Slots, Return(p)
    PROVE  /\ call' \in [Slots -> Call \cup {Idle}]
           /\ call'[p].op = "idle"
           /\ call'[p] = Idle
           /\ \A q \in Slots \ {p} : call'[q] = call[q]
           /\ entitled' = entitled \ {p}
BY DEF TypeOK, Return, Idle

----------------------------------------------------------------------------
(* What a step does to the running handlers.                               *)

\* Handler p goes on, as the handler it was, or returns; the others wait.
Advances(p) ==
    /\ call[p].op # "idle"
    /\ call' \in [Slots -> Call \cup {Idle}]
    /\ \A q \in Slots \ {p} : call'[q] = call[q]
    /\ \/ call'[p] = Idle /\ entitled' = entitled \ {p}
       \/ /\ call[p].step # "answer"
          /\ call'[p].op = call[p].op
          /\ call'[p].user = call[p].user
          /\ call'[p].token = call[p].token
          /\ entitled \subseteq entitled' /\ entitled' \in SUBSET Slots

LEMMA ReturnAdvances ==
    ASSUME TypeOK, NEW p \in Slots, call[p].op # "idle", Return(p)
    PROVE  Advances(p)
BY ReturnFields DEF Advances

LEMMA GotoAdvances ==
    ASSUME TypeOK, NEW p \in Slots, call[p].op # "idle", call[p].step # "answer",
           NEW step \in StepsOf[call[p].op] \ {"answer"}, Goto(p, step)
    PROVE  Advances(p)
<1>1. call' = [call EXCEPT ![p].step = step]
  BY DEF Goto
<1>. QED  BY <1>1, GotoFields DEF Advances, Goto, TypeOK

LEMMA ActivateAdvances ==
    ASSUME TypeOK, NEW p \in Slots, call[p].op # "idle", call[p].step # "answer",
           NEW step \in StepsOf[call[p].op] \ {"answer"}, NEW u \in Users,
           call' = [call EXCEPT ![p].step = step], Activate(u)
    PROVE  Advances(p)
BY GotoFields DEF Advances, Activate, SetActive, TypeOK

LEMMA SignedAdvances ==
    ASSUME TypeOK, NEW p \in Slots, call[p].op # "idle", call[p].step # "answer",
           NEW t \in Tokens, "answer" \in StepsOf[call[p].op], Signed(p, t),
           UNCHANGED entitled
    PROVE  Advances(p)
BY SignedFields DEF Advances, TypeOK

LEMMA ContinueAdvances ==
    ASSUME TypeOK, NEW p \in Slots, Continue(p)
    PROVE  Advances(p)
<1>0. call[p].op # "idle" => /\ call[p].op \in Ops
                             /\ call[p].step \in StepsOf[call[p].op]
                             /\ call[p].user \in Users
  BY SlotType
<1>1. CASE CreateUser(p)
  BY <1>1, <1>0, ReturnAdvances, GotoAdvances, OpsAndSteps DEF CreateUser, At, Throw
<1>2. CASE LinkGoogle(p)
  BY <1>2, <1>0, ReturnAdvances, ActivateAdvances, OpsAndSteps DEF LinkGoogle, At, Throw
<1>3. CASE CreateOAuthUser(p)
  BY <1>3, <1>0, ReturnAdvances, ActivateAdvances, OpsAndSteps
     DEF CreateOAuthUser, At, Throw
<1>4. CASE CheckOAuthUser(p)
  BY <1>4, <1>0, ReturnAdvances, GotoAdvances, OpsAndSteps DEF CheckOAuthUser, At, Throw
<1>5. CASE CreateSession(p)
  <2>1. "answer" \in StepsOf[call[p].op] /\ call[p].op # "idle"
    BY <1>5, <1>0, OpsAndSteps DEF CreateSession, Running
  <2>2. CASE SessionRefused(p)
    BY <1>5, <2>1, <2>2, ReturnAdvances, GotoAdvances, OpsAndSteps
       DEF CreateSession, SessionRefused, Throw
  <2>. QED  BY <1>5, <2>1, <2>2, SignedAdvances DEF CreateSession
<1>6. CASE RollBack(p)
  BY <1>6, <1>0, ReturnAdvances, GotoAdvances, OpsAndSteps DEF RollBack, At, Throw
<1>7. CASE RemoveUser(p)
  BY <1>7, ReturnAdvances DEF RemoveUser, At, Throw
<1>8. CASE Authenticate(p)
  BY <1>8, <1>0, ReturnAdvances, GotoAdvances, OpsAndSteps DEF Authenticate, At, Throw
<1>9. CASE CheckStatus(p)
  BY <1>9, <1>0, ReturnAdvances, GotoAdvances, OpsAndSteps DEF CheckStatus, At, Throw
<1>10. CASE FindSession(p)
  BY <1>10, <1>0, ReturnAdvances, GotoAdvances, OpsAndSteps DEF FindSession, At, Throw
<1>11. CASE Rotate(p)
  BY <1>11, <1>0, ReturnAdvances, SignedAdvances, OpsAndSteps DEF Rotate, At, Throw
<1>12. CASE Answer(p)
  BY <1>12, ReturnAdvances DEF Answer, Running
<1>13. CASE Revoke(p)
  BY <1>13, ReturnAdvances DEF Revoke, Running
<1>. QED
  BY <1>1, <1>2, <1>3, <1>4, <1>5, <1>6, <1>7, <1>8, <1>9, <1>10, <1>11, <1>12, <1>13
     DEF Continue

LEMMA CrashAdvances ==
    ASSUME TypeOK, NEW p \in Slots, Crash(p)
    PROVE  Advances(p)
BY ReturnAdvances DEF Crash, Running

----------------------------------------------------------------------------
(* What a step does to the sessions.                                       *)

\* Handler p stores a new session under token t; it lets the session of t be that of
\* token new; it removes the account it registered; it revokes.
Stores(p, t) ==
    /\ call[p].op # "idle" /\ call[p].step = "session"
    /\ owner[t] = None
    /\ InTable(call[p].user)
    /\ StoreSession(p, t)
    /\ Signed(p, t)
    /\ UNCHANGED <<accounts, successor, entitled, expired, held>>

Rotates(p, t, new) ==
    /\ At(p, "refreshTokens", "rotate")
    /\ t = call[p].token /\ Live(t)
    /\ owner[new] = None
    /\ session' = [session EXCEPT ![t] = None, ![new] = session[t]]
    /\ owner' = [owner EXCEPT ![new] = session[t].user]
    /\ successor' = [successor EXCEPT ![t] = new]
    /\ Signed(p, new)
    /\ UNCHANGED <<accounts, entitled, expired, held>>

Removes(p) ==
    LET u == call[p].user IN
    /\ At(p, "register", "remove")
    /\ row' = [row EXCEPT ![u] = "removed"]
    /\ session' = [t \in Tokens |->
          IF session[t] # None /\ session[t].user = u THEN None ELSE session[t]]
    /\ verified' = verified \ {u}
    /\ active' = active \ {u}
    /\ Return(p)
    /\ UNCHANGED <<google, owner, successor, expired, held>>

ChangesSessions(p) ==
    \/ \E t \in Tokens : Stores(p, t)
    \/ \E t, new \in Tokens : Rotates(p, t, new)
    \/ Removes(p)
    \/ Revoke(p)

LEMMA SessionFootprint ==
    ASSUME TypeOK, NEW p \in Slots, Continue(p)
    PROVE  ChangesSessions(p) \/ UNCHANGED <<session, owner, successor>>
<1>. USE DEF sessions, Throw
<1>1. CASE CreateSession(p)
  BY <1>1 DEF CreateSession, SessionRefused, ChangesSessions, Stores, Running
<1>2. CASE Rotate(p)
  <2>1. call[p].token \in Tokens
    BY <1>2, SlotType DEF Rotate, At, Call
  <2>2. ASSUME NEW new \in Tokens, NEW t \in Rotatable(call[p].token)
        PROVE  t = call[p].token /\ Live(t)
    BY <2>2 DEF Rotatable
  <2>. QED  BY <1>2, <2>1, <2>2 DEF Rotate, ChangesSessions, Rotates
<1>3. CASE RemoveUser(p)
  BY <1>3 DEF RemoveUser, ChangesSessions, Removes
<1>4. CASE Revoke(p)
  BY <1>4 DEF ChangesSessions
<1>. QED
  BY <1>1, <1>2, <1>3, <1>4
     DEF Continue, CreateUser, LinkGoogle, CreateOAuthUser, CheckOAuthUser, RollBack,
         Authenticate, CheckStatus, FindSession, Answer

\* Nothing else changes them.
LEMMA OtherSteps ==
    ASSUME TypeOK, Stored, [Next]_vars
    PROVE  \/ \E p \in Slots : Continue(p) /\ UNCHANGED faults
           \/ UNCHANGED <<session, owner, successor, held, faults>>
<1>1. ASSUME NEW p \in Slots, Starts(p)
      PROVE  UNCHANGED <<session, owner, successor, held>>
  BY <1>1, StartsRead, ReadFields
<1>. QED
  BY <1>1 DEF Next, Crash, Environment, Expire, sessions, vars

----------------------------------------------------------------------------
(* Types.                                                                  *)

LEMMA SessionTypes ==
    ASSUME TypeOK, NEW p \in Slots, Continue(p)
    PROVE  /\ session' \in [Tokens -> RefreshSession \cup {None}]
           /\ owner' \in [Tokens -> Users \cup {None}]
           /\ successor' \in [Tokens -> Tokens \cup {None}]
<1>0. call[p].op # "idle" => call[p].user \in Users
  BY SlotType
<1>. USE DEF RefreshSession
<1>1. ASSUME NEW t \in Tokens, Stores(p, t)
      PROVE  /\ session' \in [Tokens -> RefreshSession \cup {None}]
             /\ owner' \in [Tokens -> Users \cup {None}]
             /\ successor' \in [Tokens -> Tokens \cup {None}]
  BY <1>1, <1>0 DEF Stores, StoreSession, TypeOK
<1>2. ASSUME NEW t \in Tokens, NEW new \in Tokens, Rotates(p, t, new)
      PROVE  /\ session' \in [Tokens -> RefreshSession \cup {None}]
             /\ owner' \in [Tokens -> Users \cup {None}]
             /\ successor' \in [Tokens -> Tokens \cup {None}]
  <2>1. session[t] \in RefreshSession
    BY <1>2 DEF Rotates, Live, TypeOK
  <2>. QED  BY <1>2, <2>1 DEF Rotates, TypeOK
<1>3. CASE Removes(p)
  BY <1>3 DEF Removes, TypeOK
<1>4. CASE Revoke(p)
  <2>1. \A t \in Tokens : t \in Revoked(call[p])
            => [session[t] EXCEPT !.revoked = TRUE] \in RefreshSession
    BY DEF Revoked, TypeOK
  <2>2. session' \in [Tokens -> RefreshSession \cup {None}]
    BY <1>4, <2>1 DEF Revoke, TypeOK
  <2>. QED  BY <1>4, <2>2 DEF Revoke, TypeOK
<1>5. CASE UNCHANGED <<session, owner, successor>>
  BY <1>5 DEF TypeOK
<1>. QED  BY <1>1, <1>2, <1>3, <1>4, <1>5, SessionFootprint DEF ChangesSessions

\* Handler p inserts the row of its account, as google if it is a Google log-in's.
Creates(p) ==
    /\ call[p].op # "idle" /\ call[p].step = "create"
    /\ row' = [row EXCEPT ![call[p].user] = "present"]
    /\ \/ /\ call[p].op = "register"
          /\ UNCHANGED <<verified, active, google, entitled>>
       \/ Activate(call[p].user) /\ google' = google \cup {call[p].user}

LEMMA AccountFootprint ==
    ASSUME NEW p \in Slots, Continue(p)
    PROVE  \/ Creates(p)
           \/ LinkGoogle(p) /\ Activate(call[p].user) /\ UNCHANGED <<row, google>>
           \/ Removes(p)
           \/ UNCHANGED <<row, verified, active, google>>
<1>. USE DEF accounts, Throw, At
<1>1. CASE CreateUser(p)
  BY <1>1 DEF CreateUser, Creates, Goto
<1>2. CASE LinkGoogle(p)
  BY <1>2 DEF LinkGoogle
<1>3. CASE CreateOAuthUser(p)
  BY <1>3 DEF CreateOAuthUser, Creates
<1>4. CASE RemoveUser(p)
  BY <1>4 DEF RemoveUser, Removes
<1>. QED
  BY <1>1, <1>2, <1>3, <1>4
     DEF Continue, CheckOAuthUser, CreateSession, SessionRefused, RollBack, Authenticate,
         CheckStatus, FindSession, Rotate, Answer, Revoke

LEMMA AccountTypes ==
    ASSUME TypeOK, NEW p \in Slots, Continue(p)
    PROVE  /\ row' \in [Users -> RowState]
           /\ verified' \in SUBSET Users
           /\ active' \in SUBSET Users
           /\ google' \in SUBSET Users
<1>0. call[p].op # "idle" => call[p].user \in Users
  BY SlotType
<1>. QED
  BY <1>0, AccountFootprint
     DEF Creates, LinkGoogle, Removes, Activate, SetActive, At, RowState, TypeOK

LEMMA HeldFootprint ==
    ASSUME NEW p \in Slots, Continue(p)
    PROVE  /\ expired' = expired
           /\ \/ held' = held
              \/ Answer(p) /\ held' = held \cup {call[p].new}
BY DEF Continue, CreateUser, LinkGoogle, CreateOAuthUser, CheckOAuthUser, CreateSession,
       RollBack, RemoveUser, Authenticate, CheckStatus, FindSession, Rotate, Answer,
       Answered, Revoke

\* A token is stored once, for one account.
LEMMA OwnerKept ==
    ASSUME TypeOK, NEW p \in Slots, Continue(p)
    PROVE  \A t \in Tokens : owner[t] # None => owner'[t] = owner[t]
BY SessionFootprint
   DEF ChangesSessions, Stores, StoreSession, Rotates, Removes, Revoke, TypeOK

\* Handler p gets a token only by storing it.
LEMMA NewFootprint ==
    ASSUME TypeOK, NEW p \in Slots, Continue(p), call'[p].op # "idle",
           call'[p].step = "answer"
    PROVE  /\ call[p].step # "answer"
           /\ \/ \E t \in Tokens : Stores(p, t) /\ call'[p].new = t
              \/ \E t, new \in Tokens : Rotates(p, t, new) /\ call'[p].new = new
<1>0. Advances(p) /\ call[p].step # "answer"
  BY ContinueAdvances DEF Advances, Idle
<1>1. ~Return(p) /\ call[p].op # "idle"
  BY ReturnFields, <1>0 DEF Advances
<1>2. /\ call[p].op \in Ops
      /\ call[p].step \in StepsOf[call[p].op]
      /\ call[p].user \in Users
  BY <1>1, SlotType
<1>3. ASSUME NEW step \in StepsOf[call[p].op] \ {"answer"},
             call' = [call EXCEPT ![p].step = step]
      PROVE  FALSE
  BY <1>3, <1>1, <1>0, GotoFields
<1>4. CASE CreateSession(p)
  <2>1. ~SessionRefused(p)
    BY <1>4, <1>3, <1>1, OpsAndSteps DEF CreateSession, SessionRefused, Goto, Throw
  <2>2. PICK t \in Tokens : Stores(p, t)
    BY <1>4, <2>1 DEF CreateSession, Stores, Running
  <2>3. call'[p].new = t
    BY <2>2, <1>0, <1>1, <1>2 DEF Stores, Signed, TypeOK, Call, CallRecord, Idle
  <2>. QED  BY <1>0, <2>2, <2>3
<1>5. CASE Rotate(p)
  <2>1. PICK t \in Tokens, new \in Tokens : Rotates(p, t, new)
    BY <1>5, <1>1, SlotType DEF Rotate, Rotates, Rotatable, Throw, At, Call
  <2>2. "answer" \in StepsOf[call[p].op]
    BY <1>5, OpsAndSteps DEF Rotate, At
  <2>3. call'[p].new = new
    BY <2>1, <2>2, <1>1, SignedFields DEF Rotates
  <2>. QED  BY <1>0, <2>1, <2>3
<1>. QED
  BY <1>1, <1>2, <1>3, <1>4, <1>5, OpsAndSteps
     DEF Continue, CreateUser, LinkGoogle, CreateOAuthUser, CheckOAuthUser, RollBack,
         RemoveUser, Authenticate, CheckStatus, FindSession, Answer, Revoke, Goto, Throw, At

TypeInv == TypeOK /\ Stored

LEMMA TypeInit == Init => TypeInv
BY DEF Init, TypeInv, TypeOK, Stored, Idle, RowState

LEMMA TypeContinue ==
    ASSUME TypeInv, NEW p \in Slots, Continue(p), UNCHANGED faults
    PROVE  TypeInv'
<1>0. TypeOK /\ Stored
  BY DEF TypeInv
<1>1. Advances(p)
  BY <1>0, ContinueAdvances
<1>2. ASSUME Answer(p) PROVE call[p].new \in Tokens /\ owner[call[p].new] \in Users
  BY <1>2, <1>0, SlotType DEF Answer, Running, Stored
<1>3. TypeOK'
  <2>1. held' \in SUBSET Tokens /\ expired' \in SUBSET Tokens
    BY <1>0, <1>2, HeldFootprint DEF TypeOK
  <2>2. entitled' \in SUBSET Slots
    BY <1>0, <1>1 DEF Advances, TypeOK
  <2>. QED
    BY <1>0, <1>1, <2>1, <2>2, SessionTypes, AccountTypes DEF Advances, TypeOK
<1>4. \A t \in Tokens : owner[t] \in Users => owner'[t] \in Users
  BY <1>0, OwnerKept, ConstantsAssumption
<1>5. \A t \in held' : owner'[t] \in Users
  BY <1>0, <1>2, <1>4, HeldFootprint DEF Stored, TypeOK
<1>6. ASSUME NEW q \in Slots, call'[q].op # "idle", call'[q].step = "answer"
      PROVE  owner'[call'[q].new] \in Users
  <2>1. CASE q = p
    <3>1. ASSUME NEW t \in Tokens, Stores(p, t) PROVE owner'[t] \in Users
      BY <3>1, <1>0, SlotType DEF Stores, StoreSession, TypeOK
    <3>2. ASSUME NEW t \in Tokens, NEW new \in Tokens, Rotates(p, t, new)
          PROVE  owner'[new] \in Users
      <4>1. session[t].user \in Users
        BY <3>2, <1>0 DEF Rotates, Live, RefreshSession, TypeOK
      <4>. QED  BY <3>2, <4>1, <1>0 DEF Rotates, TypeOK
    <3>. QED  BY <1>0, <1>6, <2>1, <3>1, <3>2, NewFootprint
  <2>2. CASE q # p
    <3>1. call'[q] = call[q]
      BY <1>1, <2>2 DEF Advances
    <3>2. call[q].new \in Tokens /\ owner[call[q].new] \in Users
      BY <1>0, <1>6, <3>1, SlotType DEF Stored
    <3>. QED  BY <1>4, <3>1, <3>2
  <2>. QED  BY <2>1, <2>2
<1>. QED  BY <1>3, <1>5, <1>6 DEF TypeInv, Stored

LEMMA TypeStep == TypeInv /\ [Next]_vars => TypeInv'
<1>. SUFFICES ASSUME TypeInv, [Next]_vars PROVE TypeInv'
  OBVIOUS
<1>0. TypeOK /\ Stored
  BY DEF TypeInv
<1>1. ASSUME NEW p \in Slots, Starts(p), UNCHANGED faults
      PROVE  TypeInv'
  <2>1. PICK c \in Call : Reads(p, c) /\ FirstRead(c)
    BY <1>0, <1>1, StartsRead
  <2>2. c.step # "answer"
    BY <2>1 DEF FirstRead
  <2>3. TypeOK'
    BY <1>0, <1>1, <2>1, ReadFields DEF TypeOK
  <2>. QED  BY <1>0, <2>1, <2>2, <2>3, ReadFields DEF TypeInv, Stored
<1>2. ASSUME NEW p \in Slots, Continue(p), UNCHANGED faults PROVE TypeInv'
  BY <1>2, TypeContinue
<1>3. ASSUME NEW p \in Slots, Crash(p), UNCHANGED faults PROVE TypeInv'
  BY <1>0, <1>3, ReturnFields DEF Crash, TypeInv, TypeOK, Stored, accounts, sessions
<1>4. ASSUME Environment, UNCHANGED faults PROVE TypeInv'
  BY <1>0, <1>4
     DEF Environment, VerifyEmail, Activate, SetActive, SetStatus, SoftDelete, Expire,
         RowState, TypeInv, TypeOK, Stored, accounts, sessions
<1>5. CASE UNCHANGED vars
  BY <1>0, <1>5 DEF TypeInv, TypeOK, Stored, vars
<1>. QED  BY <1>1, <1>2, <1>3, <1>4, <1>5 DEF Next

\* The tables, the running handlers and the tokens keep their shapes, and a handler
\* reaches only the steps that are its own.
THEOREM TypeCorrect == Spec => []TypeOK
<1>1. TypeInv => TypeOK
  BY DEF TypeInv
<1>. QED  BY <1>1, TypeInit, TypeStep, PTL DEF Spec

----------------------------------------------------------------------------
(* The rows and the handlers agree.                                        *)

\* An account that is ACTIVE has a row.
ActiveHasRow == \A u \in active : InTable(u)

\* Who is about to insert an account is alone with its id.
CreatesAlone ==
    \A p \in Slots : call[p].op # "idle" /\ call[p].step = "create" =>
        /\ row[call[p].user] = "absent"
        /\ \A q \in Slots \ {p} : call[q].op # "idle" => call[q].user # call[p].user

AccountsInv == ActiveHasRow /\ CreatesAlone

\* A session has a token that was stored for its account, which is in the table, and
\* that was not exchanged; only stored tokens were.
SessionsSound ==
    /\ \A t \in Tokens : session[t] # None =>
          owner[t] = session[t].user /\ successor[t] = None /\ InTable(session[t].user)
    /\ \A t \in Tokens : successor[t] # None => owner[t] # None

\* A refresh works for the account its token was stored for, and whoever answers a
\* token stored it for the account it works for.
OwnTokens ==
    \A p \in Slots : call[p].op # "idle" =>
        /\ call[p].op = "refreshTokens" => owner[call[p].token] = call[p].user
        /\ call[p].step = "answer" => owner[call[p].new] = call[p].user

TableInv == TypeInv /\ AccountsInv /\ SessionsSound /\ OwnTokens

\* What a step of the environment, or a stutter, can do.
LEMMA Environs ==
    ASSUME TypeOK, Environment \/ UNCHANGED vars
    PROVE  /\ UNCHANGED <<session, owner, successor, call, held>>
           /\ \A u \in Users : row'[u] = row[u] \/ (Present(u) /\ row'[u] = "deleted")
           /\ \A u \in active' : u \in active \/ (Present(u) /\ row'[u] = "present")
           /\ \A u \in Users \ verified' : u \notin verified
           /\ \A p \in Slots : p \in entitled => p \in entitled'
           /\ \A p \in Slots, u \in active' \ active :
                  call[p].op # "idle" /\ call[p].user = u => p \in entitled'
<1>. USE DEF Present, TypeOK, accounts, sessions, Running
<1>1. ASSUME NEW u \in Users, VerifyEmail(u) \/ SetStatus(u),
             UNCHANGED <<sessions, expired, call, held>>
      PROVE  /\ UNCHANGED <<session, owner, successor, call, held, row>>
             /\ \A w \in active' : w \in active \/ (w = u /\ row[u] = "present")
             /\ \A w \in Users \ verified' : w \notin verified
             /\ entitled \subseteq entitled'
             /\ \A p \in Slots : u \in active' \ active /\ call[p].op # "idle"
                                    /\ call[p].user = u => p \in entitled'
  BY <1>1 DEF VerifyEmail, SetStatus, Activate, SetActive
<1>2. ASSUME NEW u \in Users, SoftDelete(u), UNCHANGED <<sessions, expired, call, held>>
      PROVE  /\ UNCHANGED <<session, owner, successor, call, held, verified, active, entitled>>
             /\ \A w \in Users :
                    row'[w] = row[w] \/ (row[w] = "present" /\ row'[w] = "deleted")
  BY <1>2 DEF SoftDelete
<1>3. ASSUME NEW t \in Tokens, Expire(t)
      PROVE  UNCHANGED <<session, owner, successor, call, held, row, verified, active, entitled>>
  BY <1>3 DEF Expire
<1>4. CASE UNCHANGED vars
  BY <1>4 DEF vars
<1>. QED  BY <1>1, <1>2, <1>3, <1>4 DEF Environment

LEMMA AccountsStep ==
    ASSUME TypeInv, TypeInv', AccountsInv, [Next]_vars
    PROVE  AccountsInv'
<1>0. TypeOK /\ Stored /\ TypeOK'
  BY DEF TypeInv
<1>1. ASSUME NEW p \in Slots, NEW c \in Call, Reads(p, c), FirstRead(c)
      PROVE  AccountsInv'
  <2>1. ActiveHasRow'
    BY <1>0, <1>1, ReadFields DEF AccountsInv, ActiveHasRow, InTable
  <2>2. \A q \in Slots : call[q].op # "idle" => call[q].user \in Users
    BY <1>0, SlotType
  <2>3. CreatesAlone'
    <3>. SUFFICES ASSUME NEW q \in Slots, call'[q].op # "idle", call'[q].step = "create"
                  PROVE  /\ row'[call'[q].user] = "absent"
                         /\ \A r \in Slots \ {q} :
                               call'[r].op # "idle" => call'[r].user # call'[q].user
      BY DEF CreatesAlone
    <3>1. CASE q = p
      BY <1>0, <1>1, <3>1, ReadFields DEF FirstRead, Fresh, Running
    <3>2. CASE q # p
      <4>1. call'[q] = call[q] /\ row[call[q].user] = "absent" /\ row' = row
        BY <1>0, <1>1, <3>2, ReadFields DEF AccountsInv, CreatesAlone
      <4>2. c.user # call[q].user
        <5>1. c.step = "create" => Fresh(c.user)
          BY <1>1 DEF FirstRead
        <5>2. c.step # "create" => row[c.user] = "present"
          BY <1>1 DEF FirstRead, Present
        <5>. QED  BY <4>1, <5>1, <5>2 DEF Fresh, Running
      <4>. QED
        BY <1>0, <1>1, <3>2, <4>1, <4>2, ReadFields DEF AccountsInv, CreatesAlone
    <3>. QED  BY <3>1, <3>2
  <2>. QED  BY <2>1, <2>3 DEF AccountsInv
<1>2. ASSUME NEW p \in Slots, Continue(p) PROVE AccountsInv'
  <2>1. Advances(p)
    BY <1>0, <1>2, ContinueAdvances
  <2>2. /\ call[p].op # "idle" /\ call[p].user \in Users
        /\ call[p].op \in Ops /\ call[p].step \in StepsOf[call[p].op]
    BY <1>0, <2>1, SlotType DEF Advances
  <2>3. ActiveHasRow'
    BY <1>0, <1>2, <2>2, AccountFootprint
       DEF AccountsInv, ActiveHasRow, InTable, Creates, LinkGoogle, Removes, Activate,
           SetActive, Throw, accounts, Return, Goto, TypeOK
  <2>4. ~(call'[p].op # "idle" /\ call'[p].step = "create")
    <3>1. ASSUME NEW step \in StepsOf[call[p].op] \ {"answer", "create"},
                 call' = [call EXCEPT ![p].step = step], call[p].step # "answer"
          PROVE  call'[p].step # "create"
      BY <1>0, <2>2, <3>1, GotoFields
    <3>2. ASSUME NEW t \in Tokens, "answer" \in StepsOf[call[p].op], Signed(p, t)
          PROVE  call'[p].step # "create"
      BY <1>0, <2>2, <3>2, SignedFields
    <3>3. Return(p) => call'[p].op = "idle"
      BY <1>0, ReturnFields
    <3>4. CASE CreateSession(p)
      <4>1. "answer" \in StepsOf[call[p].op]
        BY <3>4, <2>2, OpsAndSteps DEF CreateSession
      <4>. QED
        BY <2>2, <3>1, <3>2, <3>3, <3>4, <4>1, OpsAndSteps
           DEF CreateSession, SessionRefused, Goto, Throw
    <3>5. CASE Rotate(p)
      BY <3>2, <3>3, <3>5, OpsAndSteps DEF Rotate, At, Throw
    <3>. QED
      BY <1>2, <2>2, <3>1, <3>3, <3>4, <3>5, OpsAndSteps
         DEF Continue, CreateUser, LinkGoogle, CreateOAuthUser, CheckOAuthUser, RollBack,
             RemoveUser, Authenticate, CheckStatus, FindSession, Answer, Revoke, Goto,
             Throw, At
  <2>5. ASSUME NEW q \in Slots \ {p}, call[q].op # "idle", call[q].step = "create"
        PROVE  row'[call[q].user] = row[call[q].user]
    <3>1. call[p].user # call[q].user
      BY <2>2, <2>5 DEF AccountsInv, CreatesAlone
    <3>. QED
      BY <1>0, <1>2, <2>2, <2>5, <3>1, AccountFootprint, SlotType
         DEF Creates, LinkGoogle, Removes, TypeOK
  <2>6. CreatesAlone'
    <3>. SUFFICES ASSUME NEW q \in Slots, call'[q].op # "idle", call'[q].step = "create"
                  PROVE  /\ row'[call'[q].user] = "absent"
                         /\ \A r \in Slots \ {q} :
                               call'[r].op # "idle" => call'[r].user # call'[q].user
      BY DEF CreatesAlone
    <3>1. q # p /\ call'[q] = call[q]
      BY <2>1, <2>4 DEF Advances
    <3>2. \A r \in Slots : call'[r].op # "idle" =>
              call[r].op # "idle" /\ call'[r].user = call[r].user
      BY <2>1 DEF Advances, Idle
    <3>. QED  BY <2>5, <3>1, <3>2 DEF AccountsInv, CreatesAlone
  <2>. QED  BY <2>3, <2>6 DEF AccountsInv
<1>3. ASSUME NEW p \in Slots, Crash(p) PROVE AccountsInv'
  BY <1>0, <1>3, ReturnFields
     DEF Crash, AccountsInv, ActiveHasRow, InTable, CreatesAlone, accounts
<1>4. CASE Environment \/ UNCHANGED vars
  <2>1. ActiveHasRow'
    BY <1>0, <1>4, Environs DEF AccountsInv, ActiveHasRow, InTable, TypeOK
  <2>2. \A q \in Slots : call[q].op # "idle" => call[q].user \in Users
    BY <1>0, SlotType
  <2>3. CreatesAlone'
    BY <1>0, <1>4, <2>2, Environs DEF AccountsInv, CreatesAlone, Present
  <2>. QED  BY <2>1, <2>3 DEF AccountsInv
<1>. QED  BY <1>0, <1>1, <1>2, <1>3, <1>4, StartsRead DEF Next

\* A row leaves the table only when the registration that made it removes it.
LEMMA RowKept ==
    ASSUME TypeOK, AccountsInv, NEW p \in Slots, Continue(p), NEW u \in Users, InTable(u)
    PROVE  Removes(p) \/ InTable(u)'
BY AccountFootprint, SlotType DEF Creates, LinkGoogle, InTable, TypeOK

LEMMA SessionsStep ==
    ASSUME TypeInv, TypeInv', AccountsInv, SessionsSound, [Next]_vars
    PROVE  SessionsSound'
<1>0. TypeOK /\ Stored /\ TypeOK'
  BY DEF TypeInv
<1>1. \A t \in Tokens : session[t] # None =>
          session[t] \in RefreshSession /\ session[t].user \in Users
  BY <1>0 DEF TypeOK, RefreshSession
<1>2. ASSUME NEW p \in Slots, Continue(p) PROVE SessionsSound'
  <2>0. call[p].op # "idle" /\ call[p].user \in Users
    BY <1>0, <1>2, ContinueAdvances, SlotType DEF Advances
  <2>1. ASSUME NEW t \in Tokens, Stores(p, t) PROVE SessionsSound'
    <3>1. row' = row
      BY <2>1 DEF Stores, accounts
    <3>2. session' = [session EXCEPT ![t] = [user |-> call[p].user, revoked |-> FALSE]]
      BY <2>1 DEF Stores, StoreSession
    <3>3. owner' = [owner EXCEPT ![t] = call[p].user] /\ owner[t] = None
      BY <2>1 DEF Stores, StoreSession
    <3>4. successor' = successor /\ InTable(call[p].user)
      BY <2>1 DEF Stores
    <3>5. call[p].user # None
      BY <2>0, ConstantsAssumption
    <3>. QED
      BY <1>0, <3>1, <3>2, <3>3, <3>4, <3>5 DEF SessionsSound, InTable, TypeOK
  <2>2. ASSUME NEW t \in Tokens, NEW new \in Tokens, Rotates(p, t, new) PROVE SessionsSound'
    <3>1. row' = row
      BY <2>2 DEF Rotates, accounts
    <3>2. /\ session' = [session EXCEPT ![t] = None, ![new] = session[t]]
          /\ owner' = [owner EXCEPT ![new] = session[t].user]
          /\ successor' = [successor EXCEPT ![t] = new]
          /\ session[t] # None /\ owner[new] = None
      BY <2>2 DEF Rotates, Live
    <3>3. session[t].user # None /\ new # t
      BY <1>1, <3>2, ConstantsAssumption DEF SessionsSound
    <3>. QED  BY <1>0, <1>1, <3>1, <3>2, <3>3 DEF SessionsSound, InTable, TypeOK
  <2>3. CASE Removes(p)
    <3>1. /\ row' = [row EXCEPT ![call[p].user] = "removed"]
          /\ UNCHANGED <<owner, successor>>
          /\ \A t \in Tokens : session'[t] # None =>
                session'[t] = session[t] /\ session[t].user # call[p].user
      BY <2>3 DEF Removes
    <3>. QED  BY <1>0, <1>1, <3>1 DEF SessionsSound, InTable, TypeOK
  <2>4. CASE Revoke(p)
    <3>1. row' = row /\ UNCHANGED <<owner, successor>>
      BY <2>4 DEF Revoke, accounts
    <3>2. \A t \in Tokens : /\ session'[t] # None => session[t] # None
                            /\ session'[t] # None => session'[t].user = session[t].user
      BY <1>0, <1>1, <2>4 DEF Revoke, Revoked, RefreshSession
    <3>. QED  BY <3>1, <3>2 DEF SessionsSound, InTable
  <2>5. CASE UNCHANGED <<session, owner, successor>>
    <3>1. CASE Removes(p)
      BY <2>3, <3>1
    <3>2. CASE ~Removes(p)
      BY <1>0, <1>1, <1>2, <2>5, <3>2, RowKept DEF SessionsSound
    <3>. QED  BY <3>1, <3>2
  <2>. QED  BY <1>0, <1>2, <2>1, <2>2, <2>3, <2>4, <2>5, SessionFootprint DEF ChangesSessions
<1>3. ASSUME UNCHANGED <<session, owner, successor>>,
             \A u \in Users : InTable(u) => InTable(u)'
      PROVE  SessionsSound'
  BY <1>1, <1>3 DEF SessionsSound
<1>4. ASSUME NEW p \in Slots, NEW c \in Call, Reads(p, c) PROVE SessionsSound'
  BY <1>0, <1>3, <1>4, ReadFields DEF InTable
<1>5. ASSUME NEW p \in Slots, Crash(p) PROVE SessionsSound'
  BY <1>3, <1>5 DEF Crash, InTable, accounts, sessions
<1>6. CASE Environment \/ UNCHANGED vars
  BY <1>0, <1>3, <1>6, Environs DEF InTable
<1>. QED  BY <1>0, <1>2, <1>4, <1>5, <1>6, StartsRead DEF Next

LEMMA OwnTokensStep ==
    ASSUME TypeInv, TypeInv', SessionsSound, OwnTokens, [Next]_vars
    PROVE  OwnTokens'
<1>0. TypeOK /\ Stored /\ TypeOK'
  BY DEF TypeInv
<1>1. \A q \in Slots : call[q].op # "idle" =>
          /\ call[q].op = "refreshTokens" => call[q].token \in Tokens
          /\ call[q].step = "answer" => call[q].new \in Tokens
          /\ call[q].user \in Users
  BY <1>0, SlotType DEF Call
<1>2. ASSUME NEW p \in Slots, Continue(p) PROVE OwnTokens'
  <2>0. Advances(p) /\ call[p].op # "idle"
    BY <1>0, <1>2, ContinueAdvances DEF Advances
  <2>1. \A t \in Tokens : owner[t] # None => owner'[t] = owner[t]
    BY <1>0, <1>2, OwnerKept
  <2>. SUFFICES ASSUME NEW q \in Slots, call'[q].op # "idle"
                PROVE  /\ call'[q].op = "refreshTokens" =>
                             owner'[call'[q].token] = call'[q].user
                       /\ call'[q].step = "answer" => owner'[call'[q].new] = call'[q].user
    BY DEF OwnTokens
  <2>2. /\ call[q].op # "idle" /\ call'[q].op = call[q].op
        /\ call'[q].user = call[q].user /\ call'[q].token = call[q].token
    BY <2>0 DEF Advances, Idle
  <2>3. call[q].user # None
    BY <1>1, <2>2, ConstantsAssumption
  <2>4. call'[q].op = "refreshTokens" => owner'[call'[q].token] = call'[q].user
    BY <1>1, <2>1, <2>2, <2>3 DEF OwnTokens
  <2>5. ASSUME call'[q].step = "answer", q # p
        PROVE  owner'[call'[q].new] = call'[q].user
    BY <1>1, <2>0, <2>1, <2>2, <2>3, <2>5 DEF OwnTokens, Advances
  <2>6. ASSUME call'[p].step = "answer", q = p
        PROVE  owner'[call'[p].new] = call'[p].user
    <3>1. ASSUME NEW t \in Tokens, Stores(p, t) PROVE owner'[t] = call[p].user
      BY <1>0, <3>1 DEF Stores, StoreSession, TypeOK
    <3>2. ASSUME NEW t \in Tokens, NEW new \in Tokens, Rotates(p, t, new)
          PROVE  owner'[new] = call[p].user
      <4>1. owner'[new] = session[t].user
        BY <1>0, <3>2 DEF Rotates, TypeOK
      <4>2. session[t].user = owner[t]
        BY <3>2 DEF Rotates, Live, SessionsSound
      <4>3. owner[t] = call[p].user
        BY <3>2 DEF Rotates, At, OwnTokens
      <4>. QED  BY <4>1, <4>2, <4>3
    <3>. QED  BY <1>0, <1>2, <2>2, <2>6, <3>1, <3>2, NewFootprint
  <2>. QED  BY <2>4, <2>5, <2>6
<1>3. ASSUME NEW p \in Slots, NEW c \in Call, Reads(p, c), FirstRead(c) PROVE OwnTokens'
  BY <1>0, <1>3, ReadFields DEF FirstRead, OwnTokens
<1>4. ASSUME NEW p \in Slots, Crash(p) PROVE OwnTokens'
  BY <1>0, <1>4, ReturnFields DEF Crash, OwnTokens, sessions
<1>5. CASE Environment \/ UNCHANGED vars
  BY <1>0, <1>5, Environs DEF OwnTokens
<1>. QED  BY <1>0, <1>2, <1>3, <1>4, <1>5, StartsRead DEF Next

LEMMA TableInit == Init => TableInv
<1>1. Init => AccountsInv /\ SessionsSound /\ OwnTokens
  BY DEF Init, AccountsInv, ActiveHasRow, CreatesAlone, SessionsSound, OwnTokens, Idle
<1>. QED  BY <1>1, TypeInit DEF TableInv

LEMMA TableStep == TableInv /\ [Next]_vars => TableInv'
BY TypeStep, AccountsStep, SessionsStep, OwnTokensStep DEF TableInv

LEMMA TableAlways == Spec => []TableInv
BY TableInit, TableStep, PTL DEF Spec

\* No failed insert, lost race or roll-back makes register, login or refresh answer a
\* token the server has not stored for the account they work for.
THEOREM AnsweredWasStoredAlways == Spec => []AnsweredWasStored
<1>1. TableInv => AnsweredWasStored
  <2>. SUFFICES ASSUME TableInv PROVE AnsweredWasStored
    OBVIOUS
  <2>1. \A t \in held : owner[t] # None
    BY ConstantsAssumption DEF TableInv, TypeInv, Stored
  <2>2. ASSUME NEW p \in Slots, call[p].op # "idle", call[p].new # None
        PROVE  owner[call[p].new] = call[p].user
    <3>1. call[p].new \in Tokens
      BY <2>2, SlotType DEF TableInv, TypeInv, CallRecord
    <3>. QED  BY <2>2, <3>1, SlotType DEF TableInv, TypeInv, OwnTokens
  <2>. QED  BY <2>1, <2>2 DEF AnsweredWasStored, Running
<1>. QED  BY <1>1, TableAlways, PTL

----------------------------------------------------------------------------
(* Exchanged once, by its owner: the life of a token.                      *)

LEMMA ExchangedOnceStep ==
    ASSUME TableInv, [Next]_vars, NEW t \in Tokens, successor[t] # None
    PROVE  successor'[t] = successor[t]
<1>0. TypeOK /\ Stored /\ SessionsSound
  BY DEF TableInv, TypeInv
<1>1. ASSUME NEW p \in Slots, Continue(p) PROVE successor'[t] = successor[t]
  <2>1. ASSUME NEW old \in Tokens, NEW new \in Tokens, Rotates(p, old, new)
        PROVE  successor'[t] = successor[t]
    BY <1>0, <2>1 DEF Rotates, Live, SessionsSound, TypeOK
  <2>. QED
    BY <1>0, <1>1, <2>1, SessionFootprint DEF ChangesSessions, Stores, Removes, Revoke
<1>. QED  BY <1>0, <1>1, OtherSteps

\* Of any number of refreshes that present one token at once, one wins.
THEOREM ExchangedOnceAlways == Spec => ExchangedOnce
<1>1. TableInv /\ [Next]_vars
        => [\A t \in Tokens : successor[t] # None => successor'[t] = successor[t]]_vars
  BY ExchangedOnceStep
<1>. QED  BY <1>1, TableAlways, PTL DEF Spec, ExchangedOnce

LEMMA OnlyOwnSessionsStep ==
    ASSUME TableInv, [Next]_vars, NEW t \in Tokens, session'[t] # session[t]
    PROVE  \E p \in Slots : Running(p) /\ call'[p] # call[p] /\ call[p].user = owner'[t]
<1>0. TypeOK /\ Stored /\ SessionsSound /\ OwnTokens
  BY DEF TableInv, TypeInv
<1>1. PICK p \in Slots : Continue(p)
  BY <1>0, OtherSteps
<1>2. call[p].op # "idle" /\ Advances(p)
  BY <1>0, <1>1, ContinueAdvances DEF Advances
<1>3. ASSUME NEW s \in Tokens, Stores(p, s)
      PROVE  call'[p] # call[p] /\ call[p].user = owner'[t]
  <2>1. t = s
    BY <1>0, <1>3 DEF Stores, StoreSession, TypeOK
  <2>2. owner'[t] = call[p].user
    BY <1>0, <1>3, <2>1 DEF Stores, StoreSession, TypeOK
  <2>3. call'[p].step = "answer" /\ call[p].step = "session"
    BY <1>0, <1>2, <1>3, SlotType DEF Stores, Signed, TypeOK, Call, CallRecord
  <2>. QED  BY <2>2, <2>3
<1>4. ASSUME NEW old \in Tokens, NEW new \in Tokens, Rotates(p, old, new)
      PROVE  call'[p] # call[p] /\ call[p].user = owner'[t]
  <2>1. t \in {old, new}
    BY <1>0, <1>4 DEF Rotates, TypeOK
  <2>2. call[p].op = "refreshTokens" /\ call[p].token = old /\ session[old] # None
    BY <1>4 DEF Rotates, Live, At
  <2>5. owner[old] = session[old].user
    BY <1>0, <2>2 DEF SessionsSound
  <2>6. owner[old] = call[p].user
    BY <1>0, <2>2 DEF OwnTokens
  <2>3. owner'[t] = call[p].user
    BY <1>0, <1>4, <2>1, <2>5, <2>6 DEF Rotates, TypeOK
  <2>4. call'[p].step = "answer" /\ call[p].step = "rotate"
    BY <1>0, <1>2, <1>4, SlotType DEF Rotates, At, Signed, TypeOK, Call, CallRecord
  <2>. QED  BY <2>3, <2>4
<1>5. ASSUME Removes(p)
      PROVE  call'[p] # call[p] /\ call[p].user = owner'[t]
  <2>1. session[t] # None /\ session[t].user = call[p].user /\ owner' = owner
    BY <1>5 DEF Removes
  <2>. QED  BY <1>0, <1>2, <1>5, <2>1, ReturnFields DEF Removes, SessionsSound
<1>6. ASSUME Revoke(p)
      PROVE  call'[p] # call[p] /\ call[p].user = owner'[t]
  <2>1. session[t] # None /\ session[t].user = call[p].user /\ owner' = owner
    BY <1>6 DEF Revoke, Revoked
  <2>. QED  BY <1>0, <1>2, <1>6, <2>1, ReturnFields DEF Revoke, SessionsSound
<1>. QED
  BY <1>0, <1>1, <1>2, <1>3, <1>4, <1>5, <1>6, SessionFootprint
     DEF ChangesSessions, Running

\* A session is changed and ended by handlers of its own user alone: whose token a
\* request names makes no difference.
THEOREM OnlyOwnSessionsAlways == Spec => OnlyOwnSessions
<1>1. TableInv /\ [Next]_vars
        => [\A t \in Tokens : session'[t] # session[t] =>
               \E p \in Slots : Running(p) /\ call'[p] # call[p]
                                           /\ call[p].user = owner'[t]]_vars
  BY OnlyOwnSessionsStep
<1>. QED  BY <1>1, TableAlways, PTL DEF Spec, OnlyOwnSessions

LEMMA LifecycleInit == Init => Lifecycle!TokenInit
BY DEF Init, Lifecycle!TokenInit, Phase

LEMMA LifecycleStep == TableInv /\ [Next]_vars => [Lifecycle!TokenNext]_(Lifecycle!tokenVars)
<1>. SUFFICES ASSUME TableInv, [Next]_vars
              PROVE  [Lifecycle!TokenNext]_(Lifecycle!tokenVars)
  OBVIOUS
<1>0. TypeOK /\ Stored /\ SessionsSound
  BY DEF TableInv, TypeInv
<1>1. CASE UNCHANGED <<session, owner, successor>>
  BY <1>1 DEF Lifecycle!tokenVars, Phase, Live
<1>2. ASSUME NEW p \in Slots, NEW t \in Tokens, call[p].user \in Users, Stores(p, t)
      PROVE  Lifecycle!Issue(call[p].user, t)
  <2>1. /\ session' = [session EXCEPT ![t] = [user |-> call[p].user, revoked |-> FALSE]]
        /\ owner' = [owner EXCEPT ![t] = call[p].user]
        /\ successor' = successor /\ owner[t] = None
    BY <1>2 DEF Stores, StoreSession
  <2>0. [user |-> call[p].user, revoked |-> FALSE] \in RefreshSession
    BY <1>2 DEF RefreshSession
  <2>2. call[p].user # None /\ [user |-> call[p].user, revoked |-> FALSE] # None
    BY <1>2, <2>0, ConstantsAssumption, NullAssumption
  <2>3. Phase(t) = "unused" /\ Phase(t)' = "live"
    BY <1>0, <2>1, <2>2 DEF Phase, Live, SessionsSound, TypeOK
  <2>4. \A s \in Tokens \ {t} : Phase(s)' = Phase(s)
    BY <1>0, <2>1 DEF Phase, Live, TypeOK
  <2>. QED  BY <2>1, <2>3, <2>4 DEF Lifecycle!Issue
<1>3. ASSUME NEW p \in Slots, NEW old \in Tokens, NEW new \in Tokens, Rotates(p, old, new)
      PROVE  Lifecycle!Exchange(old, new)
  <2>1. /\ session' = [session EXCEPT ![old] = None, ![new] = session[old]]
        /\ owner' = [owner EXCEPT ![new] = session[old].user]
        /\ successor' = [successor EXCEPT ![old] = new]
        /\ Live(old) /\ owner[new] = None
    BY <1>3 DEF Rotates
  <2>2. /\ session[old] # None /\ ~session[old].revoked
        /\ session[old].user # None /\ session[old].user = owner[old]
        /\ successor[old] = None /\ old # new /\ new # None
    BY <1>0, <2>1, ConstantsAssumption DEF Live, SessionsSound, RefreshSession, TypeOK
  <2>3. Phase(old) = "live" /\ Phase(old)' = "exchanged"
    BY <1>0, <2>1, <2>2 DEF Phase, TypeOK
  <2>4. Phase(new) = "unused" /\ Phase(new)' = "live"
    BY <1>0, <2>1, <2>2 DEF Phase, Live, SessionsSound, TypeOK
  <2>5. \A s \in Tokens \ {old, new} : Phase(s)' = Phase(s)
    BY <1>0, <2>1 DEF Phase, Live, TypeOK
  <2>. QED  BY <2>1, <2>2, <2>3, <2>4, <2>5 DEF Lifecycle!Exchange
\* The tokens of T cease to be live, and no other.
<1>4. ASSUME NEW T \in SUBSET Tokens, UNCHANGED <<owner, successor>>,
             \A t \in T : Phase(t) = "live" /\ ~Live(t)',
             \A t \in Tokens \ T : Live(t)' = Live(t)
      PROVE  Lifecycle!End(T)
  BY <1>4 DEF Lifecycle!End, Phase
<1>5. ASSUME NEW u \in Users
      PROVE  Lifecycle!Live(u) = {t \in Tokens : Live(t) /\ session[t].user = u}
  <2>1. \A t \in Tokens : Live(t) => owner[t] = session[t].user /\ owner[t] # None
    BY <1>0, ConstantsAssumption DEF Live, SessionsSound, RefreshSession, TypeOK
  <2>2. \A t \in Tokens : Live(t) => successor[t] = None
    BY <1>0 DEF Live, SessionsSound
  <2>3. \A t \in Tokens : Phase(t) = "live" <=> Live(t)
    BY <2>1, <2>2 DEF Phase
  <2>4. \A t \in Tokens : Phase(t) = "live" /\ owner[t] = u <=> Live(t) /\ session[t].user = u
    BY <2>1, <2>3
  <2>. QED  BY <2>4 DEF Lifecycle!Live
<1>6. ASSUME NEW p \in Slots, call[p].user \in Users, Removes(p)
      PROVE  Lifecycle!End(Lifecycle!Live(call[p].user))
  <2>. DEFINE u == call[p].user
             T == Lifecycle!Live(u)
  <2>1. /\ UNCHANGED <<owner, successor>>
        /\ session' = [t \in Tokens |-> IF session[t] # None /\ session[t].user = u
                                        THEN None ELSE session[t]]
    BY <1>6 DEF Removes
  <2>2. T = {t \in Tokens : Live(t) /\ session[t].user = u}
    BY <1>5, <1>6
  <2>3. \A t \in T : Phase(t) = "live"
    BY DEF Lifecycle!Live
  <2>4. \A t \in T : ~Live(t)'
    BY <2>1, <2>2 DEF Live
  <2>5. \A t \in Tokens \ T : Live(t)' = Live(t)
    BY <2>1, <2>2 DEF Live
  <2>6. T \in SUBSET Tokens
    BY <2>2
  <2>. HIDE DEF T
  <2>7. Lifecycle!End(T)
    BY <1>4, <2>1, <2>3, <2>4, <2>5, <2>6
  <2>. QED  BY <2>7 DEF T
<1>7. ASSUME NEW p \in Slots, call[p].user \in Users, Revoke(p)
      PROVE  \/ Lifecycle!End(Lifecycle!Live(call[p].user))
             \/ \E t \in Lifecycle!Live(call[p].user) : Lifecycle!End({t})
             \/ UNCHANGED (Lifecycle!tokenVars)
  <2>. DEFINE u == call[p].user
             L == Lifecycle!Live(u)
             T == {t \in L : call[p].op = "logout" => t = call[p].token}
  <2>1. /\ UNCHANGED <<owner, successor>>
        /\ session' = [t \in Tokens |-> IF t \in Revoked(call[p])
                                        THEN [session[t] EXCEPT !.revoked = TRUE]
                                        ELSE session[t]]
    BY <1>7, <1>0 DEF Revoke
  <2>2. L = {t \in Tokens : Live(t) /\ session[t].user = u}
    BY <1>5, <1>7
  <2>3. \A t \in T : Phase(t) = "live"
    BY DEF Lifecycle!Live
  <2>4. \A t \in Tokens : session[t] # None => session[t] \in RefreshSession
    BY <1>0 DEF TypeOK
  <2>5. \A t \in T : t \in Revoked(call[p])
    BY <2>2 DEF Live, Revoked
  <2>6. \A t \in Tokens \ T : t \in Revoked(call[p]) => ~Live(t)
    BY <2>2 DEF Revoked, Live
  <2>7. \A t \in Tokens : t \in Revoked(call[p]) => ~Live(t)'
    BY <2>1, <2>4 DEF Live, Revoked, RefreshSession
  <2>8. \A t \in Tokens : t \notin Revoked(call[p]) => Live(t)' = Live(t)
    BY <2>1 DEF Live
  <2>9. \A t \in T : ~Live(t)'
    BY <2>2, <2>5, <2>7
  <2>10. \A t \in Tokens \ T : Live(t)' = Live(t)
    BY <2>6, <2>7, <2>8 DEF Live
  <2>11. T \in SUBSET Tokens /\ T \subseteq L
    BY <2>2
  <2>12. \/ T = L
         \/ T = {}
         \/ \E t \in L : T = {t}
    OBVIOUS
  <2>. HIDE DEF T
  <2>13. Lifecycle!End(T)
    BY <1>4, <2>1, <2>3, <2>9, <2>10, <2>11
  <2>14. CASE T = {}
    <3>1. UNCHANGED (Lifecycle!tokenVars)
      BY <2>1, <2>10, <2>14 DEF Lifecycle!tokenVars, Phase
    <3>. QED  BY <3>1
  <2>. QED  BY <2>12, <2>13, <2>14
<1>8. ASSUME NEW p \in Slots, Continue(p)
      PROVE  [Lifecycle!TokenNext]_(Lifecycle!tokenVars)
  <2>1. call[p].user \in Users
    BY <1>0, <1>8, ContinueAdvances, SlotType DEF Advances
  <2>2. ASSUME NEW t \in Tokens, Stores(p, t) PROVE Lifecycle!TokenNext
    BY <1>2, <2>1, <2>2 DEF Lifecycle!TokenNext
  <2>3. ASSUME NEW t \in Tokens, NEW new \in Tokens, Rotates(p, t, new)
        PROVE  Lifecycle!TokenNext
    BY <1>3, <2>3 DEF Lifecycle!TokenNext
  <2>4. CASE Removes(p)
    BY <1>6, <2>1, <2>4 DEF Lifecycle!TokenNext
  <2>5. CASE Revoke(p)
    BY <1>7, <2>1, <2>5 DEF Lifecycle!TokenNext
  <2>. QED
    BY <1>0, <1>1, <1>8, <2>2, <2>3, <2>4, <2>5, SessionFootprint DEF ChangesSessions
<1>. QED  BY <1>0, <1>1, <1>8, OtherSteps

\* The sessions live as TokenLifecycle says: ending one device's session ends no
\* other's, an exchange is final, and what is no longer live never is again.
THEOREM ImplementsLifecycleAlways == Spec => ImplementsTokenLifecycle
BY LifecycleInit, LifecycleStep, TableAlways, PTL
   DEF Spec, ImplementsTokenLifecycle, Lifecycle!TokenSpec

----------------------------------------------------------------------------
(* Bug #13: the handlers that ran while their account was in use.          *)

\* Handlers that have passed a check of the status.
Checked(c) ==
    \/ c.op = "login"
    \/ c.op = "handleGoogleLogin" /\ c.step \in {"session", "answer"}
    \/ c.op = "refreshTokens" /\ c.step \in {"find", "rotate", "answer"}

EntitledInv ==
    \A p \in Slots : call[p].op # "idle" =>
        /\ InUse(call[p].user) => p \in entitled
        /\ Checked(call[p]) => p \in entitled

\* A handler passes the check of the status only with an account in use.
LEMMA CheckedWasInUse ==
    ASSUME TypeOK, EntitledInv, NEW p \in Slots, Continue(p),
           call'[p].op # "idle", Checked(call'[p])
    PROVE  p \in entitled'
<1>0. ~Return(p) /\ ~Throw(p)
  BY ReturnFields DEF Throw
<1>1. /\ call[p].op # "idle"
      /\ call'[p].op = call[p].op /\ call'[p].user = call[p].user
  BY ContinueAdvances DEF Advances, Idle
<1>2. /\ InUse(call[p].user) => p \in entitled
      /\ Checked(call[p]) => p \in entitled
  BY <1>1 DEF EntitledInv
<1>3. CASE CreateUser(p) \/ RollBack(p) \/ RemoveUser(p)
  BY <1>1, <1>3 DEF CreateUser, RollBack, RemoveUser, At, Checked
<1>4. CASE LinkGoogle(p) \/ CreateOAuthUser(p)
  BY <1>0, <1>1, <1>4 DEF LinkGoogle, CreateOAuthUser, Activate, SetActive, Running
<1>5. CASE CheckOAuthUser(p) \/ CheckStatus(p)
  BY <1>0, <1>2, <1>5 DEF CheckOAuthUser, CheckStatus, MayRefresh, Goto
<1>6. CASE CreateSession(p)
  <2>1. call[p].op # "register"
    BY <1>1 DEF Checked
  <2>2. entitled' = entitled
    BY <1>0, <1>6, <2>1 DEF CreateSession, SessionRefused
  <2>3. call[p].op \in {"login", "handleGoogleLogin"} /\ call[p].step = "session"
    BY <1>1, <1>6, <2>1, SlotType, OpsAndSteps DEF CreateSession
  <2>. QED  BY <1>2, <2>2, <2>3 DEF Checked
<1>7. CASE Authenticate(p)
  <2>1. /\ call' = [call EXCEPT ![p].step = "status"]
        /\ call[p].op = "refreshTokens" /\ call[p].step = "authenticate"
    BY <1>0, <1>7 DEF Authenticate, At, Goto
  <2>2. call'[p].step = "status"
    BY <1>1, <2>1, GotoFields, OpsAndSteps
  <2>. QED  BY <1>1, <2>1, <2>2 DEF Checked
<1>8. CASE FindSession(p) \/ Rotate(p)
  BY <1>0, <1>2, <1>8 DEF FindSession, Rotate, At, Goto, Checked
<1>9. CASE Answer(p) \/ Revoke(p)
  BY <1>0, <1>9 DEF Answer, Revoke
<1>. QED  BY <1>3, <1>4, <1>5, <1>6, <1>7, <1>8, <1>9 DEF Continue

\* InUse, after the step.
InUseNext(u) == row'[u] = "present" /\ u \in active'

\* An account comes into use only when its status becomes ACTIVE, and the handlers
\* that run for it may see that.
LEMMA ComesIntoUse ==
    ASSUME TypeOK, AccountsInv, NEW p \in Slots, Continue(p), NEW q \in Slots,
           call[q].op # "idle", ~InUse(call[q].user), InUseNext(call[q].user)
    PROVE  q \in entitled'
<1>0. call[p].op # "idle" /\ call[p].user \in Users /\ call[q].user \in Users
  BY ContinueAdvances, SlotType DEF Advances
<1>1. CASE Creates(p)
  <2>1. row[call[p].user] = "absent" /\ call[p].user \notin active
    BY <1>0, <1>1 DEF Creates, AccountsInv, ActiveHasRow, CreatesAlone, InTable
  <2>. QED
    BY <1>0, <1>1, <2>1 DEF Creates, Activate, SetActive, InUse, InUseNext, Present, Running, TypeOK
<1>2. CASE Activate(call[p].user) /\ UNCHANGED <<row, google>>
  BY <1>0, <1>2 DEF Activate, SetActive, InUse, InUseNext, Present, Running, TypeOK
<1>3. CASE Removes(p)
  BY <1>0, <1>3 DEF Removes, InUse, InUseNext, Present, TypeOK
<1>4. CASE UNCHANGED <<row, verified, active, google>>
  BY <1>4 DEF InUse, InUseNext, Present
<1>. QED  BY <1>1, <1>2, <1>3, <1>4, AccountFootprint

LEMMA EntitledStep ==
    ASSUME TypeInv, AccountsInv, EntitledInv, [Next]_vars
    PROVE  EntitledInv'
<1>0. TypeOK /\ Stored
  BY DEF TypeInv
<1>1. ASSUME NEW p \in Slots, NEW c \in Call, Reads(p, c), FirstRead(c)
      PROVE  EntitledInv'
  <2>1. InUseNext(c.user) <=> InUse(c.user)
    BY <1>0, <1>1, ReadFields DEF InUse, InUseNext, Present
  <2>2. c.op \in Ops /\ c.step \in StepsOf[c.op]
    BY DEF Call, CallRecord
  <2>3. Checked(c) => InUse(c.user)
    BY <1>1, <2>2, OpsAndSteps DEF Checked, FirstRead
  <2>4. ASSUME NEW q \in Slots \ {p}, call'[q].op # "idle"
        PROVE  /\ InUseNext(call'[q].user) => q \in entitled'
               /\ Checked(call'[q]) => q \in entitled'
    BY <1>0, <1>1, <2>4, ReadFields DEF EntitledInv, InUse, InUseNext, Present
  <2>5. /\ InUseNext(call'[p].user) => p \in entitled'
        /\ Checked(call'[p]) => p \in entitled'
    BY <1>0, <1>1, <2>1, <2>3, ReadFields DEF InUse, InUseNext, Present
  <2>. QED  BY <2>4, <2>5 DEF EntitledInv, InUse, InUseNext, Present
<1>2. ASSUME NEW p \in Slots, Continue(p) PROVE EntitledInv'
  <2>. SUFFICES ASSUME NEW q \in Slots, call'[q].op # "idle"
                PROVE  /\ InUseNext(call'[q].user) => q \in entitled'
                       /\ Checked(call'[q]) => q \in entitled'
    BY DEF EntitledInv, InUse, InUseNext, Present
  <2>1. Advances(p)
    BY <1>0, <1>2, ContinueAdvances
  <2>2. /\ call[q].op # "idle" /\ call'[q].user = call[q].user
        /\ q # p => call'[q] = call[q]
        /\ q \in entitled => q \in entitled'
    BY <2>1 DEF Advances, Idle
  <2>3. InUse(call[q].user) => q \in entitled'
    BY <2>2 DEF EntitledInv
  <2>4. ASSUME InUseNext(call'[q].user), ~InUse(call[q].user) PROVE q \in entitled'
    BY <1>0, <1>2, <2>2, <2>4, ComesIntoUse
  <2>5. Checked(call'[q]) => q \in entitled'
    BY <1>0, <1>2, <2>2, CheckedWasInUse DEF EntitledInv
  <2>. QED  BY <2>3, <2>4, <2>5 DEF InUse, InUseNext, Present
<1>3. ASSUME NEW p \in Slots, Crash(p) PROVE EntitledInv'
  BY <1>0, <1>3, ReturnFields DEF Crash, EntitledInv, InUse, InUseNext, Present, accounts
<1>4. CASE Environment \/ UNCHANGED vars
  <2>1. \A q \in Slots : call[q].op # "idle" => call[q].user \in Users
    BY <1>0, SlotType
  <2>. QED  BY <1>0, <1>4, <2>1, Environs DEF EntitledInv, InUse, InUseNext, Present
<1>. QED  BY <1>0, <1>1, <1>2, <1>3, <1>4, StartsRead DEF Next

\* Bug #13: what starts after a suspension, and ends before it is lifted, mints no
\* token, whatever sessions the account has; registration apart.
THEOREM SuspendedMintsNothingAlways == Spec => []SuspendedMintsNothing
<1>1. Init => EntitledInv
  BY DEF Init, EntitledInv, Idle
<1>2. TableInv /\ EntitledInv /\ [Next]_vars => EntitledInv'
  BY EntitledStep DEF TableInv
<1>3. TableInv /\ EntitledInv => SuspendedMintsNothing
  <2>. SUFFICES ASSUME TypeOK, EntitledInv, NEW p \in Slots,
                       call[p].op # "idle", call[p].new # None, call[p].op # "register"
                PROVE  p \in entitled
    BY DEF TableInv, TypeInv, SuspendedMintsNothing, Running
  <2>1. call[p].step = "answer"
    BY SlotType DEF CallRecord
  <2>2. call[p].op \in {"login", "handleGoogleLogin", "refreshTokens"}
    BY <2>1, SlotType, OpsAndSteps
  <2>. QED  BY <2>1, <2>2 DEF EntitledInv, Checked
<1>. QED  BY <1>1, <1>2, <1>3, TableAlways, PTL DEF Spec

----------------------------------------------------------------------------
(* Nothing is left behind.                                                 *)

\* Who waits to answer does nothing but answer.
LEMMA AnswersOnly ==
    ASSUME TypeOK, NEW p \in Slots, Continue(p), call[p].step = "answer"
    PROVE  Answer(p)
BY DEF Continue, CreateUser, LinkGoogle, CreateOAuthUser, CheckOAuthUser, CreateSession,
       RollBack, RemoveUser, Authenticate, CheckStatus, FindSession, Rotate, Revoke, At

LEMMA LiveIsHeldStep ==
    ASSUME TableInv, LiveIsHeld, [Next]_vars
    PROVE  LiveIsHeld'
<1>0. TypeOK /\ Stored /\ SessionsSound /\ OwnTokens
  BY DEF TableInv, TypeInv
<1>. SUFFICES ASSUME faults' \cap {"crash", "lost"} = {},
                     NEW t \in Tokens, Live(t)', t \notin held'
              PROVE  \E q \in Slots : call'[q].op # "idle" /\ call'[q].new = t
  BY DEF LiveIsHeld, Running
<1>1. faults' = faults
  BY DEF Next, vars
<1>2. ASSUME Live(t), t \notin held
      PROVE  \E q \in Slots : call[q].op # "idle" /\ call[q].new = t
  BY <1>1, <1>2 DEF LiveIsHeld, Running
<1>3. ASSUME NEW p \in Slots, Continue(p)
      PROVE  \E q \in Slots : call'[q].op # "idle" /\ call'[q].new = t
  <2>1. Advances(p) /\ held \subseteq held'
    BY <1>0, <1>3, ContinueAdvances, HeldFootprint
  <2>2. CASE ~Live(t)
    <3>0. /\ call[p].op # "idle" /\ call[p].user \in Users
          /\ call[p].op \in Ops /\ call[p].step \in StepsOf[call[p].op]
      BY <1>0, <2>1, SlotType DEF Advances
    <3>1. ASSUME NEW s \in Tokens, Stores(p, s)
          PROVE  call'[p].op # "idle" /\ call'[p].new = t
      <4>1. s = t
        BY <1>0, <2>2, <3>1 DEF Stores, StoreSession, Live, TypeOK
      <4>2. "answer" \in StepsOf[call[p].op]
        BY <3>0, <3>1, OpsAndSteps DEF Stores
      <4>. QED  BY <1>0, <3>0, <3>1, <4>1, <4>2, SignedFields DEF Stores
    <3>2. ASSUME NEW old \in Tokens, NEW new \in Tokens, Rotates(p, old, new)
          PROVE  call'[p].op # "idle" /\ call'[p].new = t
      <4>1. new = t
        BY <1>0, <2>2, <3>2 DEF Rotates, Live, TypeOK
      <4>2. "answer" \in StepsOf[call[p].op]
        BY <3>2, OpsAndSteps DEF Rotates, At
      <4>. QED  BY <1>0, <3>0, <3>2, <4>1, <4>2, SignedFields DEF Rotates
    <3>3. ~Removes(p)
      BY <2>2 DEF Removes, Live
    <3>4. ~Revoke(p)
      BY <1>0, <2>2 DEF Revoke, Revoked, Live, TypeOK, RefreshSession
    <3>5. ~UNCHANGED <<session, owner, successor>>
      BY <2>2 DEF Live
    <3>. QED
      BY <1>0, <1>3, <3>1, <3>2, <3>3, <3>4, <3>5, SessionFootprint DEF ChangesSessions
  <2>3. CASE Live(t)
    <3>1. PICK q \in Slots : call[q].op # "idle" /\ call[q].new = t
      BY <1>2, <2>1, <2>3
    <3>2. call[q].step = "answer" /\ owner[t] = call[q].user
      BY <1>0, <3>1, SlotType DEF OwnTokens
    <3>3. InTable(call[q].user)
      BY <1>0, <2>3, <3>2 DEF SessionsSound, Live
    <3>4. q # p
      <4>. SUFFICES ASSUME q = p PROVE FALSE
        OBVIOUS
      <4>1. Answer(p)
        BY <1>0, <1>3, <3>2, AnswersOnly
      <4>. QED  BY <1>1, <3>1, <3>3, <4>1 DEF Answer, Answered
    <3>. QED  BY <2>1, <3>1, <3>4 DEF Advances
  <2>. QED  BY <2>2, <2>3
<1>4. ASSUME NEW p \in Slots, NEW c \in Call, Reads(p, c)
      PROVE  \E q \in Slots : call'[q].op # "idle" /\ call'[q].new = t
  <2>1. Live(t) /\ t \notin held
    BY <1>0, <1>4, ReadFields DEF Live
  <2>2. PICK q \in Slots : call[q].op # "idle" /\ call[q].new = t
    BY <1>2, <2>1
  <2>. QED  BY <1>0, <1>4, <2>2, ReadFields
<1>5. ASSUME NEW p \in Slots PROVE ~Crash(p)
  BY <1>1 DEF Crash
<1>6. CASE Environment \/ UNCHANGED vars
  BY <1>0, <1>2, <1>6, Environs DEF Live
<1>. QED  BY <1>0, <1>3, <1>4, <1>5, <1>6, StartsRead DEF Next

\* While no handler dies and every caller waits for the answer, no race of refreshes
\* and log-outs leaves a session that no client can use.
THEOREM LiveIsHeldAlways == Spec => []LiveIsHeld
<1>1. Init => LiveIsHeld
  BY DEF Init, LiveIsHeld, Live
<1>2. TableInv /\ LiveIsHeld /\ [Next]_vars => LiveIsHeld'
  BY LiveIsHeldStep
<1>. QED  BY <1>1, <1>2, TableAlways, PTL DEF Spec

\* A registration that goes on keeps its account, or has stored its session.
LEMMA RegistrationGoesOn ==
    ASSUME TableInv, faults \cap {"crash", "rollback"} = {},
           NEW p \in Slots, Continue(p), call[p].op = "register",
           call'[p] = Idle,
           row[call[p].user] = "present"
    PROVE  row'[call[p].user] = "removed" \/ \E t \in Tokens : owner[t] = call[p].user
<1>0. TypeOK /\ OwnTokens /\ call[p].op # "idle" /\ AccountsInv
  BY DEF TableInv, TypeInv
<1>1. call[p].user \in Users /\ call[p].step \in {"create", "session", "rollback", "remove", "answer"}
  BY <1>0, SlotType, OpsAndSteps
<1>2. call[p].step # "create"
  BY <1>0 DEF AccountsInv, CreatesAlone
<1>3. ASSUME NEW step \in {"session", "rollback", "remove"}, Goto(p, step), call[p].step # "answer"
      PROVE  FALSE
  BY <1>0, <1>3, GotoFields, OpsAndSteps DEF Goto, Idle
<1>4. CASE call[p].step = "session"
  <2>1. CreateSession(p)
    BY <1>0, <1>4
       DEF Continue, CreateUser, LinkGoogle, CreateOAuthUser, CheckOAuthUser, RollBack,
           RemoveUser, Authenticate, CheckStatus, FindSession, Rotate, Answer, Revoke, At
  <2>2. ASSUME NEW t \in Tokens, Signed(p, t) PROVE FALSE
    BY <1>0, <2>2, SignedFields, OpsAndSteps DEF Idle
  <2>. QED  BY <1>3, <1>4, <2>1, <2>2 DEF CreateSession, SessionRefused
<1>5. CASE call[p].step = "rollback"
  <2>1. RollBack(p)
    BY <1>0, <1>5
       DEF Continue, CreateUser, LinkGoogle, CreateOAuthUser, CheckOAuthUser, CreateSession,
           RemoveUser, Authenticate, CheckStatus, FindSession, Rotate, Answer, Revoke, At
  <2>. QED  BY <1>3, <1>5, <2>1 DEF RollBack, Present
<1>6. CASE call[p].step = "remove"
  <2>1. RemoveUser(p)
    BY <1>0, <1>6
       DEF Continue, CreateUser, LinkGoogle, CreateOAuthUser, CheckOAuthUser, CreateSession,
           RollBack, Authenticate, CheckStatus, FindSession, Rotate, Answer, Revoke, At
  <2>. QED  BY <1>0, <1>1, <2>1 DEF RemoveUser, TypeOK
<1>7. CASE call[p].step = "answer"
  BY <1>0, <1>7, SlotType DEF OwnTokens
<1>. QED  BY <1>1, <1>2, <1>4, <1>5, <1>6, <1>7

LEMMA RegistrationStep ==
    ASSUME TableInv, RegistrationIsWhole, [Next]_vars
    PROVE  RegistrationIsWhole'
<1>0. TypeOK /\ Stored /\ OwnTokens /\ AccountsInv
  BY DEF TableInv, TypeInv
<1>. SUFFICES ASSUME faults' \cap {"crash", "rollback"} = {},
                     NEW u \in Users, u \notin verified', row'[u] = "present"
              PROVE  \/ \E q \in Slots : call'[q].op = "register" /\ call'[q].user = u
                     \/ \E t \in Tokens : owner'[t] = u
  BY DEF RegistrationIsWhole, Registering, Present
<1>1. faults' = faults /\ faults \cap {"crash", "rollback"} = {}
  BY DEF Next, vars
<1>2. u # None
  BY ConstantsAssumption
<1>3. ASSUME row[u] = "present", u \notin verified
      PROVE  \/ \E q \in Slots : call[q].op = "register" /\ call[q].user = u
             \/ \E t \in Tokens : owner[t] = u
  BY <1>1, <1>3 DEF RegistrationIsWhole, Registering, Present
<1>4. ASSUME NEW p \in Slots, Continue(p)
      PROVE  \/ \E q \in Slots : call'[q].op = "register" /\ call'[q].user = u
             \/ \E t \in Tokens : owner'[t] = u
  <2>0. Advances(p) /\ call[p].op # "idle" /\ call[p].user \in Users
    BY <1>0, <1>4, ContinueAdvances, SlotType DEF Advances
  <2>1. \A t \in Tokens : owner[t] = u => owner'[t] = u
    BY <1>0, <1>2, <1>4, OwnerKept
  <2>2. CASE row[u] = "present" /\ u \notin verified
    <3>1. CASE \E t \in Tokens : owner[t] = u
      BY <2>1, <3>1
    <3>2. ASSUME NEW q \in Slots, call[q].op = "register", call[q].user = u
          PROVE  \/ call'[q].op = "register" /\ call'[q].user = u
                 \/ \E t \in Tokens : owner[t] = u
      <4>1. CASE q # p
        BY <2>0, <3>2, <4>1 DEF Advances
      <4>2. CASE q = p /\ call'[p] = Idle
        BY <1>1, <1>4, <2>2, <3>2, <4>2, RegistrationGoesOn
      <4>3. CASE q = p /\ call'[p] # Idle
        BY <2>0, <3>2, <4>3 DEF Advances
      <4>. QED  BY <4>1, <4>2, <4>3
    <3>. QED  BY <1>3, <2>2, <3>1, <3>2
  <2>3. CASE ~(row[u] = "present" /\ u \notin verified)
    <3>1. Creates(p) /\ u = call[p].user
      BY <1>0, <1>4, <2>0, <2>3, AccountFootprint
         DEF Creates, LinkGoogle, Removes, Activate, TypeOK
    <3>2. call[p].op = "register" /\ row'[u] # row[u]
      BY <1>0, <2>0, <3>1 DEF Creates, Activate, AccountsInv, CreatesAlone
    <3>3. CreateUser(p)
      BY <1>4, <3>1, <3>2
         DEF Creates, Continue, LinkGoogle, CreateOAuthUser, CheckOAuthUser, CreateSession,
             RollBack, RemoveUser, Authenticate, CheckStatus, FindSession, Rotate, Answer,
             Revoke, At
    <3>4. call' = [call EXCEPT ![p].step = "session"]
      BY <3>2, <3>3 DEF CreateUser, Throw, Goto, accounts
    <3>. QED
      BY <1>0, <2>0, <3>1, <3>2, <3>4, GotoFields, OpsAndSteps DEF Creates
  <2>. QED  BY <2>2, <2>3
<1>5. ASSUME NEW p \in Slots, NEW c \in Call, Reads(p, c)
      PROVE  \/ \E q \in Slots : call'[q].op = "register" /\ call'[q].user = u
             \/ \E t \in Tokens : owner'[t] = u
  <2>1. row[u] = "present" /\ u \notin verified
    BY <1>0, <1>5, ReadFields
  <2>. QED  BY <1>0, <1>3, <1>5, <2>1, ReadFields
<1>6. ASSUME NEW p \in Slots PROVE ~Crash(p)
  BY <1>1 DEF Crash
<1>7. CASE Environment \/ UNCHANGED vars
  BY <1>0, <1>3, <1>7, Environs DEF Present
<1>. QED  BY <1>0, <1>4, <1>5, <1>6, <1>7, StartsRead DEF Next

\* While no handler dies and the roll-back works, a registration that fails leaves no
\* account behind that would refuse a retry.
THEOREM RegistrationIsWholeAlways == Spec => []RegistrationIsWhole
<1>1. Init => RegistrationIsWhole
  BY DEF Init, RegistrationIsWhole, Present
<1>2. TableInv /\ RegistrationIsWhole /\ [Next]_vars => RegistrationIsWhole'
  BY RegistrationStep
<1>. QED  BY <1>1, <1>2, TableAlways, PTL DEF Spec

=============================================================================
