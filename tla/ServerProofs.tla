---------------------------- MODULE ServerProofs ----------------------------
(***************************************************************************)
(* Theorems about Server, for any buckets and key segments, any number of  *)
(* websocket clients, and any sequence of boots under environments that    *)
(* differ from one another.                                                *)
(***************************************************************************)
EXTENDS Server, TLAPS

(* The routing: what an accepted environment can say of where a key goes.  *)

\* What validateEnv and the operator's naming leave of a provider.
Routes(pr) ==
    /\ pr \in Providers
    /\ pr.driver = "neon" => pr.bucket.name \in Buckets
    /\ pr.bucket.name \notin PublicRead
    /\ pr.publicBucket # Unset => pr.publicBucket \in PublicRead
    /\ \A p \in pr.prefixes : ~p.slash
    /\ [segment |-> Documents, slash |-> FALSE] \notin pr.prefixes

\* validateEnv's conditions, together, make every provider one that routes.
LEMMA AcceptedRoutes ==
    ASSUME NEW boot \in Boots
    PROVE  Routes(boot.provider) /\ boot.adapter \in BOOLEAN
<1>. USE EnvironmentAssumption
<1>1. PICK env \in Bootable :
        boot = [provider |-> ProviderOf(env), adapter |-> env.neonDatabase]
  BY DEF Boots
<1>2. /\ env \in Environments /\ NamedAsDeclared(env) /\ Accepted(env)
      /\ boot.provider = ProviderOf(env) /\ boot.adapter = env.neonDatabase
  BY <1>1 DEF Bootable
<1>3. /\ env.driver \in Drivers /\ env.bucket \in Name /\ env.publicBucket \in Name
      /\ env.prefixes \in SUBSET Prefix /\ env.neonDatabase \in BOOLEAN
  BY <1>2 DEF Environments
<1>4. CASE env.driver = "neon"
  <2>1. ProviderOf(env) = [driver |-> env.driver, bucket |-> env.bucket,
                           publicBucket |-> env.publicBucket.name,
                           prefixes |-> env.prefixes]
    BY <1>4 DEF ProviderOf, Configuration
  <2>2. ProviderOf(env) \in Providers
    BY <1>3, <2>1 DEF Providers, Name
  <2>3. env.bucket.name \in Buckets /\ env.bucket.name \notin PublicRead
    BY <1>2, <1>3, <1>4 DEF Accepted, TwoBuckets, DriverHasSettings, Required, NamedAsDeclared, Name
  <2>4. env.publicBucket.name # Unset => env.publicBucket.name \in PublicRead
    BY <1>2, <1>3 DEF Accepted, TwoBuckets, NamedAsDeclared
  <2>5. /\ \A p \in env.prefixes : ~p.slash
        /\ [segment |-> Documents, slash |-> FALSE] \notin env.prefixes
    BY <1>2 DEF Accepted, NoSlash, NoDocuments
  <2>. QED  BY <1>2, <1>3, <2>1, <2>2, <2>3, <2>4, <2>5 DEF Routes
<1>5. CASE env.driver # "neon"
  <2>1. ProviderOf(env) = [driver |-> env.driver,
                           bucket |-> [name |-> Unset, padded |-> FALSE],
                           publicBucket |-> Unset, prefixes |-> {}]
    BY <1>5 DEF ProviderOf
  <2>. QED  BY <1>2, <1>3, <1>5, <2>1 DEF Routes, Providers, Name
<1>. QED  BY <1>4, <1>5

LEMMA NoProviderRoutes == Routes(NoProvider)
BY EnvironmentAssumption DEF Routes, NoProvider, Providers, Name, Drivers

\* Where such a provider puts a key: an identity document into its own bucket,
\* never a public one, and what is listed as public into a public one.
LEMMA RoutedObject ==
    ASSUME NEW pr, Routes(pr), NEW segment \in Segments, Reachable(pr, segment)
    PROVE  /\ BucketFor(pr, segment) \in Buckets
           /\ Listed(pr, segment) \in BOOLEAN
           /\ BucketFor(pr, Documents) = pr.bucket.name
           /\ pr.bucket.name \notin PublicRead
           /\ Listed(pr, segment) => BucketFor(pr, segment) \in PublicRead
<1>. USE EnvironmentAssumption
<1>1. pr.driver = "neon"
  BY DEF Reachable
<1>2. BucketFor(pr, segment) \in Buckets
  BY <1>1 DEF Routes, BucketFor, RoutedPublic
<1>3. BucketFor(pr, Documents) = pr.bucket.name
  BY DEF Routes, BucketFor, RoutedPublic
<1>4. ASSUME Listed(pr, segment) PROVE BucketFor(pr, segment) \in PublicRead
  <2>1. PICK p \in pr.prefixes : p.segment = segment
    BY <1>4 DEF Listed
  <2>2. p \in Prefix /\ ~p.slash
    BY DEF Routes, Providers
  <2>3. p = [segment |-> segment, slash |-> FALSE]
    BY <2>1, <2>2 DEF Prefix
  <2>4. RoutedPublic(pr, segment)
    BY <1>4, <2>3 DEF Listed, RoutedPublic
  <2>. QED  BY <2>4 DEF Routes, BucketFor, RoutedPublic
<1>5. Listed(pr, segment) \in BOOLEAN
  BY DEF Listed
<1>. QED  BY <1>2, <1>3, <1>4, <1>5 DEF Routes

-----------------------------------------------------------------------------
(* The gateway.                                                            *)

\* What identifies a socket: it hears, and is in a room, only by its own token,
\* and a socket nobody has connected yet has no traces.
Identified ==
    /\ EventsReachTheirUser
    /\ \A c \in Clients :
          /\ \A u \in Users : c \in rooms[u] => token[c] = u
          /\ socket[c] = "new" =>
                /\ c \notin verifying /\ received[c] = {}
                /\ \A u \in Users : c \notin rooms[u]

GatewayInv == GatewayTypeOK /\ Identified

LEMMA GatewayStarts == GatewayInit => GatewayInv
<1>. SUFFICES ASSUME GatewayInit PROVE GatewayInv
  OBVIOUS
<1>1. GatewayTypeOK
  BY TokenAssumption DEF GatewayInit, GatewayTypeOK, Tokens
<1>2. Identified
  BY DEF GatewayInit, Identified, EventsReachTheirUser
<1>. QED  BY <1>1, <1>2 DEF GatewayInv

LEMMA GatewayForgets == ForgetClients => GatewayInv'
<1>. SUFFICES ASSUME ForgetClients PROVE GatewayInv'
  OBVIOUS
<1>1. GatewayTypeOK'
  BY TokenAssumption DEF ForgetClients, GatewayTypeOK, Tokens
<1>2. Identified'
  BY DEF ForgetClients, Identified, EventsReachTheirUser
<1>. QED  BY <1>1, <1>2 DEF GatewayInv

LEMMA GatewayStays == GatewayInv /\ UNCHANGED gatewayVars => GatewayInv'
BY DEF GatewayInv, GatewayTypeOK, Identified, EventsReachTheirUser, gatewayVars

\* A socket that leaves is closed and in no room; the others are as they were.
LEMMA LeaveStep ==
    ASSUME GatewayInv, NEW c \in Clients, Leave(c),
           verifying' \in {verifying, verifying \ {c}}, UNCHANGED <<token, received>>
    PROVE  GatewayInv'
<1>1. GatewayTypeOK'
  BY DEF GatewayInv, GatewayTypeOK, Leave
<1>2. \A d \in Clients :
        /\ socket'[d] = IF d = c THEN "closed" ELSE socket[d]
        /\ d # c => connectedClients'[d] = connectedClients[d]
        /\ d # c => (d \in verifying' <=> d \in verifying)
        /\ \A u \in Users : d \in rooms'[u] <=> d \in rooms[u] /\ d # c
  BY DEF GatewayInv, GatewayTypeOK, Leave
<1>3. Identified'
  BY <1>2 DEF GatewayInv, Identified, EventsReachTheirUser
<1>. QED  BY <1>1, <1>3 DEF GatewayInv

LEMMA GatewayStep == GatewayInv /\ GatewayNext => GatewayInv'
<1>. SUFFICES ASSUME GatewayInv, GatewayNext PROVE GatewayInv'
  OBVIOUS
<1>0. GatewayTypeOK /\ Identified
  BY DEF GatewayInv
<1>1. ASSUME NEW c \in Clients, NEW t \in Tokens, HandleConnection(c, t)
      PROVE  GatewayInv'
  <2>1. GatewayTypeOK'
    BY <1>0, <1>1 DEF HandleConnection, GatewayTypeOK
  <2>2. /\ \A d \in Clients \ {c} : /\ socket'[d] = socket[d] /\ token'[d] = token[d]
                                    /\ d \in verifying' <=> d \in verifying
        /\ socket'[c] = "closed" \/ (socket'[c] = "open" /\ c \in verifying')
        /\ socket[c] = "new"
        /\ UNCHANGED <<connectedClients, rooms, received>>
    BY <1>0, <1>1 DEF HandleConnection, GatewayTypeOK
  <2>3. Identified'
    BY <1>0, <2>2 DEF Identified, EventsReachTheirUser
  <2>. QED  BY <2>1, <2>3 DEF GatewayInv
<1>2. ASSUME NEW c \in Clients, Verified(c)
      PROVE  GatewayInv'
  <2>1. GatewayTypeOK'
    BY <1>0, <1>2 DEF Verified, GatewayTypeOK
  <2>2. /\ \A d \in Clients : connectedClients'[d] = IF d = c THEN token[c]
                                                     ELSE connectedClients[d]
        /\ \A d \in Clients, u \in Users :
              d \in rooms'[u] <=> d \in rooms[u] \/ (d = c /\ u = token[c])
        /\ \A d \in Clients : d \in verifying' <=> d \in verifying /\ d # c
        /\ socket[c] # "new" /\ token[c] \in Users
        /\ UNCHANGED <<socket, token, received>>
    BY <1>0, <1>2 DEF Verified, GatewayTypeOK, Identified
  <2>3. Identified'
    BY <1>0, <2>2 DEF Identified, EventsReachTheirUser
  <2>. QED  BY <2>1, <2>3 DEF GatewayInv
<1>3. ASSUME NEW c \in Clients, VerifyFails(c) \/ HandleDisconnect(c)
      PROVE  GatewayInv'
  BY <1>3, LeaveStep DEF VerifyFails, HandleDisconnect
<1>4. ASSUME NEW u \in Users, EmitToUser(u)
      PROVE  GatewayInv'
  <2>1. GatewayTypeOK'
    BY <1>0, <1>4 DEF EmitToUser, GatewayTypeOK
  <2>2. \A c \in Clients : c \in rooms[u] => token[c] = u
    BY <1>0 DEF Identified
  <2>3. /\ \A c \in Clients : received'[c] = IF c \in rooms[u] /\ socket[c] = "open"
                                              THEN received[c] \cup {u} ELSE received[c]
        /\ UNCHANGED <<socket, token, verifying, connectedClients, rooms>>
    BY <1>4 DEF EmitToUser
  <2>4. \A c \in Clients : received'[c] \subseteq {token[c]}
                            /\ (socket[c] = "new" => received'[c] = {})
    <3>. SUFFICES ASSUME NEW c \in Clients
                  PROVE  /\ received'[c] \subseteq {token[c]}
                         /\ socket[c] = "new" => received'[c] = {}
      OBVIOUS
    <3>1. /\ received[c] \subseteq {token[c]}
          /\ socket[c] = "new" => received[c] = {}
      BY <1>0 DEF Identified, EventsReachTheirUser
    <3>2. received'[c] = received[c] \/ (received'[c] = received[c] \cup {u} /\ token[c] = u
                                          /\ socket[c] = "open")
      BY <2>2, <2>3
    <3>. QED  BY <3>1, <3>2
  <2>5. Identified'
    BY <1>0, <2>3, <2>4 DEF Identified, EventsReachTheirUser
  <2>. QED  BY <2>1, <2>5 DEF GatewayInv
<1>. QED  BY <1>1, <1>2, <1>3, <1>4 DEF GatewayNext

-----------------------------------------------------------------------------
(* The process.                                                            *)

\* Every object lies where its uploader's routing may put it.
WellStored ==
    \A o \in stored :
        /\ o.segment = Documents => o.bucket \notin PublicRead
        /\ o.listed => o.bucket \in PublicRead

ProcessInv ==
    /\ TypeOK
    /\ Routes(provider)
    /\ WellStored
    /\ phase \in Serving \cup {"ready"} => answered
    /\ Identified

LEMMA ExitStep ==
    ASSUME ProcessInv, Exit PROVE ProcessInv'
<1>1. GatewayInv'
  BY GatewayForgets DEF Exit
<1>2. provider' = NoProvider /\ stored' = stored /\ phase' = "down"
  BY DEF Exit
<1>3. Routes(provider')
  BY <1>2, NoProviderRoutes
<1>4. TypeOK'
  <2>1. closer' \in [Closers -> CloserSteps]
    BY DEF Exit, Idle, CloserSteps
  <2>2. provider' \in Providers
    BY <1>3 DEF Routes
  <2>. QED  BY <1>1, <2>1, <2>2 DEF Exit, TypeOK, ProcessInv, GatewayInv, Phases
<1>. QED  BY <1>1, <1>2, <1>3, <1>4 DEF ProcessInv, GatewayInv, WellStored, Routes, Serving

\* A step of the boot or of the shutdown, apart from sockets and objects.
LEMMA PhaseStep ==
    ASSUME ProcessInv, GatewayInv', UNCHANGED stored,
           phase' \in Phases, Routes(provider'), adapter' \in BOOLEAN,
           answered' \in BOOLEAN, database' \in {"up", "stalled", "down"},
           closer' \in [Closers -> CloserSteps],
           phase' \in Serving \cup {"ready"} => answered'
    PROVE  ProcessInv'
<1>1. TypeOK'
  BY DEF ProcessInv, TypeOK, GatewayInv, Routes
<1>. QED  BY <1>1 DEF ProcessInv, GatewayInv, WellStored, Routes

LEMMA ProcessStep ==
    ASSUME ProcessInv, [Next]_vars PROVE ProcessInv'
<1>0. /\ GatewayInv /\ Routes(provider) /\ provider \in Providers
      /\ phase \in Phases /\ adapter \in BOOLEAN /\ answered \in BOOLEAN
      /\ database \in {"up", "stalled", "down"}
      /\ closer \in [Closers -> CloserSteps]
  BY DEF ProcessInv, TypeOK, GatewayInv
<1>a. UNCHANGED gatewayVars => GatewayInv'
  BY <1>0, GatewayStays
<1>b. UNCHANGED provider => Routes(provider')
  BY <1>0
<1>1. CASE UNCHANGED vars
  <2>1. UNCHANGED gatewayVars
    BY <1>1 DEF vars
  <2>. QED  BY <1>0, <1>1, <1>a, <1>b, <2>1, PhaseStep DEF vars, bootVars, ProcessInv
<1>2. ASSUME NEW boot \in Boots, Create(boot)
      PROVE  ProcessInv'
  <2>1. Routes(provider') /\ adapter' \in BOOLEAN
    BY <1>2, AcceptedRoutes DEF Create
  <2>. QED  BY <1>0, <1>2, <1>a, <2>1, PhaseStep DEF Create, Phases, Booting, Serving
<1>3. CASE DatabaseChanges
  BY <1>0, <1>3, <1>a, <1>b, PhaseStep DEF DatabaseChanges, ProcessInv
<1>4. CASE BootStep
  <2>1. CASE Exit
    BY <2>1, ExitStep
  <2>2. CASE Connect
    BY <1>0, <1>a, <1>b, <2>2, PhaseStep DEF Connect, AfterConnect, Phases, Booting, Serving
  <2>3. CASE PingAnswered
    BY <1>0, <1>a, <1>b, <2>3, PhaseStep DEF PingAnswered, Phases, Booting, Serving
  <2>4. CASE Listen
    BY <1>0, <1>a, <1>b, <2>4, PhaseStep DEF Listen, Phases, Booting, Serving, ProcessInv
  <2>. QED
    BY <1>4, <2>1, <2>2, <2>3, <2>4 DEF BootStep, ConnectFails, PingFails, PingTimesOut,
       BindFails
<1>5. ASSUME NEW segment \in Segments, Upload(segment)
      PROVE  ProcessInv'
  <2>. DEFINE o == [segment |-> segment, bucket |-> BucketFor(provider, segment),
                    listed |-> Listed(provider, segment)]
  <2>1. stored' = stored \cup {o} /\ Reachable(provider, segment)
        /\ UNCHANGED <<bootVars, closer, gatewayVars>>
    BY <1>5 DEF Upload
  <2>2. /\ o \in Objects
        /\ o.segment = Documents => o.bucket \notin PublicRead
        /\ o.listed => o.bucket \in PublicRead
    BY <1>0, <2>1, RoutedObject DEF Objects
  <2>. HIDE DEF o
  <2>3. WellStored'
    BY <2>1, <2>2 DEF ProcessInv, WellStored
  <2>4. GatewayInv'
    BY <1>a, <2>1
  <2>5. TypeOK'
    BY <1>0, <2>1, <2>2, <2>4 DEF ProcessInv, TypeOK, GatewayInv, bootVars
  <2>. QED  BY <1>0, <1>b, <2>1, <2>3, <2>4, <2>5 DEF ProcessInv, GatewayInv, bootVars
<1>6. CASE Gateway
  <2>1. GatewayInv'
    BY <1>0, <1>6, GatewayStep DEF Gateway
  <2>. QED  BY <1>0, <1>6, <1>b, <2>1, PhaseStep DEF Gateway, bootVars, ProcessInv
<1>7. CASE Signal
  <2>1. closer' \in [Closers -> CloserSteps] /\ answered
    BY <1>7 DEF Signal, CloserSteps, ProcessInv, Serving
  <2>. QED  BY <1>0, <1>7, <1>a, <1>b, <2>1, PhaseStep DEF Signal, Phases, Serving
<1>8. CASE CloserStep
  <2>1. ASSUME NEW c \in Closers, NEW from, NEW to \in CloserSteps,
               CloserGoes(c, from, to), GatewayInv'
        PROVE  ProcessInv'
    <3>1. closer' \in [Closers -> CloserSteps]
      BY <1>0, <2>1 DEF CloserGoes
    <3>. QED  BY <1>0, <1>b, <2>1, <3>1, PhaseStep DEF CloserGoes, bootVars, ProcessInv
  <2>2. PICK c \in Closers : \/ Disconnect(c) \/ ClosePool(c) \/ ClosePoolAgain(c)
                             \/ Dispose(c) \/ LastStep(c)
    BY <1>8 DEF CloserStep
  <2>3. CASE Disconnect(c)
    BY <1>a, <2>1, <2>3 DEF Disconnect, CloserSteps
  <2>4. CASE ClosePool(c)
    BY <1>a, <2>1, <2>4 DEF ClosePool, CloserSteps
  <2>5. CASE ClosePoolAgain(c)
    BY <2>5, ExitStep DEF ClosePoolAgain
  <2>6. CASE Dispose(c)
    <3>1. GatewayTypeOK'
      BY <1>0, <2>6 DEF Dispose, GatewayInv, GatewayTypeOK
    <3>2. Identified'
      BY <1>0, <2>6 DEF Dispose, GatewayInv, Identified, EventsReachTheirUser
    <3>. QED  BY <2>1, <2>6, <3>1, <3>2 DEF Dispose, GatewayInv, CloserSteps
  <2>7. CASE LastStep(c)
    BY <1>a, <2>1, <2>7, ExitStep DEF LastStep, CloserSteps
  <2>. QED  BY <2>2, <2>3, <2>4, <2>5, <2>6, <2>7
<1>9. CASE UncaughtException
  BY <1>0, <1>9, <1>a, <1>b, PhaseStep DEF UncaughtException, Phases, Serving, ProcessInv
<1>10. CASE DoomedExits \/ Crash
  BY <1>10, ExitStep DEF DoomedExits, Crash
<1>. QED
  BY <1>1, <1>2, <1>3, <1>4, <1>5, <1>6, <1>7, <1>8, <1>9, <1>10 DEF Next

LEMMA ProcessInit == Init => ProcessInv
<1>. SUFFICES ASSUME Init PROVE ProcessInv
  OBVIOUS
<1>1. GatewayInv
  BY GatewayStarts DEF Init
<1>2. Routes(provider) /\ provider \in Providers
  BY NoProviderRoutes DEF Init, Routes
<1>3. closer \in [Closers -> CloserSteps]
  BY DEF Init, Idle, CloserSteps
<1>. QED  BY <1>1, <1>2, <1>3 DEF Init, ProcessInv, TypeOK, GatewayInv, Phases, WellStored,
            Serving

LEMMA ProcessAlways == Spec => []ProcessInv
BY ProcessInit, ProcessStep, PTL DEF Spec

\* The process, its sockets and the object storage keep their shapes over every boot
\* and every end; in particular every object lies in a bucket that has a name.
THEOREM TypeCorrect == Spec => []TypeOK
<1>1. ProcessInv => TypeOK
  BY DEF ProcessInv
<1>. QED  BY <1>1, ProcessAlways, PTL

\* No sequence of accepted environments puts an identity document into a bucket that
\* anyone can read, or hides one from a later process that uses the same bucket.
THEOREM DocumentsStayPrivateAlways == Spec => []DocumentsStayPrivate
<1>1. ProcessInv => DocumentsStayPrivate
  <2>. SUFFICES ASSUME ProcessInv, NEW o \in stored, o.segment = Documents
                PROVE  /\ o.bucket \notin PublicRead
                       /\ Reachable(provider, Documents) /\ provider.bucket.name = o.bucket
                            => BucketFor(provider, Documents) = o.bucket
    BY DEF DocumentsStayPrivate
  <2>1. o.bucket \notin PublicRead /\ Routes(provider)
    BY DEF ProcessInv, WellStored
  <2>. QED  BY <2>1, EnvironmentAssumption, RoutedObject
<1>. QED  BY <1>1, ProcessAlways, PTL

\* What an operator lists as public is always stored in a public bucket.
THEOREM ListedIsServedAlways == Spec => []ListedIsServed
<1>1. ProcessInv => ListedIsServed
  BY DEF ProcessInv, WellStored, ListedIsServed
<1>. QED  BY <1>1, ProcessAlways, PTL

\* No process serves before the database has answered a query of its own, whichever
\* driver it was booted with.
THEOREM ServesOnlyAnsweredAlways == Spec => []ServesOnlyAnswered
<1>1. ProcessInv => ServesOnlyAnswered
  BY DEF ProcessInv, ServesOnlyAnswered
<1>. QED  BY <1>1, ProcessAlways, PTL

\* However many clients connect, disconnect during the verification of their token, or
\* fail it, a user's events reach only sockets that presented that user's token, and an
\* open socket past its handshake is identified.
THEOREM EventsReachTheirUserAlways == Spec => []EventsReachTheirUser
<1>1. ProcessInv => EventsReachTheirUser
  BY DEF ProcessInv, Identified
<1>. QED  BY <1>1, ProcessAlways, PTL
=============================================================================
