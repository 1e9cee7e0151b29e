------------------------------- MODULE Server -------------------------------
(***************************************************************************)
(* One server process from its environment to its exit, over and over: the *)
(* boot (main.ts, the factories of the modules, the database ping of       *)
(* database/prisma.service.ts), the time it serves uploads and websocket   *)
(* clients, and its end, by a signal, an uncaught exception or a crash.    *)
(* Every boot may find another environment; what was uploaded stays.       *)
(***************************************************************************)
EXTENDS Environment, EventsGateway

VARIABLES
    phase,      \* how far the process is
    provider,   \* the storage provider
    adapter,    \* neonAdapter # null: the websocket driver
    database,   \* while booting: how the database behaves at the moment
    answered,   \* history: it answered a query of this process
    stored,     \* what lies in the buckets of the object storage
    closer      \* the two shutdown paths: Nest's hook and main's handler

bootVars == <<phase, provider, adapter, database, answered>>
vars == <<phase, provider, adapter, database, answered, stored, closer, gatewayVars>>

Booting == {"created", "pinging", "ready"}
Serving == {"listening", "closing", "doomed"}
Phases == {"down"} \cup Booting \cup Serving
Closers == {"nest", "main"}
CloserSteps == {"idle", "disconnect", "pool", "dispose", "exit"}

Idle == [c \in Closers |-> "idle"]
NoProvider == [driver |-> "local", bucket |-> [name |-> Unset, padded |-> FALSE],
               publicBucket |-> Unset, prefixes |-> {}]

\* An object: its key's first segment, its bucket, and whether the operator who ran the
\* process that stored it had listed the segment as public.
Objects == [segment : Segments, bucket : Buckets, listed : BOOLEAN]

TypeOK ==
    /\ phase \in Phases
    /\ provider \in Providers
    /\ adapter \in BOOLEAN /\ answered \in BOOLEAN
    /\ database \in {"up", "stalled", "down"}
    /\ stored \in SUBSET Objects
    /\ closer \in [Closers -> CloserSteps]
    /\ GatewayTypeOK

Init ==
    /\ phase = "down"
    /\ provider = NoProvider
    /\ adapter = FALSE /\ answered = FALSE
    /\ database = "up"
    /\ stored = {}
    /\ closer = Idle
    /\ GatewayInit

\* process.exit, or the end of the process by any other means.
Exit ==
    /\ phase' = "down"
    /\ provider' = NoProvider
    /\ adapter' = FALSE /\ answered' = FALSE
    /\ database' = "up"
    /\ closer' = Idle
    /\ ForgetClients
    /\ UNCHANGED stored

-----------------------------------------------------------------------------
(* Boot *)

\* NestFactory.create: ConfigModule validates, the factories run.  A refused environment,
\* or a factory that throws, ends the process where it began.  JobsModule's throws on a
\* REDIS_URL that is no URL, which validateEnv lets pass.
Bootable ==
    {env \in Environments : NamedAsDeclared(env) /\ Accepted(env) /\ env.redisUrl # "garbage"}

Boots == {[provider |-> ProviderOf(env), adapter |-> env.neonDatabase] : env \in Bootable}

Create(boot) ==
    /\ phase = "down"
    /\ phase' = "created"
    /\ provider' = boot.provider
    /\ adapter' = boot.adapter
    /\ \E d \in {"up", "stalled", "down"} : database' = d
    /\ UNCHANGED <<answered, stored, closer, gatewayVars>>

\* The database is followed only while the process boots.
DatabaseChanges ==
    /\ phase \in Booting
    /\ database' \in {"up", "stalled", "down"} \ {database}
    /\ UNCHANGED <<phase, provider, adapter, answered, stored, closer, gatewayVars>>

\* mutant: $connect is taken for a round-trip
AfterConnect_ == "ready"

AfterConnect == "pinging"

\* PrismaService.onModuleInit, called by app.listen: $connect() is a no-op under an
\* adapter, and really connects otherwise.
Connect ==
    /\ phase = "created"
    /\ adapter \/ database = "up"
    /\ phase' = AfterConnect
    /\ UNCHANGED <<provider, adapter, database, answered, stored, closer, gatewayVars>>

\* The TCP driver gives up by itself when nobody answers.
ConnectFails ==
    /\ phase = "created" /\ ~adapter /\ database # "up"
    /\ Exit

PingAnswered ==
    /\ phase = "pinging" /\ database = "up"
    /\ phase' = "ready"
    /\ answered' = TRUE
    /\ UNCHANGED <<provider, adapter, database, stored, closer, gatewayVars>>

PingFails ==
    /\ phase = "pinging" /\ database = "down"
    /\ Exit

\* mutant: pg's own default, wait forever
PingTimesOut_ == FALSE

\* The other side of the race, whatever the database does later.
PingTimesOut ==
    /\ phase = "pinging"
    /\ Exit

\* app.listen; from here on the database is no longer followed.
Listen ==
    /\ phase = "ready"
    /\ phase' = "listening"
    /\ database' = "up"
    /\ UNCHANGED <<provider, adapter, answered, stored, closer, gatewayVars>>

\* The port is taken: bootstrap() rejects.
BindFails ==
    /\ phase = "ready"
    /\ Exit

BootStep ==
    \/ Connect \/ ConnectFails
    \/ PingAnswered \/ PingFails \/ PingTimesOut
    \/ Listen \/ BindFails

-----------------------------------------------------------------------------
(* Service *)

\* StorageService.upload of a key that UploadsService (avatars, receipts) or
\* HandymanService (documents) generated.
Upload(segment) ==
    /\ phase \in Serving
    /\ Reachable(provider, segment)
    /\ stored' = stored \cup {[segment |-> segment, bucket |-> BucketFor(provider, segment),
                               listed |-> Listed(provider, segment)]}
    /\ UNCHANGED <<bootVars, closer, gatewayVars>>

Gateway ==
    /\ phase \in Serving
    /\ GatewayNext
    /\ UNCHANGED <<bootVars, stored, closer>>

-----------------------------------------------------------------------------
(* Shutdown *)

\* SIGTERM or SIGINT: Nest's shutdown hook (enableShutdownHooks) and the handler that
\* main.ts installs both run.
Signal ==
    /\ phase = "listening"
    /\ phase' = "closing"
    /\ closer' = [c \in Closers |-> "disconnect"]
    /\ UNCHANGED <<provider, adapter, database, answered, stored, gatewayVars>>

CloserGoes(c, from, to) ==
    /\ phase = "closing" /\ closer[c] = from
    /\ closer' = [closer EXCEPT ![c] = to]
    /\ UNCHANGED <<bootVars, stored>>

\* onModuleDestroy: $disconnect, then the pool of the adapter.
Disconnect(c) ==
    /\ CloserGoes(c, "disconnect", IF adapter THEN "pool" ELSE "dispose")
    /\ UNCHANGED gatewayVars

ClosePool(c) ==
    /\ CloserGoes(c, "pool", "dispose")
    /\ UNCHANGED gatewayVars

\* A pool that the other path has ended, or is ending, may refuse to be ended again: the
\* error ends the process with code 1, wherever the other path is.
ClosePoolAgain(c) ==
    /\ phase = "closing" /\ closer[c] = "pool"
    /\ \E d \in Closers \ {c} : closer[d] # "disconnect"
    /\ Exit

\* The servers are closed, and with them every socket.
Dispose(c) ==
    /\ CloserGoes(c, "dispose", "exit")
    /\ socket' = [d \in Clients |-> "closed"]
    /\ connectedClients' = [d \in Clients |-> NoToken]
    /\ rooms' = [u \in Users |-> {}]
    /\ UNCHANGED <<token, verifying, received>>

\* main exits; Nest's hook sends the signal again, which main's handler is already at.
LastStep(c) ==
    /\ phase = "closing" /\ closer[c] = "exit"
    /\ IF c = "main" THEN Exit
       ELSE /\ CloserGoes(c, "exit", "idle")
            /\ UNCHANGED gatewayVars

CloserStep ==
    \E c \in Closers : \/ Disconnect(c) \/ ClosePool(c) \/ ClosePoolAgain(c)
                       \/ Dispose(c) \/ LastStep(c)

\* An uncaught exception: the process serves on for a second, then exits.
UncaughtException ==
    /\ phase = "listening"
    /\ phase' = "doomed"
    /\ UNCHANGED <<provider, adapter, database, answered, stored, closer, gatewayVars>>

DoomedExits ==
    /\ phase = "doomed"
    /\ Exit

\* Killed, out of memory, or a signal before the handlers are installed.
Crash ==
    /\ phase # "down"
    /\ Exit

Next ==
    \/ \E boot \in Boots : Create(boot)
    \/ DatabaseChanges
    \/ BootStep
    \/ \E segment \in Segments : Upload(segment)
    \/ Gateway
    \/ Signal \/ CloserStep
    \/ UncaughtException \/ DoomedExits
    \/ Crash

Spec == Init /\ [][Next]_vars

\* The event loop runs on: a timer fires, a promise that is settled is served, a
\* connection attempt ends.  Nobody is obliged to start or to stop a process.
FairSpec ==
    /\ Spec
    /\ WF_vars(BootStep)
    /\ WF_vars(CloserStep)
    /\ WF_vars(DoomedExits)

-----------------------------------------------------------------------------
(* An identity document never lies in a bucket that anyone can read, whatever environments *)
(* the processes that stored it, and those before and after them, were started with, if     *)
(* validateEnv accepted them and NamedAsDeclared holds of them; and a process finds it      *)
(* where an earlier one put it (env.validation.ts :164-167, s3-compatible-storage           *)
(* .provider.ts :113-119).                                                                  *)
DocumentsStayPrivate ==
    \A o \in stored :
        o.segment = Documents
            => /\ o.bucket \notin PublicRead
               /\ phase \in Serving /\ Reachable(provider, Documents)
                      /\ provider.bucket.name = o.bucket
                    => BucketFor(provider, Documents) = o.bucket

(* What an operator lists as public is stored where its address works without a          *)
(* signature: no accepted way of writing the list sends it to the private bucket         *)
(* (env.validation.ts :208-210, :236-239).                                               *)
ListedIsServed == \A o \in stored : o.listed => o.bucket \in PublicRead

(* A process that accepts requests has had an answer from the database: no driver lets    *)
(* it come up "healthy" without one (prisma.service.ts :100-105).                         *)
ServesOnlyAnswered == phase \in Serving => answered

(* Booting and stopping end: a database that neither answers nor refuses does not leave   *)
(* a process that hangs (prisma.service.ts :70-74), and of two shutdown paths that run    *)
(* over each other one ends the process, server.close and $disconnect returning (else     *)
(* PM2 kills the process).                                                                *)
Settles == phase \notin {"down", "listening"} ~> phase \in {"down", "listening"}
=============================================================================
