----------------------------- MODULE Environment -----------------------------
(***************************************************************************)
(* From the variables of the environment to the bucket of an object:       *)
(* what validateEnv accepts (config/env.validation.ts), what               *)
(* configuration() makes of it, the storage provider the StorageModule     *)
(* builds, and the bucket that provider puts a key into.  Keys are reduced *)
(* to their first path segment, which is all the routing looks at.         *)
(***************************************************************************)
EXTENDS FiniteSets

CONSTANTS
    Segments,    \* first path segments of storage keys
    Documents,   \* HANDYMAN_DOCUMENT_PREFIX, one of them
    Buckets,     \* names of buckets
    PublicRead,  \* the buckets that neon.ts declares public_read
    Unset        \* a variable that is absent, empty or blank

ASSUME EnvironmentAssumption ==
    /\ Documents \in Segments
    /\ PublicRead \subseteq Buckets
    /\ Unset \notin Buckets

Drivers == {"local", "s3-compatible", "cloudinary", "neon"}

\* The value of a variable that names a bucket, as it was written: white space around
\* the name survives until somebody trims it.
Name == [name : Buckets \cup {Unset}, padded : BOOLEAN]

\* One entry of STORAGE_NEON_PUBLIC_PREFIXES, already trimmed.
Prefix == [segment : Segments, slash : BOOLEAN]

(* The settings that boot and storage depend on.  "malformed": a variable the base      *)
(* schema refuses by itself (a driver that is none, a URL that is none, a short secret, *)
(* an API_VERSION with a "v").  "given": every credential of the driver is there.       *)
Environments ==
    [malformed : BOOLEAN, driver : Drivers, given : BOOLEAN,
     bucket : Name, publicBucket : Name, prefixes : SUBSET Prefix,
     redisUrl : {"none", "url", "garbage"}, neonDatabase : BOOLEAN]

\* Operators name buckets as neon.ts declares them: a public one as the public, a private
\* one as the private.  One mistake is allowed for, the same name, of either, twice.
NamedAsDeclared(env) ==
    /\ env.bucket.name \in PublicRead => env.publicBucket.name = env.bucket.name
    /\ env.publicBucket.name \in PublicRead \cup {env.bucket.name, Unset}

-----------------------------------------------------------------------------
(* validateEnv *)

\* mutant: one good entry is enough
NoSlash_(prefixes) == prefixes = {} \/ \E p \in prefixes : ~p.slash

NoSlash(prefixes) == \A p \in prefixes : ~p.slash

\* mutant: the variable is compared instead of each of its entries
NoDocuments_(prefixes) == prefixes # {[segment |-> Documents, slash |-> FALSE]}

NoDocuments(prefixes) == [segment |-> Documents, slash |-> FALSE] \notin prefixes

TwoBuckets(env) ==
    env.publicBucket.name # Unset => env.publicBucket.name # env.bucket.name

SomethingRouted(env) == env.publicBucket.name # Unset => env.prefixes # {}

\* REQUIRED_BY_DRIVER, without the table's names of the credentials
Required(driver) ==
    [credentials |-> driver # "local", bucket |-> driver = "neon"]

DriverHasSettings(env) ==
    /\ Required(env.driver).credentials => env.given
    /\ Required(env.driver).bucket => env.bucket.name # Unset

Accepted(env) ==
    /\ ~env.malformed
    /\ NoSlash(env.prefixes)
    /\ NoDocuments(env.prefixes)
    /\ TwoBuckets(env)
    /\ SomethingRouted(env)
    /\ DriverHasSettings(env)

-----------------------------------------------------------------------------
(* configuration() and the provider the StorageModule builds from it *)

\* configuration() trims the name of the public bucket, and not that of the private one.
Configuration(env) ==
    [driver |-> env.driver, bucket |-> env.bucket,
     publicBucket |-> env.publicBucket.name, prefixes |-> env.prefixes]

\* Only the neon driver is given a second bucket, and only its buckets are followed here.
ProviderOf(env) ==
    IF env.driver = "neon" THEN Configuration(env)
    ELSE [driver |-> env.driver, bucket |-> [name |-> Unset, padded |-> FALSE],
          publicBucket |-> Unset, prefixes |-> {}]

Providers ==
    [driver : Drivers, bucket : Name, publicBucket : Buckets \cup {Unset},
     prefixes : SUBSET Prefix]

RoutedPublic(provider, segment) ==
    /\ provider.publicBucket # Unset
    /\ [segment |-> segment, slash |-> FALSE] \in provider.prefixes

BucketFor(provider, segment) ==
    IF RoutedPublic(provider, segment) THEN provider.publicBucket ELSE provider.bucket.name

\* There is no bucket whose name has white space around it: the call is refused.
Reachable(provider, segment) ==
    provider.driver = "neon"
        /\ (RoutedPublic(provider, segment) \/ ~provider.bucket.padded)

\* What the operator meant to be public, slash or not.
Listed(provider, segment) ==
    /\ provider.publicBucket # Unset
    /\ \E p \in provider.prefixes : p.segment = segment
=============================================================================
