---------------------------- MODULE EventsGateway ----------------------------
(***************************************************************************)
(* The websocket gateway (gateways/events.gateway.ts): the callbacks of    *)
(* socket.io around one await, the verification of the client's token.     *)
(* A client that disconnects meanwhile is one whose handleDisconnect ran   *)
(* before it was added to the table.                                       *)
(***************************************************************************)
CONSTANTS
    Clients,   \* sockets; a client that comes back is a new one
    Users,
    NoToken,   \* the handshake carries none
    BadToken   \* one that does not verify

ASSUME TokenAssumption == NoToken \notin Users /\ BadToken \notin Users /\ NoToken # BadToken

VARIABLES
    socket,            \* socket[c]: "new", "open" or "closed"
    token,             \* token[c]: whose token the handshake of c carries
    verifying,         \* the clients whose handleConnection waits for verifyAsync
    connectedClients,  \* connectedClients[c]: payload.sub, NoToken if c is not in the table
    rooms,             \* rooms[u]: the sockets that joined user:<u>
    received           \* history: whose events were sent to c

\* What a handshake may carry.
Tokens == Users \cup {NoToken, BadToken}

gatewayVars == <<socket, token, verifying, connectedClients, rooms, received>>

GatewayInit ==
    /\ socket = [c \in Clients |-> "new"]
    /\ token = [c \in Clients |-> NoToken]
    /\ verifying = {}
    /\ connectedClients = [c \in Clients |-> NoToken]
    /\ rooms = [u \in Users |-> {}]
    /\ received = [c \in Clients |-> {}]

\* A process that ends takes its sockets, its table and its rooms with it.
ForgetClients ==
    /\ socket' = [c \in Clients |-> "new"]
    /\ token' = [c \in Clients |-> NoToken]
    /\ verifying' = {}
    /\ connectedClients' = [c \in Clients |-> NoToken]
    /\ rooms' = [u \in Users |-> {}]
    /\ received' = [c \in Clients |-> {}]

GatewayTypeOK ==
    /\ socket \in [Clients -> {"new", "open", "closed"}]
    /\ token \in [Clients -> Tokens]
    /\ verifying \in SUBSET Clients
    /\ connectedClients \in [Clients -> Users \cup {NoToken}]
    /\ rooms \in [Users -> SUBSET Clients]
    /\ received \in [Clients -> SUBSET Users]

-----------------------------------------------------------------------------
\* mutant: a handshake without a token is let through, as it once was
HandleConnection_(c, t) ==
    /\ socket[c] = "new"
    /\ socket' = [socket EXCEPT ![c] = "open"]
    /\ token' = [token EXCEPT ![c] = t]
    /\ verifying' = IF t = NoToken THEN verifying ELSE verifying \cup {c}
    /\ UNCHANGED <<connectedClients, rooms, received>>

\* Without a token: client.disconnect() at once.
HandleConnection(c, t) ==
    /\ socket[c] = "new"
    /\ token' = [token EXCEPT ![c] = t]
    /\ IF t = NoToken
       THEN /\ socket' = [socket EXCEPT ![c] = "closed"]
            /\ UNCHANGED verifying
       ELSE /\ socket' = [socket EXCEPT ![c] = "open"]
            /\ verifying' = verifying \cup {c}
    /\ UNCHANGED <<connectedClients, rooms, received>>

\* The rest of handleConnection: it does not look whether the client is still there.
Verified(c) ==
    /\ c \in verifying /\ token[c] \in Users
    /\ verifying' = verifying \ {c}
    /\ connectedClients' = [connectedClients EXCEPT ![c] = token[c]]
    /\ rooms' = [rooms EXCEPT ![token[c]] = @ \cup {c}]
    /\ UNCHANGED <<socket, token, received>>

\* disconnect() makes socket.io leave every room and call handleDisconnect.
Leave(c) ==
    /\ socket' = [socket EXCEPT ![c] = "closed"]
    /\ connectedClients' = [connectedClients EXCEPT ![c] = NoToken]
    /\ rooms' = [u \in Users |-> rooms[u] \ {c}]

\* A user's token may have expired, so it need not verify either.
VerifyFails(c) ==
    /\ c \in verifying
    /\ verifying' = verifying \ {c}
    /\ Leave(c)
    /\ UNCHANGED <<token, received>>

HandleDisconnect(c) ==
    /\ socket[c] = "open"
    /\ Leave(c)
    /\ UNCHANGED <<token, verifying, received>>

EmitToUser(u) ==
    /\ received' = [c \in Clients |->
                      IF c \in rooms[u] /\ socket[c] = "open"
                      THEN received[c] \cup {u} ELSE received[c]]
    /\ UNCHANGED <<socket, token, verifying, connectedClients, rooms>>

GatewayNext ==
    \/ \E c \in Clients : \/ \E t \in Tokens : HandleConnection(c, t)
                          \/ Verified(c)
                          \/ VerifyFails(c)
                          \/ HandleDisconnect(c)
    \/ \E u \in Users : EmitToUser(u)

-----------------------------------------------------------------------------
(* What one user is sent reaches only sockets that presented that user's token, and a  *)
(* socket whose handshake is over has identified itself: it is in the table and in the  *)
(* room of its own user, or it is closed ("No anonymous connections", gateway :48-50).  *)
EventsReachTheirUser ==
    \A c \in Clients :
        /\ received[c] \subseteq {token[c]}
        /\ socket[c] = "open" /\ c \notin verifying
               => /\ connectedClients[c] = token[c] /\ token[c] \in Users
                  /\ \A u \in Users : c \in rooms[u] <=> u = token[c]
=============================================================================
