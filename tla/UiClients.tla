------------------------------- MODULE UiClients -------------------------------
(***************************************************************************)
(* The web sockets of the user interface (UI_WebSocketClientServer): the   *)
(* reactor thread handles their frames and a cleaner thread erases every   *)
(* two seconds the clients that have ended.  Sending a notification reads  *)
(* this state and changes none of it.                                      *)
(*                                                                         *)
(* ToBeRemoved_ holds iterators into Clients_: an element is written as    *)
(* the number of the client, and erasing one that is not in Clients_ any   *)
(* more is undefined.  A descriptor is free for a new socket only when the *)
(* client that owns it is erased.                                          *)
(***************************************************************************)
EXTENDS Naturals, Sequences, FiniteSets

CONSTANTS
    Descriptor, \* the file descriptors of web sockets
    User,       \* the users of the interface
    MaxClient,  \* bound on the clients ever connected
    NoUser      \* the user name of a client that has not authenticated

ASSUME UiAssumption == MaxClient \in Nat

VARIABLES
    clients,        \* Clients_: the client at each descriptor, 0 for none
    opened,         \* the number of clients connected so far
    info,           \* info[c]: the UI_WebSocketClientInfo of client c
    toBeRemoved,    \* ToBeRemoved_
    usersConnected, \* UsersConnected_
    cleared,        \* Stop has cleared Clients_
    cleaner,        \* the cleaner thread runs
    undefined       \* an iterator was used that is not in Clients_

uiVars == <<clients, opened, info, toBeRemoved, usersConnected, cleared,
            cleaner, undefined>>

UiClient == 1..MaxClient

NewInfo == [user |-> NoUser, registered |-> FALSE]

UiInit ==
    /\ clients = [d \in Descriptor |-> 0]
    /\ opened = 0
    /\ info = [c \in UiClient |-> NewInfo]
    /\ toBeRemoved = <<>>
    /\ usersConnected = 0
    /\ cleared = FALSE /\ cleaner = TRUE /\ undefined = FALSE

\* The clients in Clients_, in the order of their descriptors' iteration.
Connected == {clients[d] : d \in Descriptor} \ {0}

Authenticated(c) == info[c].user # NoUser

\* Mutant: only the cleaner counts.
CountedMutant(n) == usersConnected

Counted(n) == n

UiNewClient(d) ==
    /\ clients[d] = 0 /\ opened < MaxClient /\ ~cleared
    /\ opened' = opened + 1
    /\ clients' = [clients EXCEPT ![d] = opened + 1]
    /\ info' = [info EXCEPT ![opened + 1].registered = TRUE]
    /\ usersConnected' = Counted(Cardinality(Connected) + 1)
    /\ UNCHANGED <<toBeRemoved, cleared, cleaner, undefined>>

\* Mutant: the pass leaves its list and erases nothing.
ErasedMutant(d) == clients[d]

\* What is left at a descriptor after the iterators were erased.
Erased(d) ==
    IF \E i \in 1..Len(toBeRemoved) : toBeRemoved[i] = clients[d]
      THEN 0 ELSE clients[d]

\* Mutant: the handlers stay with the reactor.
UnregisteredMutant(c) == info[c]

Unregistered(c) == [info[c] EXCEPT !.registered = FALSE]

EndConnection(c) ==
    /\ info' = [info EXCEPT ![c] = Unregistered(c)]
    /\ toBeRemoved' = Append(toBeRemoved, c)
    /\ UNCHANGED <<clients, opened, usersConnected, cleared, cleaner,
                   undefined>>

\* The reactor hands an event to the client it finds at the descriptor.
Event(c) == c \in Connected /\ info[c].registered

\* Error, shutdown, an empty or a CLOSE frame, a frame that throws, a wrong
\* token, or a command that asks for the close.
SocketEnds(c) == Event(c) /\ EndConnection(c)

\* The first text frame: AuthClient::IsAuthorized accepts the token.
Authenticate(c, u) ==
    /\ Event(c) /\ ~Authenticated(c)
    /\ info' = [info EXCEPT ![c].user = u]
    /\ UNCHANGED <<clients, opened, toBeRemoved, usersConnected, cleared,
                   cleaner, undefined>>

\* One pass of the cleaner: every iterator is erased in turn.
CleanerRuns ==
    /\ cleaner
    /\ undefined' = \/ undefined
                    \/ \E i \in 1..Len(toBeRemoved) :
                          \/ toBeRemoved[i] \notin Connected
                          \/ \E j \in 1..(i - 1) : toBeRemoved[j] = toBeRemoved[i]
    /\ clients' = [d \in Descriptor |-> Erased(d)]
    /\ toBeRemoved' = <<>>
    /\ usersConnected' = Cardinality({clients'[d] : d \in Descriptor} \ {0})
    /\ UNCHANGED <<opened, info, cleared, cleaner>>

\* Stop, without the mutex: Clients_ is cleared first; the cleaner thread
\* ends after the reactor.
Clear ==
    /\ ~cleared
    /\ cleared' = TRUE
    /\ clients' = [d \in Descriptor |-> 0]
    /\ UNCHANGED <<opened, info, toBeRemoved, usersConnected, cleaner,
                   undefined>>

StopCleaner ==
    /\ cleared /\ cleaner
    /\ cleaner' = FALSE
    /\ UNCHANGED <<clients, opened, info, toBeRemoved, usersConnected,
                   cleared, undefined>>

UiNext ==
    \/ \E d \in Descriptor : UiNewClient(d)
    \/ \E c \in UiClient : \/ SocketEnds(c)
                         \/ \E u \in User : Authenticate(c, u)
    \/ CleanerRuns \/ Clear \/ StopCleaner

UiSpec == UiInit /\ [][UiNext]_uiVars

\* The cleaner thread runs while the server does.
UiFairness == WF_uiVars(CleanerRuns)

UiFairSpec == UiSpec /\ UiFairness

----------------------------------------------------------------------------
(* Properties *)

\* No iterator is erased twice, or after the map was cleared under it, unless
\* the server is stopping: an event that follows the end of a client finds no
\* handler, so EndConnection is never called again for it.
ErasedOnce == undefined => cleared

\* UsersConnected_ is zero only when nobody is there: IsAnyoneConnected reads
\* it without the mutex to decide whether log entries are worth sending.
UsersAreCounted == (~cleared /\ Connected # {}) => usersConnected > 0

\* A client that has ended is erased, and its descriptor is free again.
EndedClientLeaves ==
    \A c \in UiClient :
        (c \in Connected /\ ~info[c].registered) ~> (c \notin Connected)

\* The map of UI_WebSocketClientServer and its count survive clients that end
\* in the reactor and in the cleaner.
ClientsAreKept == ErasedOnce /\ UsersAreCounted
================================================================================
