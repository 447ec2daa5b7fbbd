--------------------------- MODULE VenueBroadcaster ---------------------------
(***************************************************************************)
(* The venue broadcaster: a message of a device is sent to the other       *)
(* devices of its venue.  Which they are is asked of the provisioning      *)
(* service, and the answer is kept for ValidFor periods; meanwhile devices *)
(* move between venues.                                                    *)
(***************************************************************************)
EXTENDS Naturals, Sequences, FiniteSets

CONSTANTS
    VenueDevice,    \* the devices
    VenueSite,          \* the venues
    ValidFor,       \* periods for which an answer is used (600 s)
    MaxQueue        \* bound on the broadcasts that wait

ASSUME VenueAssumption == ValidFor \in Nat \ {0} /\ MaxQueue \in Nat

VARIABLES
    placed,     \* placed[d]: the venue of d, as the provisioning service has it
    apart,      \* apart[d][e]: periods since d and e were in one venue
    venues,     \* Venues_[v]: the devices listed at v, with the list's age
    broadcasts, \* BroadcastQueue_: the sources of the messages that wait
    reached     \* the devices the last message was sent to, and its source

venueVars == <<placed, apart, venues, broadcasts, reached>>

\* A list nobody looks at any more, and a device nobody remembers.
TooOld == ValidFor + 1

NoList == [devices |-> {}, age |-> TooOld]

VenueInit ==
    /\ placed \in [VenueDevice -> VenueSite]
    /\ apart = [d \in VenueDevice |-> [e \in VenueDevice |->
                  IF placed[d] = placed[e] THEN 0 ELSE TooOld]]
    /\ venues = [v \in VenueSite |-> NoList]
    /\ broadcasts = <<>>
    /\ reached = <<>>

Together(place) == [d \in VenueDevice |-> [e \in VenueDevice |->
                      IF place[d] = place[e] THEN 0 ELSE apart[d][e]]]

\* An operator moves a device.
Move(d, v) ==
    /\ placed[d] # v
    /\ placed' = [placed EXCEPT ![d] = v]
    /\ apart' = Together(placed')
    /\ UNCHANGED <<venues, broadcasts, reached>>

Older(n) == IF n < TooOld THEN n + 1 ELSE n

VenueTick ==
    /\ venues' = [v \in VenueSite |-> [venues[v] EXCEPT !.age = Older(@)]]
    /\ apart' = [d \in VenueDevice |-> [e \in VenueDevice |->
                   IF placed[d] = placed[e] THEN 0 ELSE Older(apart[d][e])]]
    /\ UNCHANGED <<placed, broadcasts, reached>>

\* Process_venuebroadcast, on any connection.
Broadcast(d) ==
    /\ Len(broadcasts) < MaxQueue
    /\ broadcasts' = Append(broadcasts, d)
    /\ UNCHANGED <<placed, apart, venues, reached>>

\* Mutant: the age of a list is not looked at.
ListedAtMutant(d) == {v \in VenueSite : d \in venues[v].devices}

\* The venues whose list names the device and is still used.
ListedAt(d) == {v \in VenueSite : d \in venues[v].devices /\ venues[v].age < ValidFor}

\* GetSerialNumbersForVenueOfSerialNumber.
AskProv(d) == {e \in VenueDevice : placed[e] = placed[d]}

\* One turn of the loop: the list of any venue that names the source, or the
\* answer of the service, which replaces the list of its venue; if neither is
\* there nothing is sent.
SendToVenue ==
    /\ broadcasts # <<>>
    /\ broadcasts' = Tail(broadcasts)
    /\ LET d == Head(broadcasts)
       IN  \/ \E v \in ListedAt(d) :
                 /\ reached' = <<d, venues[v].devices \ {d}>>
                 /\ UNCHANGED venues
           \/ /\ ListedAt(d) = {}
              /\ venues' = [venues EXCEPT ![placed[d]] =
                                [devices |-> AskProv(d), age |-> 0]]
              /\ reached' = <<d, AskProv(d) \ {d}>>
           \/ /\ ListedAt(d) = {}
              /\ reached' = <<>>
              /\ UNCHANGED venues
    /\ UNCHANGED <<placed, apart>>

VenueNext ==
    \/ \E d \in VenueDevice : Broadcast(d) \/ \E v \in VenueSite : Move(d, v)
    \/ VenueTick \/ SendToVenue

VenueSpec == VenueInit /\ [][VenueNext]_venueVars

----------------------------------------------------------------------------
(* Properties *)

\* A message goes only to devices that were in one venue with its source less
\* than ValidFor periods ago: FindSerialNumberList may use a list that a move
\* has made wrong, but never one that is older.
BroadcastIsRecent ==
    [][(Len(broadcasts') < Len(broadcasts) /\ reached' # <<>>) =>
         \A e \in reached'[2] : apart[reached'[1]][e] < ValidFor]_venueVars
================================================================================
