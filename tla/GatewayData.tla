------------------------------ MODULE GatewayData ------------------------------
(***************************************************************************)
(* The tables that the gateway keeps, their caches and its files: eight    *)
(* parts that share no state with each other.  A behaviour is one of the   *)
(* part it starts with, and the others stay in an initial state; so it has *)
(* the properties that each part has.  Only safety is stated.              *)
(***************************************************************************)
EXTENDS DeviceStore, DeviceRecords, Catalog, Authorization, VenueBroadcaster,
        OUIServer, Dashboard, SignatureManager

CONSTANT Part       \* the parts that a behaviour may exercise

VARIABLE active     \* the one it exercises

gatewayVars == <<active, dsVars, recVars, catVars, authVars, venueVars, ouiVars,
                 dashVars, sigVars>>

\* A part that is not exercised stays in one initial state.
Idling(part, state) == active = part \/ (active # part /\ state)

GatewayInit ==
    /\ active \in Part
    /\ Idling("records", table = "Statistics" /\ now = 1) /\ RecInit
    /\ Idling("catalog", store = "configs") /\ CatInit
    /\ Idling("venue", placed = [d \in VenueDevice |-> CHOOSE v \in VenueSite : TRUE])
    /\ DsInit /\ AuthInit /\ VenueInit /\ OuiInit /\ DashInit /\ SigInit

GatewayNext ==
    \/ /\ active = "store" /\ DsNext
       /\ UNCHANGED <<active, recVars, catVars, authVars, venueVars,
                      ouiVars, dashVars, sigVars>>
    \/ /\ active = "records" /\ RecNext
       /\ UNCHANGED <<active, dsVars, catVars, authVars, venueVars,
                      ouiVars, dashVars, sigVars>>
    \/ /\ active = "catalog" /\ CatNext
       /\ UNCHANGED <<active, dsVars, recVars, authVars, venueVars,
                      ouiVars, dashVars, sigVars>>
    \/ /\ active = "authorization" /\ AuthNext
       /\ UNCHANGED <<active, dsVars, recVars, catVars, venueVars,
                      ouiVars, dashVars, sigVars>>
    \/ /\ active = "venue" /\ VenueNext
       /\ UNCHANGED <<active, dsVars, recVars, catVars, authVars,
                      ouiVars, dashVars, sigVars>>
    \/ /\ active = "oui" /\ OuiNext
       /\ UNCHANGED <<active, dsVars, recVars, catVars, authVars,
                      venueVars, dashVars, sigVars>>
    \/ /\ active = "dashboard" /\ DashNext
       /\ UNCHANGED <<active, dsVars, recVars, catVars, authVars,
                      venueVars, ouiVars, sigVars>>
    \/ /\ active = "signatures" /\ SigNext
       /\ UNCHANGED <<active, dsVars, recVars, catVars, authVars,
                      venueVars, ouiVars, dashVars>>

GatewaySpec == GatewayInit /\ [][GatewayNext]_gatewayVars

-----------------------------------------------------------------------------
(* Properties *)

\* The copies in memory agree with their tables: SerialNumberCache with Devices,
\* what a deletion left with every table.
CopiesAgree ==
    active = "store" => /\ ArraysAgree /\ SearchIsExact
                        /\ DeletionIsComplete /\ ListedUnlessRaced

\* The records of a device are selected, paged through, archived and counted
\* as asked.
RecordsAreKept ==
    /\ active = "records" => RequestsSelectTheirRows /\ PagingMissesNothing /\ ArchivedInTime
    /\ active = "dashboard" => CountsAddUp

\* What a REST caller or a device is told holds at that time: the dashboard,
\* the validity of a credential, the default configuration of a model, and at
\* the door the black list.
AnswersAreCurrent ==
    /\ active = "dashboard" => ServedIsRecent
    /\ active = "authorization" => RemovedIsForgotten
    /\ active = "catalog" => ConfigurationFitsModel /\ BlackListEnforced

\* The files that OUIServer, SignatureManager and CapabilitiesCache keep are
\* there and whole after a restart, as far as the order of their steps allows.
FilesSurvive ==
    /\ active = "oui" => TableIsComplete /\ InstalledSurvives
    /\ active = "signatures" => ToldIsOwn
    /\ active = "catalog" => PlatformsAreSaved

\* What no single step may do, whoever takes it: archive a young record,
\* overwrite what somebody else created, accept an expired token, broadcast
\* to a venue that the device left long ago.
StepsAreAllowed ==
    ArchivesOnlyOld /\ CreationNeverOverwrites /\ AcceptedIsFresh /\ BroadcastIsRecent
================================================================================
