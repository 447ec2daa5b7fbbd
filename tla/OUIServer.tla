------------------------------- MODULE OUIServer -------------------------------
(***************************************************************************)
(* The table of manufacturers (OUIServer): a timer downloads a file, reads *)
(* it into a new table, and puts the file in the place of the current one  *)
(* by a remove and a rename; a start reads the current file.  A process    *)
(* may crash, or be stopped, between any two of these steps.               *)
(*                                                                         *)
(* What a file or a table holds is the number of the download it comes     *)
(* from; 0 is nothing.  A download that breaks off leaves Broken behind.   *)
(***************************************************************************)
EXTENDS Naturals

CONSTANTS
    MaxDownload,    \* bound on the downloads
    MaxCrash        \* bound on the crashes

ASSUME OuiAssumption == MaxDownload \in Nat

VARIABLES
    oui,        \* where the process and its timer are
    current,    \* current_oui.txt
    latest,     \* newOUIFile.txt
    ouiTable,      \* OUIs_
    fresh,      \* the table under construction
    aged,       \* the current file is older than seven days
    initialized,\* Initialized_
    downloads,  \* downloads so far
    crashes,    \* crashes so far
    installed,  \* a file has become the current one
    torn        \* a crash came between the remove and the rename

pastVars == <<crashes, installed, torn>>
ouiVars == <<oui, current, latest, ouiTable, fresh, aged, initialized, downloads,
             pastVars>>

Missing == 0

\* A file that was opened for writing and not filled.
Broken == MaxDownload + 1

OuiInit ==
    /\ oui = "down"
    /\ current = Missing /\ latest = Missing /\ ouiTable = 0 /\ fresh = 0
    /\ aged = FALSE /\ initialized = FALSE
    /\ downloads = 0 /\ crashes = 0
    /\ installed = FALSE /\ torn = FALSE

\* Start: the current file is read, if there is one.
StartOui ==
    /\ oui = "down"
    /\ oui' = "idle"
    /\ ouiTable' = current
    /\ UNCHANGED <<current, latest, fresh, aged, initialized, downloads, pastVars>>

\* onTimer: a current file of this week is enough.  The first time it is read
\* again.
TimerFinds ==
    /\ oui = "idle" /\ current # Missing /\ ~aged
    /\ ouiTable' = IF initialized THEN ouiTable ELSE current
    /\ initialized' = TRUE
    /\ UNCHANGED <<oui, current, latest, fresh, aged, downloads, pastVars>>

\* Mutant: the download goes straight into the current file.
TimerDownloadsMutant ==
    /\ oui = "idle" /\ (current = Missing \/ aged) /\ downloads < MaxDownload
    /\ oui' = "downloading"
    /\ downloads' = downloads + 1
    /\ current' = Broken
    /\ UNCHANGED <<latest, ouiTable, fresh, aged, initialized, pastVars>>

\* Otherwise GetFile opens the latest file for writing.
TimerDownloads ==
    /\ oui = "idle" /\ (current = Missing \/ aged) /\ downloads < MaxDownload
    /\ oui' = "downloading"
    /\ downloads' = downloads + 1
    /\ latest' = Broken
    /\ UNCHANGED <<current, ouiTable, fresh, aged, initialized, pastVars>>

\* The download is complete and ProcessFile fills a table of its own.
Downloaded ==
    /\ oui = "downloading"
    /\ oui' = "install"
    /\ latest' = downloads
    /\ fresh' = downloads
    /\ UNCHANGED <<current, ouiTable, aged, initialized, downloads, pastVars>>

\* It fails: an empty table falls back on the current file.
DownloadFails ==
    /\ oui = "downloading"
    /\ oui' = "idle"
    /\ ouiTable' = IF ouiTable = 0 THEN current ELSE ouiTable
    /\ initialized' = TRUE
    /\ UNCHANGED <<current, latest, fresh, aged, downloads, pastVars>>

\* The new table is in use; the current file is removed.
Install ==
    /\ oui = "install"
    /\ oui' = "rename"
    /\ ouiTable' = fresh
    /\ current' = Missing
    /\ UNCHANGED <<latest, fresh, aged, initialized, downloads, pastVars>>

\* Mutant: the file does not come where the next start looks for it.
RenamedMutant == current

Renamed == latest

RenameTo ==
    /\ oui = "rename"
    /\ oui' = "idle"
    /\ current' = Renamed
    /\ latest' = Missing
    /\ aged' = FALSE
    /\ initialized' = TRUE
    /\ installed' = TRUE /\ torn' = FALSE
    /\ UNCHANGED <<ouiTable, fresh, downloads, crashes>>

\* Seven days pass.
FileAges ==
    /\ current # Missing /\ ~aged
    /\ aged' = TRUE
    /\ UNCHANGED <<oui, current, latest, ouiTable, fresh, initialized, downloads, pastVars>>

CrashOui ==
    /\ oui # "down" /\ crashes < MaxCrash
    /\ oui' = "down"
    /\ ouiTable' = 0 /\ fresh' = 0 /\ initialized' = FALSE
    /\ crashes' = crashes + 1
    /\ torn' = (torn \/ oui = "rename")
    /\ UNCHANGED <<current, latest, aged, downloads, installed>>

OuiNext ==
    \/ StartOui \/ TimerFinds \/ TimerDownloads \/ Downloaded \/ DownloadFails
    \/ Install \/ RenameTo \/ FileAges \/ CrashOui

OuiSpec == OuiInit /\ [][OuiNext]_ouiVars

----------------------------------------------------------------------------
(* Properties *)

\* Manufacturers are never looked up in a file that was not downloaded to the
\* end, whatever a crash left on disk: only the rename makes a file current.
TableIsComplete == ouiTable # Broken /\ current # Broken

\* A file once installed is there at the next start, unless the crash came
\* between the remove and the rename: then onTimer has to download it again.
InstalledSurvives ==
    (installed /\ ~torn /\ oui # "rename") => current # Missing
================================================================================
