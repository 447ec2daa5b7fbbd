--------------------------- MODULE SignatureManager ---------------------------
(***************************************************************************)
(* The signatures of files at a URI that restricted devices ask for        *)
(* (SignatureMgr.h).  A file is downloaded and signed with the key of the  *)
(* device's vendor once; the signature is kept in memory under the vendor, *)
(* the algorithm and the path of the URI (of one algorithm here), and in a *)
(* file that is written anew each time.  Sign holds KeyMutex_ from end to  *)
(* end.  Files at a URI change, and the process may be killed.             *)
(***************************************************************************)
EXTENDS Naturals, FiniteSets

CONSTANTS
    Vendor, Keyed,  \* the vendors of devices; those that have a key
    Host, Path,     \* a URI is a host and a path
    MaxVersion      \* bound: versions of a file

ASSUME SignatureAssumption == Keyed \subseteq Vendor

VARIABLES
    version,    \* version[h][p]: the file that is now at the URI
    signatures, \* SignatureCache_: (vendor, path) -> signature
    saved,      \* the same, in the file
    told,       \* the last signature handed out, and for what
    cut         \* history: a crash cut the file in the middle of a line

sigVars == <<version, signatures, saved, told, cut>>

NoSignature == [signed |-> "nothing"]

\* R.signature(), of the file as downloaded; "part" of it is what a line that
\* was cut holds.
Signature(v, h, p) ==
    [signed |-> "whole", vendor |-> v, path |-> p, host |-> h, version |-> version[h][p]]

Unsigned == [k \in Vendor \X Path |-> NoSignature]

SigInit ==
    /\ version = [h \in Host |-> [p \in Path |-> 1]]
    /\ signatures = Unsigned /\ saved = Unsigned
    /\ told = NoSignature
    /\ cut = FALSE

\* Mutant: the vendor is left out of the hash.
ComputeHashMutant(v, p) == <<CHOOSE w \in Vendor : TRUE, p>>

\* The hash does not cover the host.
ComputeHash(v, p) == <<v, p>>

Tell(v, h, p, s) == told' = [vendor |-> v, host |-> h, path |-> p, signature |-> s]

\* Sign, for a URI.  A vendor without a key, and a download that fails, yield
\* no signature; the cache is not looked at for a vendor without a key.
Sign(v, h, p) ==
    LET key == ComputeHash(v, p)
        s == Signature(v, h, p)
    IN  \/ /\ v \in Keyed /\ signatures[key] # NoSignature
           /\ Tell(v, h, p, signatures[key])
           /\ UNCHANGED <<signatures, saved>>
        \/ /\ v \in Keyed /\ signatures[key] = NoSignature
           /\ Tell(v, h, p, s)
           /\ signatures' = [signatures EXCEPT ![key] = s]
           /\ saved' = signatures'
        \/ /\ v \in Keyed => signatures[key] = NoSignature
           /\ Tell(v, h, p, NoSignature)
           /\ UNCHANGED <<signatures, saved>>

SignNext == \E v \in Vendor, h \in Host, p \in Path :
                Sign(v, h, p) /\ UNCHANGED <<version, cut>>

\* An operator puts another file at the URI.
Publish(h, p) ==
    /\ version[h][p] < MaxVersion
    /\ version' = [version EXCEPT ![h][p] = @ + 1]
    /\ UNCHANGED <<signatures, saved, told, cut>>

Lines == {k \in DOMAIN saved : saved[k] # NoSignature}

\* The process is killed and starts again: the lines of the file are read.
\* In SaveCache only the first of the lines are there, and the last may be cut.
KilledAndStarted ==
    \E kept \in SUBSET Lines, half \in SUBSET Lines :
        /\ half \subseteq kept /\ Cardinality(half) <= 1
        /\ saved' = [k \in DOMAIN saved |->
                        CASE k \in half -> [saved[k] EXCEPT !.signed = "part"]
                          [] k \in kept \ half -> saved[k]
                          [] OTHER -> NoSignature]
        /\ cut' = (cut \/ half # {})
        /\ signatures' = saved'
        /\ told' = NoSignature
        /\ UNCHANGED version

SigNext ==
    \/ SignNext
    \/ \E h \in Host, p \in Path : Publish(h, p)
    \/ KilledAndStarted

SigSpec == SigInit /\ [][SigNext]_sigVars

----------------------------------------------------------------------------
(* Properties *)

\* What a device is given for a file was made with the key of its own vendor,
\* over a file that was once at this path, and is whole unless a crash has cut
\* the file in SaveCache.  (It may be the signature of an older file, or of
\* one on another host: nothing ever leaves the cache.)
ToldIsOwn ==
    told # NoSignature /\ told.signature # NoSignature =>
        /\ told.signature.vendor = told.vendor
        /\ told.signature.path = told.path
        /\ told.signature.signed = "part" => cut
===============================================================================
