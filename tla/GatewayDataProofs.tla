----------------------------- MODULE GatewayDataProofs -----------------------------
(***************************************************************************)
(* Proofs about the tables, caches and files of the gateway (GatewayData), *)
(* part by part, for any keys, threads, devices and bounds.                *)
(***************************************************************************)
EXTENDS GatewayData, FiniteSetTheorems, SequenceTheorems, WellFoundedInduction, TLAPS

-----------------------------------------------------------------------------
(* The table of manufacturers. *)

(* A file or a table comes from a download that has begun; the file that   *)
(* waits for the rename is whole.                                          *)
OuiInv ==
    /\ oui \in {"down", "idle", "downloading", "install", "rename"}
    /\ downloads \in 0..MaxDownload
    /\ ouiTable \in 0..MaxDownload /\ current \in 0..MaxDownload
    /\ latest \in 0..MaxDownload + 1 /\ fresh \in 0..MaxDownload
    /\ oui = "downloading" => downloads > 0
    /\ oui \in {"install", "rename"} => latest \in 1..MaxDownload
    /\ InstalledSurvives

LEMMA OuiHolds == OuiSpec => [](OuiInv /\ TableIsComplete /\ InstalledSurvives)
<1> USE OuiAssumption
<1>1. OuiInit => OuiInv
  <2>1. OuiInit => InstalledSurvives
    BY DEF OuiInit, InstalledSurvives
  <2> QED
    BY <2>1 DEF OuiInit, OuiInv, Missing
<1>2. OuiInv /\ [OuiNext]_ouiVars => OuiInv'
  <2> SUFFICES ASSUME OuiInv, [OuiNext]_ouiVars PROVE OuiInv'
    OBVIOUS
  <2> USE DEF OuiInv, pastVars, Missing, Broken
  <2>1. CASE StartOui \/ TimerFinds
    BY <2>1 DEF StartOui, TimerFinds, InstalledSurvives
  <2>2. CASE TimerDownloads
    BY <2>2 DEF TimerDownloads, InstalledSurvives
  <2>3. CASE Downloaded \/ DownloadFails
    BY <2>3 DEF Downloaded, DownloadFails, InstalledSurvives
  <2>4. CASE Install
    BY <2>4 DEF Install, InstalledSurvives
  <2>5. CASE RenameTo
    <3>1. latest # 0 /\ latest \in 0..MaxDownload
      BY <2>5 DEF RenameTo
    <3>2. InstalledSurvives'
      BY <2>5, <3>1 DEF RenameTo, Renamed, InstalledSurvives
    <3> QED
      BY <2>5, <3>1, <3>2 DEF RenameTo, Renamed
  <2>6. CASE FileAges \/ CrashOui
    <3>1. InstalledSurvives'
      BY <2>6 DEF FileAges, CrashOui, InstalledSurvives
    <3> QED
      BY <2>6, <3>1 DEF FileAges, CrashOui
  <2>7. CASE UNCHANGED ouiVars
    BY <2>7 DEF ouiVars, InstalledSurvives
  <2> QED
    BY <2>1, <2>2, <2>3, <2>4, <2>5, <2>6, <2>7 DEF OuiNext
<1>3. OuiInv => TableIsComplete /\ InstalledSurvives
  BY DEF OuiInv, TableIsComplete, Broken
<1> QED
  BY <1>1, <1>2, <1>3, PTL DEF OuiSpec

-----------------------------------------------------------------------------
(* The signatures. *)

WholeSignature ==
    [signed : {"whole", "part"}, vendor : Vendor, path : Path, host : Host, version : Nat]

(* A signature is filed under its own vendor and path, and is whole unless *)
(* the file was cut.                                                       *)
OwnPlace(s, k) ==
    s # NoSignature =>
        /\ s \in WholeSignature /\ s.vendor = k[1] /\ s.path = k[2]
        /\ s.signed = "part" => cut

SigInv ==
    /\ version \in [Host -> [Path -> Nat]] /\ cut \in BOOLEAN
    /\ DOMAIN signatures = Vendor \X Path /\ DOMAIN saved = Vendor \X Path
    /\ \A k \in Vendor \X Path : OwnPlace(signatures[k], k) /\ OwnPlace(saved[k], k)
    /\ ToldIsOwn

LEMMA SignatureIsOwn ==
    ASSUME SigInv, NEW v \in Vendor, NEW h \in Host, NEW p \in Path
    PROVE  /\ Signature(v, h, p) # NoSignature /\ Signature(v, h, p).signed = "whole"
           /\ OwnPlace(Signature(v, h, p), <<v, p>>)
<1>1. version[h][p] \in Nat
  BY DEF SigInv
<1>2. Signature(v, h, p) \in WholeSignature /\ Signature(v, h, p).vendor = v
      /\ Signature(v, h, p).path = p /\ Signature(v, h, p).signed = "whole"
  BY <1>1 DEF Signature, WholeSignature
<1>3. Signature(v, h, p) # NoSignature
  BY DEF Signature, NoSignature
<1> QED
  BY <1>2, <1>3 DEF OwnPlace

LEMMA SigHolds == SigSpec => [](SigInv /\ ToldIsOwn)
<1>1. SigInit => SigInv
  <2> SUFFICES ASSUME SigInit PROVE SigInv
    OBVIOUS
  <2>1. version \in [Host -> [Path -> Nat]]
    BY DEF SigInit
  <2>2. DOMAIN Unsigned = Vendor \X Path /\ \A k \in Vendor \X Path : Unsigned[k] = NoSignature
    BY DEF Unsigned
  <2> QED
    BY <2>1, <2>2 DEF SigInit, SigInv, OwnPlace, ToldIsOwn
<1>2. ASSUME SigInv, NEW v \in Vendor, NEW h \in Host, NEW p \in Path, Sign(v, h, p),
             UNCHANGED <<version, cut>>
      PROVE  SigInv'
  <2> DEFINE k == <<v, p>>
             s == Signature(v, h, p)
  <2>1. k \in Vendor \X Path /\ OwnPlace(signatures[k], k) /\ OwnPlace(s, k)
        /\ s # NoSignature /\ s.signed = "whole" /\ k[1] = v /\ k[2] = p
    BY <1>2, SignatureIsOwn DEF SigInv
  <2>2. ComputeHash(v, p) = k
    BY DEF ComputeHash
  <2> HIDE DEF s
  <2>3. \/ /\ told' = [vendor |-> v, host |-> h, path |-> p, signature |-> signatures[k]]
           /\ UNCHANGED <<signatures, saved>>
        \/ /\ told' = [vendor |-> v, host |-> h, path |-> p, signature |-> s]
           /\ signatures' = [signatures EXCEPT ![k] = s] /\ saved' = signatures'
        \/ /\ told' = [vendor |-> v, host |-> h, path |-> p, signature |-> NoSignature]
           /\ UNCHANGED <<signatures, saved>>
    BY <1>2, <2>2 DEF Sign, Tell, s
  <2>4. ToldIsOwn'
    BY <1>2, <2>1, <2>3 DEF ToldIsOwn, OwnPlace
  <2>5. /\ DOMAIN signatures' = Vendor \X Path /\ DOMAIN saved' = Vendor \X Path
        /\ \A j \in Vendor \X Path :
              signatures'[j] \in {signatures[j]} \cup (IF j = k THEN {s} ELSE {})
              /\ saved'[j] \in {signatures[j], saved[j]} \cup (IF j = k THEN {s} ELSE {})
    BY <1>2, <2>1, <2>3 DEF SigInv
  <2>6. \A j \in Vendor \X Path : OwnPlace(signatures[j], j)' /\ OwnPlace(saved[j], j)'
    BY <1>2, <2>1, <2>5 DEF SigInv, OwnPlace
  <2> QED
    BY <1>2, <2>4, <2>5, <2>6 DEF SigInv
<1>3. ASSUME SigInv, NEW h \in Host, NEW p \in Path, Publish(h, p)
      PROVE  SigInv'
  <2>1. version' \in [Host -> [Path -> Nat]] /\ UNCHANGED <<signatures, saved, told, cut>>
    BY <1>3 DEF Publish, SigInv
  <2> QED
    BY <1>3, <2>1 DEF SigInv, OwnPlace, ToldIsOwn
<1>4. ASSUME SigInv, KilledAndStarted
      PROVE  SigInv'
  <2>1. PICK kept \in SUBSET Lines, half \in SUBSET Lines :
          /\ saved' = [k \in DOMAIN saved |->
                          CASE k \in half -> [saved[k] EXCEPT !.signed = "part"]
                            [] k \in kept \ half -> saved[k]
                            [] OTHER -> NoSignature]
          /\ cut' = (cut \/ half # {})
          /\ signatures' = saved' /\ told' = NoSignature /\ UNCHANGED version
    BY <1>4 DEF KilledAndStarted
  <2>2. DOMAIN saved' = Vendor \X Path /\ DOMAIN signatures' = Vendor \X Path
        /\ cut' \in BOOLEAN
    BY <1>4, <2>1 DEF SigInv
  <2>3. ASSUME NEW k \in Vendor \X Path PROVE OwnPlace(saved[k], k)'
    <3>1. OwnPlace(saved[k], k)
      BY <1>4 DEF SigInv
    <3>2. CASE k \in half
      <4>1. saved'[k] = [saved[k] EXCEPT !.signed = "part"] /\ cut'
        BY <1>4, <2>1, <3>2 DEF SigInv
      <4>2. saved[k] \in WholeSignature /\ saved[k].vendor = k[1] /\ saved[k].path = k[2]
        BY <3>1, <3>2 DEF Lines, OwnPlace
      <4>3. \A s \in WholeSignature :
               /\ [s EXCEPT !.signed = "part"] \in WholeSignature
               /\ [s EXCEPT !.signed = "part"].vendor = s.vendor
               /\ [s EXCEPT !.signed = "part"].path = s.path
        BY DEF WholeSignature
      <4> QED
        BY <4>1, <4>2, <4>3 DEF OwnPlace
    <3>3. CASE k \notin half
      <4>1. saved'[k] \in {saved[k], NoSignature} /\ (cut => cut')
        BY <1>4, <2>1, <3>3 DEF SigInv
      <4> QED
        BY <3>1, <4>1 DEF OwnPlace
    <3> QED
      BY <3>2, <3>3
  <2>4. \A k \in Vendor \X Path : OwnPlace(signatures[k], k)'
    BY <2>1, <2>3 DEF OwnPlace
  <2> QED
    BY <1>4, <2>1, <2>2, <2>3, <2>4 DEF SigInv, ToldIsOwn
<1>5. SigInv /\ [SigNext]_sigVars => SigInv'
  <2>1. SigInv /\ UNCHANGED sigVars => SigInv'
    BY DEF SigInv, sigVars, OwnPlace, ToldIsOwn
  <2> QED
    BY <1>2, <1>3, <1>4, <2>1 DEF SigNext, SignNext
<1>6. SigInv => ToldIsOwn
  BY DEF SigInv
<1> QED
  BY <1>1, <1>5, <1>6, PTL DEF SigSpec

-----------------------------------------------------------------------------
(* The small tables, the black list and the cache of platforms. *)

Edit == [op : {"post", "put", "delete"}, key : Key, body : Key,
         value : Value \cup DefaultConfig \cup {NoValue},
         at : {"select", "insert", "update", "delete", "cache"}]

(* Which statements a request comes to. *)
Orderly(r) ==
    r # NoRequest =>
        /\ r \in Edit
        /\ r.at = "insert" => r.op = "post"
        /\ r.at = "update" => r.op = "put"
        /\ r.at = "delete" => r.op = "delete"
        /\ r.op = "post" \/ r.key = r.body

(* What a request that met no other knows of its row.                      *)
Truthful(r) ==
    r # NoRequest /\ r.body \notin overlap =>
        /\ r.at = "update" => row[r.body] # NoValue
        /\ r.at = "cache" => Cached(r) = row[r.body]

(* Nobody is about to bring the cache up to date with the row.             *)
Settled(k) ==
    \A e \in Editor : asked[e] # NoRequest /\ asked[e].body = k => asked[e].at # "cache"

CatInv ==
    /\ DOMAIN asked = Editor /\ DOMAIN row = Key /\ DOMAIN cache = Key
    /\ \A e \in Editor : Orderly(asked[e]) /\ Truthful(asked[e])
    /\ \A e, f \in Editor :
          e # f /\ asked[e] # NoRequest /\ asked[f] # NoRequest
             /\ asked[e].body = asked[f].body => asked[e].body \in overlap
    /\ store = "blacklist" => \A k \in Key \ overlap : Settled(k) => cache[k] = row[k]

EditVars == <<row, cache, asked, overlap, store>>

LEMMA EditIsRequest == \A r \in Edit : r # NoRequest
BY DEF Edit, NoRequest

LEMMA BeginKeeps ==
    ASSUME CatInv, NEW e \in Editor, asked[e] = NoRequest,
           NEW op \in {"post", "put", "delete"}, NEW k \in Key, NEW b \in Key,
           NEW v \in Value \cup DefaultConfig \cup {NoValue},
           NEW at \in {"select", "insert", "update", "delete"},
           Begin(e, op, k, b, v, at),
           at \in {"select", "insert"} => op = "post",
           at = "update" => op = "put" /\ row[k] # NoValue,
           at = "delete" => op = "delete",
           op = "post" \/ k = b
    PROVE  CatInv'
<1> DEFINE r == [op |-> op, key |-> k, body |-> b, value |-> v, at |-> at]
<1>1. /\ r \in Edit /\ r.op = op /\ r.key = k /\ r.body = b /\ r.at = at
  BY DEF Edit
<1>2. r # NoRequest /\ Orderly(r)
  BY <1>1, EditIsRequest DEF Orderly
<1>3. /\ asked' = [asked EXCEPT ![e] = r]
      /\ overlap' = IF \E f \in Editor \ {e} : asked[f] # NoRequest /\ asked[f].body = b
                    THEN overlap \cup {b} ELSE overlap
      /\ UNCHANGED <<row, cache, store>>
  BY DEF Begin
<1> HIDE DEF r
<1>4. /\ DOMAIN asked' = Editor /\ asked'[e] = r
      /\ \A f \in Editor \ {e} : asked'[f] = asked[f]
      /\ overlap \subseteq overlap'
  BY <1>3 DEF CatInv
<1>5. (Truthful(r))'
  BY <1>1, <1>3 DEF Truthful
<1>6. \A f \in Editor : Orderly(asked[f])' /\ Truthful(asked[f])'
  <2> TAKE f \in Editor
  <2>1. CASE f = e
    BY <2>1, <1>2, <1>4, <1>5 DEF Truthful
  <2>2. CASE f # e
    BY <2>2, <1>3, <1>4 DEF CatInv, Truthful, Orderly
  <2> QED
    BY <2>1, <2>2
<1>7. \A f \in Editor \ {e} : asked[f] # NoRequest /\ asked[f].body = b => b \in overlap'
  BY <1>3
<1>8. \A g, f \in Editor :
          g # f /\ asked'[g] # NoRequest /\ asked'[f] # NoRequest
             /\ asked'[g].body = asked'[f].body => asked'[g].body \in overlap'
  BY <1>1, <1>4, <1>7 DEF CatInv
<1>9. ASSUME store' = "blacklist", NEW j \in Key \ overlap', Settled(j)'
      PROVE  cache'[j] = row'[j]
  <2>1. Settled(j)
    BY <1>4, <1>9 DEF Settled
  <2> QED
    BY <2>1, <1>3, <1>4, <1>9 DEF CatInv
<1> QED
  BY <1>3, <1>4, <1>6, <1>8, <1>9 DEF CatInv

(* A request ends, or goes on to its INSERT, and touches nothing.          *)
LEMMA TurnKeeps ==
    ASSUME CatInv, NEW e \in Editor, asked[e] # NoRequest, asked[e].at # "cache",
           \/ Refuse(e)
           \/ asked[e].op = "post" /\ Goto(e, "insert")
    PROVE  CatInv'
<1>1. asked[e] \in Edit /\ Orderly(asked[e])
  BY DEF CatInv, Orderly
<1>2. \A r \in Edit : LET q == [r EXCEPT !.at = "insert"]
                      IN  q \in Edit /\ q.at = "insert" /\ q.op = r.op
                          /\ q.key = r.key /\ q.body = r.body
  BY DEF Edit
<1>3. /\ UNCHANGED <<row, cache, overlap, store>> /\ DOMAIN asked' = Editor
      /\ \A f \in Editor \ {e} : asked'[f] = asked[f]
      /\ \/ asked'[e] = NoRequest
         \/ asked[e].op = "post" /\ asked'[e] = [asked[e] EXCEPT !.at = "insert"]
  BY DEF Refuse, Goto, CatInv
<1>4. \/ asked'[e] = NoRequest
      \/ asked'[e] \in Edit /\ asked'[e].at = "insert" /\ asked'[e].op = "post"
         /\ asked'[e].body = asked[e].body
  BY <1>1, <1>2, <1>3
<1>5. Orderly(asked[e])' /\ Truthful(asked[e])'
  BY <1>4 DEF Orderly, Truthful
<1>6. \A f \in Editor : Orderly(asked[f])' /\ Truthful(asked[f])'
  <2> TAKE f \in Editor
  <2>1. CASE f # e
    BY <2>1, <1>3 DEF CatInv, Truthful, Orderly
  <2> QED
    BY <2>1, <1>5
<1>7. \A k \in Key : Settled(k)' => Settled(k)
  BY <1>3 DEF Settled
<1>8. \A g, f \in Editor :
          g # f /\ asked'[g] # NoRequest /\ asked'[f] # NoRequest
             /\ asked'[g].body = asked'[f].body => asked'[g].body \in overlap'
  BY <1>3, <1>4 DEF CatInv
<1> QED
  BY <1>3, <1>6, <1>7, <1>8 DEF CatInv

(* A statement changes the row of its request, and what the request then   *)
(* brings to the cache is what the row is.                                 *)
LEMMA StatementKeeps ==
    ASSUME CatInv, NEW e \in Editor, asked[e] # NoRequest, asked[e].at # "cache",
           NEW x, row' = [row EXCEPT ![asked[e].body] = x],
           AfterStatement(e),
           asked[e].body \notin overlap => Cached(asked[e]) = x,
           UNCHANGED <<cache, overlap, store>>
    PROVE  CatInv'
<1> DEFINE k == asked[e].body
           r == [asked[e] EXCEPT !.at = "cache"]
<1>1. asked[e] \in Edit /\ Orderly(asked[e]) /\ k \in Key
  BY DEF CatInv, Orderly, Edit
<1>2. \A q \in Edit : LET p == [q EXCEPT !.at = "cache"]
                      IN  p \in Edit /\ p.at = "cache" /\ p.op = q.op
                          /\ p.key = q.key /\ p.body = q.body /\ p.value = q.value
  BY DEF Edit
<1>3. /\ r \in Edit /\ r.at = "cache" /\ r.op = asked[e].op /\ r.key = asked[e].key
      /\ r.body = k /\ r.value = asked[e].value
  BY <1>1, <1>2
<1>4. r # NoRequest /\ Orderly(r) /\ Cached(r) = Cached(asked[e])
  BY <1>1, <1>3, EditIsRequest DEF Orderly, Cached
<1>5. /\ DOMAIN asked' = Editor /\ DOMAIN row' = Key
      /\ \A f \in Editor \ {e} : asked'[f] = asked[f]
      /\ \A j \in Key \ {k} : row'[j] = row[j]
      /\ row'[k] = x
      /\ asked'[e] = IF store = "blacklist" THEN r ELSE NoRequest
  BY <1>1 DEF CatInv, AfterStatement
<1> HIDE DEF r
<1>6. Orderly(asked[e])' /\ Truthful(asked[e])'
  BY <1>3, <1>4, <1>5 DEF Orderly, Truthful, Cached
<1>7. \A f \in Editor : Orderly(asked[f])' /\ Truthful(asked[f])'
  <2> TAKE f \in Editor
  <2>1. CASE f # e
    <3>1. asked[f] # NoRequest /\ asked[f].body \notin overlap => asked[f].body # k
      BY <2>1 DEF CatInv
    <3>2. asked[f] # NoRequest => asked[f].body \in Key
      BY DEF CatInv, Orderly, Edit
    <3> QED
      BY <2>1, <3>1, <3>2, <1>5 DEF CatInv, Truthful, Orderly, Cached
  <2> QED
    BY <2>1, <1>6
<1>8. \A g, f \in Editor :
          g # f /\ asked'[g] # NoRequest /\ asked'[f] # NoRequest
             /\ asked'[g].body = asked'[f].body => asked'[g].body \in overlap'
  BY <1>3, <1>5 DEF CatInv
<1>9. ASSUME store' = "blacklist", NEW j \in Key \ overlap', Settled(j)'
      PROVE  cache'[j] = row'[j]
  <2>1. asked'[e] = r
    BY <1>5, <1>9
  <2>2. j # k
    BY <2>1, <1>3, <1>4, <1>9 DEF Settled
  <2>3. Settled(j)
    BY <1>5, <1>9, <2>2 DEF Settled
  <2> QED
    BY <2>2, <2>3, <1>5, <1>9 DEF CatInv
<1> QED
  BY <1>5, <1>7, <1>8, <1>9 DEF CatInv

LEMMA CacheKeeps ==
    ASSUME CatInv, NEW e \in Editor, UpdateCache(e)
    PROVE  CatInv'
<1> DEFINE k == asked[e].body
<1>1. asked[e] # NoRequest /\ asked[e].at = "cache" /\ k \in Key
  BY DEF UpdateCache, CatInv, Orderly, Edit
<1>2. /\ DOMAIN asked' = Editor /\ DOMAIN cache' = Key
      /\ \A f \in Editor \ {e} : asked'[f] = asked[f]
      /\ asked'[e] = NoRequest
      /\ cache'[k] = Cached(asked[e])
      /\ \A j \in Key \ {k} : cache'[j] = cache[j]
      /\ UNCHANGED <<row, overlap, store>>
  BY <1>1 DEF UpdateCache, CatInv
<1>3. \A f \in Editor : Orderly(asked[f])' /\ Truthful(asked[f])'
  <2> TAKE f \in Editor
  <2>1. CASE f = e
    BY <2>1, <1>2 DEF Truthful, Orderly
  <2>2. CASE f # e
    BY <2>2, <1>2 DEF CatInv, Truthful, Orderly, Cached
  <2> QED
    BY <2>1, <2>2
<1>4. ASSUME NEW j \in Key \ overlap, Settled(j)', store = "blacklist"
      PROVE  cache'[j] = row'[j]
  <2>1. CASE j = k
    BY <1>1, <1>2, <1>4, <2>1 DEF CatInv, Truthful
  <2>2. CASE j # k
    <3>1. Settled(j)
      BY <1>2, <1>4, <2>2 DEF Settled
    <3> QED
      BY <3>1, <1>2, <1>4, <2>2 DEF CatInv
  <2> QED
    BY <2>1, <2>2
<1> QED
  BY <1>2, <1>3, <1>4 DEF CatInv

(* Every step on the tables is one of the four above, or leaves them alone. *)
LEMMA CatKeeps == CatInv /\ [CatNext]_catVars => CatInv'
<1> SUFFICES ASSUME CatInv, [CatNext]_catVars PROVE CatInv'
  OBVIOUS
<1>1. ASSUME UNCHANGED EditVars PROVE CatInv'
  BY <1>1 DEF EditVars, CatInv, Truthful, Orderly, Cached, Settled
<1>2. ASSUME NEW e \in Editor,
             PostConfig(e) \/ PostFirmware(e) \/ PostScript(e) \/ PostBlackList(e)
      PROVE  CatInv'
  <2>1. RowValues \subseteq Value \cup DefaultConfig
    BY DEF RowValues
  <2>2. asked[e] = NoRequest
    BY <1>2 DEF PostConfig, PostFirmware, PostScript, PostBlackList
  <2>3. PICK k \in Key, b \in Key, v \in RowValues, at \in {"select", "insert"} :
            Begin(e, "post", k, b, v, at)
    BY <1>2 DEF PostConfig, PostFirmware, PostScript, PostBlackList
  <2> QED
    BY <2>1, <2>2, <2>3, BeginKeeps
<1>3. ASSUME NEW e \in Editor,
             PutConfig(e) \/ PutFirmware(e) \/ PutScript(e) \/ PutBlackList(e)
      PROVE  CatInv'
  <2>1. RowValues \subseteq Value \cup DefaultConfig
    BY DEF RowValues
  <2>2. asked[e] = NoRequest
    BY <1>3 DEF PutConfig, PutFirmware, PutScript, PutBlackList
  <2>3. PICK k \in Key, v \in RowValues :
            row[k] # NoValue /\ Begin(e, "put", k, k, v, "update")
    BY <1>3 DEF PutConfig, PutFirmware, PutScript, PutBlackList
  <2> QED
    BY <2>1, <2>2, <2>3, BeginKeeps
<1>4. ASSUME NEW e \in Editor,
             DeleteConfig_(e) \/ DeleteFirmware(e) \/ DeleteScript(e) \/ DeleteBlackList(e)
      PROVE  CatInv'
  <2>1. asked[e] = NoRequest
    BY <1>4 DEF DeleteConfig_, DeleteFirmware, DeleteScript, DeleteBlackList
  <2>2. PICK k \in Key : Begin(e, "delete", k, k, NoValue, "delete")
    BY <1>4 DEF DeleteConfig_, DeleteFirmware, DeleteScript, DeleteBlackList
  <2> QED
    BY <2>1, <2>2, BeginKeeps
<1>5. ASSUME NEW e \in Editor, CreateDefaultConfiguration(e) \/ CreateDefaultFirmware(e)
      PROVE  CatInv'
  <2>1. asked[e] # NoRequest /\ asked[e].at # "cache" /\ asked[e].op = "post"
        /\ (Refuse(e) \/ Goto(e, "insert"))
    BY <1>5 DEF CreateDefaultConfiguration, CreateDefaultFirmware, NoRequest
  <2> QED
    BY <2>1, TurnKeeps
<1>6. ASSUME NEW e \in Editor, InsertRow(e) PROVE CatInv'
  <2>1. asked[e] # NoRequest /\ asked[e].at # "cache" /\ asked[e].op # "delete"
    BY <1>6 DEF InsertRow, CatInv, Orderly
  <2>2. Refuse(e) \/ /\ row' = [row EXCEPT ![asked[e].body] = asked[e].value]
                     /\ AfterStatement(e) /\ UNCHANGED <<cache, overlap, store>>
    BY <1>6 DEF InsertRow
  <2>3. Cached(asked[e]) = asked[e].value
    BY <2>1 DEF Cached
  <2> QED
    BY <2>1, <2>2, <2>3, TurnKeeps, StatementKeeps
<1>7. ASSUME NEW e \in Editor, UpdateRow_(e) PROVE CatInv'
  <2> DEFINE x == IF row[asked[e].body] = NoValue THEN NoValue ELSE asked[e].value
  <2>1. asked[e] # NoRequest /\ asked[e].at = "update" /\ asked[e].op = "put"
        /\ asked[e].key = asked[e].body
    BY <1>7 DEF UpdateRow_, CatInv, Orderly
  <2>2. row' = [row EXCEPT ![asked[e].body] = x] /\ AfterStatement(e)
        /\ UNCHANGED <<cache, overlap, store>>
    BY <1>7, <2>1 DEF UpdateRow_
  <2>3. asked[e].body \notin overlap => Cached(asked[e]) = x
    BY <2>1 DEF Cached, CatInv, Truthful
  <2> HIDE DEF x
  <2> QED
    BY <2>1, <2>2, <2>3, StatementKeeps
<1>8. ASSUME NEW e \in Editor, DeleteRow(e) PROVE CatInv'
  <2>1. asked[e] # NoRequest /\ asked[e].at = "delete" /\ asked[e].op = "delete"
        /\ asked[e].key = asked[e].body
    BY <1>8 DEF DeleteRow, CatInv, Orderly
  <2>2. row' = [row EXCEPT ![asked[e].body] = NoValue] /\ AfterStatement(e)
        /\ UNCHANGED <<cache, overlap, store>>
    BY <1>8, <2>1 DEF DeleteRow
  <2>3. Cached(asked[e]) = NoValue
    BY <2>1 DEF Cached
  <2> QED
    BY <2>1, <2>2, <2>3, StatementKeeps
<1>9. ASSUME NEW m \in Model_, NEW p \in Platform_, Provision(m, p) \/ AddCapabilities(m, p)
      PROVE  UNCHANGED EditVars
  BY <1>9 DEF EditVars, Provision, AddCapabilities
<1>10. ASSUME RestartCatalog PROVE CatInv'
  <2>1. /\ DOMAIN asked' = Editor /\ \A e \in Editor : asked'[e] = NoRequest
        /\ UNCHANGED <<store, row>> /\ DOMAIN cache' = Key
        /\ store = "blacklist" => cache' = row
    BY <1>10 DEF RestartCatalog, CatInv
  <2> QED
    BY <2>1 DEF CatInv, Orderly, Truthful
<1>11. ASSUME UNCHANGED catVars PROVE UNCHANGED EditVars
  BY <1>11 DEF catVars, EditVars
<1> QED
  BY <1>1, <1>2, <1>3, <1>4, <1>5, <1>6, <1>7, <1>8, <1>9, <1>10, <1>11, CacheKeeps
     DEF CatNext

(* The platforms in memory and in the file, once read, are of every model. *)
PlatInv ==
    LET Known == [Model_ -> Platform_ \cup {NoPlatform}]
    IN  Platforms_ \in Known /\ (file # Torn => file \in Known) /\ PlatformsAreSaved

LEMMA PlatKeeps == PlatInv /\ [CatNext]_catVars => PlatInv'
<1> SUFFICES ASSUME PlatInv, [CatNext]_catVars PROVE PlatInv'
  OBVIOUS
<1> DEFINE Known == [Model_ -> Platform_ \cup {NoPlatform}]
<1>1. ASSUME UNCHANGED <<Platforms_, file, loaded>> PROVE PlatInv'
  BY <1>1 DEF PlatInv, PlatformsAreSaved
<1>2. ASSUME NEW m \in Model_, NEW p \in Platform_, AddCapabilities(m, p)
      PROVE  PlatInv'
  <2>1. Load \in Known
    BY DEF Load, PlatInv
  <2>2. file # Torn \/ loaded \/ Load[m] = NoPlatform
    BY <1>2 DEF Load
  <2>3. file # Torn => Load = file
    BY DEF Load, PlatInv, PlatformsAreSaved
  <2> HIDE DEF Known
  <2>4. Platforms_' = [Load EXCEPT ![m] = p] /\ p # NoPlatform
        /\ file' = IF Load[m] # p THEN Platforms_' ELSE file
    BY <1>2 DEF AddCapabilities
  <2>5. Platforms_' \in Known
    BY <2>1, <2>4 DEF Known
  <2>6. file' # Torn => file' \in Known
    BY <2>4, <2>5 DEF PlatInv, Known
  <2>7. Load[m] = p => Platforms_' = Load
    BY <2>1, <2>4 DEF Known
  <2>8. file' # Torn => file' = Platforms_'
    BY <2>3, <2>4, <2>7
  <2> QED
    BY <2>5, <2>6, <2>8 DEF PlatInv, PlatformsAreSaved, Known
<1>3. ASSUME RestartCatalog PROVE PlatInv'
  <2>1. Platforms_' \in Known /\ (file' # Torn => file' = file) /\ ~loaded'
    BY <1>3 DEF RestartCatalog
  <2> QED
    BY <2>1 DEF PlatInv, PlatformsAreSaved
<1>4. ASSUME NEW e \in Editor,
             \/ PostConfig(e) \/ CreateDefaultConfiguration(e) \/ PutConfig(e) \/ DeleteConfig_(e)
             \/ PostFirmware(e) \/ CreateDefaultFirmware(e) \/ PutFirmware(e) \/ DeleteFirmware(e)
             \/ PostScript(e) \/ PutScript(e) \/ DeleteScript(e)
             \/ PostBlackList(e) \/ PutBlackList(e) \/ DeleteBlackList(e)
             \/ InsertRow(e) \/ UpdateRow_(e) \/ DeleteRow(e) \/ UpdateCache(e)
      PROVE  UNCHANGED <<Platforms_, file, loaded>>
  BY <1>4 DEF PostConfig, CreateDefaultConfiguration, PutConfig, DeleteConfig_,
       PostFirmware, CreateDefaultFirmware, PutFirmware, DeleteFirmware,
       PostScript, PutScript, DeleteScript, PostBlackList, PutBlackList, DeleteBlackList,
       InsertRow, UpdateRow_, DeleteRow, UpdateCache, Begin, Refuse, Goto
<1>5. ASSUME NEW m \in Model_, NEW p \in Platform_, Provision(m, p)
      PROVE  UNCHANGED <<Platforms_, file, loaded>>
  BY <1>5 DEF Provision
<1>6. UNCHANGED catVars => UNCHANGED <<Platforms_, file, loaded>>
  BY DEF catVars
<1> QED
  BY <1>1, <1>2, <1>3, <1>4, <1>5, <1>6 DEF CatNext

LEMMA FitKeeps == ConfigurationFitsModel /\ [CatNext]_catVars => ConfigurationFitsModel'
<1> SUFFICES ASSUME ConfigurationFitsModel, [CatNext]_catVars PROVE ConfigurationFitsModel'
  OBVIOUS
<1>1. ASSUME UNCHANGED given PROVE ConfigurationFitsModel'
  BY <1>1 DEF ConfigurationFitsModel
<1>2. ASSUME NEW m \in Model_, NEW p \in Platform_, Provision(m, p)
      PROVE  ConfigurationFitsModel'
  <2>1. CASE given' \in {[given |-> "default", config |-> row[k], model |-> m, platform |-> p] :
                            k \in ForModel(m, p)}
    <3>1. PICK k \in ForModel(m, p) :
            given' = [given |-> "default", config |-> row[k], model |-> m, platform |-> p]
      BY <2>1
    <3>2. (m \in row[k].models \/ AnyModel \in row[k].models) /\ NoPlatform = p
      BY <3>1 DEF ForModel
    <3>3. given'.model = m /\ given'.platform = p /\ given'.config = row[k]
      BY <3>1
    <3> QED
      BY <3>2, <3>3 DEF ConfigurationFitsModel
  <2>2. CASE given' = [given |-> "provisioned"] \/ given' = [given |-> "builtin"]
    BY <2>2 DEF ConfigurationFitsModel
  <2> QED
    BY <1>2, <2>1, <2>2 DEF Provision
<1>3. ASSUME NEW e \in Editor,
             \/ PostConfig(e) \/ CreateDefaultConfiguration(e) \/ PutConfig(e) \/ DeleteConfig_(e)
             \/ PostFirmware(e) \/ CreateDefaultFirmware(e) \/ PutFirmware(e) \/ DeleteFirmware(e)
             \/ PostScript(e) \/ PutScript(e) \/ DeleteScript(e)
             \/ PostBlackList(e) \/ PutBlackList(e) \/ DeleteBlackList(e)
             \/ InsertRow(e) \/ UpdateRow_(e) \/ DeleteRow(e) \/ UpdateCache(e)
      PROVE  UNCHANGED given
  BY <1>3 DEF PostConfig, CreateDefaultConfiguration, PutConfig, DeleteConfig_,
       PostFirmware, CreateDefaultFirmware, PutFirmware, DeleteFirmware,
       PostScript, PutScript, DeleteScript, PostBlackList, PutBlackList, DeleteBlackList,
       InsertRow, UpdateRow_, DeleteRow, UpdateCache, Begin, Refuse, Goto
<1>4. ASSUME NEW m \in Model_, NEW p \in Platform_, AddCapabilities(m, p)
      PROVE  UNCHANGED given
  BY <1>4 DEF AddCapabilities
<1>5. ASSUME RestartCatalog PROVE ConfigurationFitsModel'
  BY <1>5 DEF RestartCatalog, Nothing, ConfigurationFitsModel
<1>6. UNCHANGED catVars => UNCHANGED given
  BY DEF catVars
<1> QED
  BY <1>1, <1>2, <1>3, <1>4, <1>5, <1>6 DEF CatNext

(* Only a PUT or a DELETE changes a row that is there.                     *)
Overwrites(k) ==
    \E e \in Editor : asked[e] # NoRequest /\ asked[e].op \in {"put", "delete"}
                      /\ asked[e].key = k

LEMMA OnlyEditsOverwrite ==
    CatInv /\ CatNext =>
        \A k \in Key : row[k] # NoValue /\ row'[k] # row[k] => Overwrites(k)
<1> SUFFICES ASSUME CatInv, CatNext, NEW k \in Key, row[k] # NoValue, row'[k] # row[k]
             PROVE  Overwrites(k)
  OBVIOUS
<1>1. ASSUME NEW e \in Editor,
             \/ PostConfig(e) \/ CreateDefaultConfiguration(e) \/ PutConfig(e) \/ DeleteConfig_(e)
             \/ PostFirmware(e) \/ CreateDefaultFirmware(e) \/ PutFirmware(e) \/ DeleteFirmware(e)
             \/ PostScript(e) \/ PutScript(e) \/ DeleteScript(e)
             \/ PostBlackList(e) \/ PutBlackList(e) \/ DeleteBlackList(e) \/ UpdateCache(e)
      PROVE  UNCHANGED row
  BY <1>1 DEF PostConfig, CreateDefaultConfiguration, PutConfig, DeleteConfig_,
       PostFirmware, CreateDefaultFirmware, PutFirmware, DeleteFirmware,
       PostScript, PutScript, DeleteScript, PostBlackList, PutBlackList, DeleteBlackList,
       UpdateCache, Begin, Refuse, Goto
<1>2. ASSUME NEW e \in Editor, InsertRow(e) PROVE FALSE
  <2>1. row[asked[e].body] = NoValue
    BY <1>2 DEF InsertRow, Refuse
  <2> QED
    BY <1>2, <2>1 DEF InsertRow, CatInv, Refuse
<1>3. ASSUME NEW e \in Editor, UpdateRow_(e) \/ DeleteRow(e) PROVE Overwrites(k)
  <2>1. asked[e] # NoRequest /\ asked[e].op \in {"put", "delete"}
    BY <1>3 DEF UpdateRow_, DeleteRow, CatInv, Orderly
  <2>2. asked[e].key = k
    BY <1>3 DEF UpdateRow_, DeleteRow, CatInv
  <2> QED
    BY <2>1, <2>2 DEF Overwrites
<1>4. ASSUME NEW m \in Model_, NEW p \in Platform_, Provision(m, p) \/ AddCapabilities(m, p)
      PROVE  UNCHANGED row
  BY <1>4 DEF Provision, AddCapabilities
<1>5. RestartCatalog => UNCHANGED row
  BY DEF RestartCatalog
<1> QED
  BY <1>1, <1>2, <1>3, <1>4, <1>5 DEF CatNext

LEMMA CatHolds ==
    CatSpec => /\ [](BlackListEnforced /\ ConfigurationFitsModel /\ PlatformsAreSaved)
               /\ CreationNeverOverwrites
<1>1. CatInit => CatInv /\ PlatInv /\ ConfigurationFitsModel
  BY DEF CatInit, CatInv, PlatInv, PlatformsAreSaved, ConfigurationFitsModel, Nothing,
         Orderly, Truthful
<1>2. CatInv => BlackListEnforced
  BY DEF CatInv, BlackListEnforced, Settled
<1>3. PlatInv => PlatformsAreSaved
  BY DEF PlatInv
<1>4. CatInv /\ [CatNext]_catVars =>
        [\A k \in Key : row[k] # NoValue /\ row'[k] # row[k] =>
           \E e \in Editor : asked[e] # NoRequest /\ asked[e].op \in {"put", "delete"}
                             /\ asked[e].key = k]_catVars
  BY OnlyEditsOverwrite DEF Overwrites
<1> QED
  BY <1>1, <1>2, <1>3, <1>4, CatKeeps, PlatKeeps, FitKeeps, PTL
     DEF CatSpec, CreationNeverOverwrites

-----------------------------------------------------------------------------
(* Credentials. *)

RequestStates == {"idle", "asked", "answered", "accepted", "refused"}

Requests == [state : RequestStates, token : Credential \cup {NoCredential}, valid : BOOLEAN]

(* An answer that found its credential valid came before the removal, or   *)
(* the removal saw it under way.                                           *)
AuthInv ==
    /\ presented \in [RestHandler -> Requests]
    /\ removals \subseteq revoked /\ removed \subseteq revoked
    /\ \A h \in RestHandler :
          presented[h].state = "answered" /\ presented[h].valid
             /\ presented[h].token \in removed => presented[h].token \in overtaken
    /\ RemovedIsForgotten

LEMMA RequestFields ==
    ASSUME NEW s, NEW t, NEW a
    PROVE  /\ Request(s, t, a).state = s /\ Request(s, t, a).token = t
           /\ Request(s, t, a).valid = a
BY DEF Request

(* What a step of a handler may leave.                                     *)
LEMMA RequestOf ==
    ASSUME NEW t \in Credential \cup {NoCredential}, NEW r,
           \/ r = Request("accepted", t, TRUE) \/ r = Request("refused", t, FALSE)
           \/ r = Request("asked", t, FALSE)
           \/ r = Request("answered", t, TRUE) /\ t \notin revoked
           \/ r = Request("answered", t, FALSE)
    PROVE  /\ r \in Requests /\ r.token = t
           /\ r.state = "answered" /\ r.valid => t \notin revoked
<1> USE DEF Request, Requests, RequestStates
<1>1. CASE r = Request("accepted", t, TRUE)
  BY <1>1
<1>2. CASE r = Request("refused", t, FALSE)
  BY <1>2
<1>3. CASE r = Request("asked", t, FALSE)
  BY <1>3
<1>4. CASE r = Request("answered", t, TRUE) /\ t \notin revoked
  BY <1>4
<1>5. CASE r = Request("answered", t, FALSE)
  BY <1>5
<1> QED
  BY <1>1, <1>2, <1>3, <1>4, <1>5

LEMMA ValidAnswer ==
    ASSUME NEW r \in Requests, r.state = "answered", r.valid
    PROVE  r = Request("answered", r.token, TRUE)
BY DEF Request, Requests

(* A handler that is not left with a valid answer changes nothing of that. *)
LEMMA HandlerKeeps ==
    ASSUME AuthInv, NEW h \in RestHandler,
           NEW r \in Requests,
           presented' = [presented EXCEPT ![h] = r],
           r.state = "answered" /\ r.valid => r.token \notin revoked,
           cached' \cap removed \subseteq overtaken,
           UNCHANGED <<revoked, removals, removed, overtaken>>
    PROVE  AuthInv'
<1>1. /\ presented' \in [RestHandler -> Requests]
      /\ presented'[h] = r /\ \A g \in RestHandler \ {h} : presented'[g] = presented[g]
  BY DEF AuthInv
<1>2. ASSUME NEW g \in RestHandler, presented'[g].state = "answered", presented'[g].valid,
             presented'[g].token \in removed'
      PROVE  presented'[g].token \in overtaken'
  <2>1. CASE g = h
    BY <1>1, <1>2, <2>1 DEF AuthInv
  <2>2. CASE g # h
    BY <1>1, <1>2, <2>2 DEF AuthInv
  <2> QED
    BY <2>1, <2>2
<1>3. RemovedIsForgotten'
  BY DEF RemovedIsForgotten
<1> QED
  BY <1>1, <1>2, <1>3 DEF AuthInv

LEMMA AuthHolds == AuthSpec => []RemovedIsForgotten /\ AcceptedIsFresh
<1>1. AuthInit => AuthInv
  <2> SUFFICES ASSUME AuthInit PROVE AuthInv
    OBVIOUS
  <2>1. AuthIdle \in Requests /\ AuthIdle.state = "idle"
    BY DEF AuthIdle, Request, RequestStates, Requests
  <2> QED
    BY <2>1 DEF AuthInit, AuthInv, RemovedIsForgotten
<1>2. ASSUME AuthInv, RemoveTokenReceived PROVE AuthInv'
  <2>1. PICK t \in removals :
          /\ removals' = removals \ {t} /\ removed' = removed \cup {t}
          /\ cached' = cached \ {t}
          /\ overtaken' = IF ValidUnderWay(t) THEN overtaken \cup {t} ELSE overtaken
          /\ UNCHANGED <<revoked, presented>>
    BY <1>2 DEF RemoveTokenReceived, RemovedCachedToken
  <2>2. ASSUME NEW h \in RestHandler, presented[h].state = "answered", presented[h].valid,
               presented[h].token \in removed'
        PROVE  presented[h].token \in overtaken'
    <3>1. CASE presented[h].token = t
      <4>1. presented[h] = Request("answered", t, TRUE)
        BY <1>2, <2>2, <3>1, ValidAnswer DEF AuthInv
      <4> QED
        BY <2>1, <3>1, <4>1 DEF ValidUnderWay
    <3>2. CASE presented[h].token # t
      BY <1>2, <2>1, <2>2, <3>2 DEF AuthInv
    <3> QED
      BY <3>1, <3>2
  <2>3. RemovedIsForgotten'
    BY <1>2, <2>1 DEF AuthInv, RemovedIsForgotten
  <2> QED
    BY <1>2, <2>1, <2>2, <2>3 DEF AuthInv
<1>3. ASSUME AuthInv, NEW t \in Credential, Revoke(t) \/ TokenExpires(t) \/ Evict(t)
      PROVE  AuthInv'
  BY <1>3 DEF Revoke, TokenExpires, Evict, AuthInv, RemovedIsForgotten
<1>4. ASSUME AuthInv, NEW h \in RestHandler, NEW t \in Credential,
             IsAuthorized(h, t) \/ IsValidApiKey(h, t)
      PROVE  AuthInv'
  <2>1. /\ cached' \subseteq cached
        /\ UNCHANGED <<revoked, removals, removed, overtaken>>
        /\ Ends(h, "accepted", t) \/ Ends(h, "refused", t) \/ Asks(h, t)
    BY <1>4 DEF IsAuthorized, IsValidApiKey, Retrieve
  <2>2. PICK r \in {Request("accepted", t, TRUE), Request("refused", t, FALSE),
                    Request("asked", t, FALSE)} : presented' = [presented EXCEPT ![h] = r]
    <3>1. CASE Ends(h, "accepted", t)
      BY <3>1 DEF Ends
    <3>2. CASE Ends(h, "refused", t)
      <4>1. presented' = [presented EXCEPT ![h] = Request("refused", t, FALSE)]
        BY <3>2 DEF Ends
      <4> QED
        BY <4>1
    <3>3. CASE Asks(h, t)
      BY <3>3 DEF Asks
    <3> QED
      BY <2>1, <3>1, <3>2, <3>3
  <2>3. r \in Requests /\ r.token = t
        /\ (r.state = "answered" /\ r.valid => r.token \notin revoked)
    <3>1. t \in Credential \cup {NoCredential}
      OBVIOUS
    <3>2. \/ r = Request("accepted", t, TRUE) \/ r = Request("refused", t, FALSE)
          \/ r = Request("asked", t, FALSE)
          \/ r = Request("answered", t, TRUE) /\ t \notin revoked
          \/ r = Request("answered", t, FALSE)
      BY <2>2
    <3>3. r \in Requests /\ r.token = t /\ (r.state = "answered" /\ r.valid => t \notin revoked)
      BY ONLY <3>1, <3>2, RequestOf
    <3> QED
      BY ONLY <3>3
  <2>4. cached' \cap removed \subseteq overtaken
    BY <1>4, <2>1 DEF AuthInv, RemovedIsForgotten
  <2> QED
    BY <1>4, <2>1, <2>2, <2>3, <2>4, HandlerKeeps
<1>5. ASSUME AuthInv, NEW h \in RestHandler, ServiceAnswers(h)
      PROVE  AuthInv'
  <2> DEFINE t == presented[h].token
  <2>1. t \in Credential \cup {NoCredential} /\ cached \cap removed \subseteq overtaken
    BY <1>5 DEF AuthInv, RemovedIsForgotten, Requests
  <2>2. PICK r : /\ presented' = [presented EXCEPT ![h] = r]
                 /\ \/ r = Request("answered", t, t \notin revoked)
                    \/ r = Request("refused", t, FALSE)
    BY <1>5 DEF ServiceAnswers
  <2>3. \/ r = Request("answered", t, TRUE) /\ t \notin revoked
        \/ r = Request("answered", t, FALSE)
        \/ r = Request("refused", t, FALSE)
    BY <2>2
  <2> HIDE DEF t
  <2>4. r \in Requests /\ (r.state = "answered" /\ r.valid => r.token \notin revoked)
    <3>1. r.token = t /\ r \in Requests /\ (r.state = "answered" /\ r.valid => t \notin revoked)
      BY ONLY <2>1, <2>3, RequestOf
    <3> QED
      BY ONLY <3>1
  <2> QED
    BY <1>5, <2>1, <2>2, <2>4, HandlerKeeps DEF ServiceAnswers
<1>6. ASSUME AuthInv, NEW h \in RestHandler,
             RetrieveTokenInformation(h) \/ RetrieveApiKeyInformation(h)
      PROVE  AuthInv'
  <2>1. /\ UNCHANGED <<revoked, removals, removed, overtaken>>
        /\ \/ cached' = cached
           \/ /\ presented[h].state = "answered" /\ presented[h].valid
              /\ cached' = cached \cup {presented[h].token}
    BY <1>6 DEF RetrieveTokenInformation, RetrieveApiKeyInformation, AuthAnswered
  <2>2. PICK s \in {"accepted", "refused"} : presented' = [presented EXCEPT ![h].state = s]
    <3>1. \E ok : AuthAnswered(h, ok)
      BY <1>6 DEF RetrieveTokenInformation, RetrieveApiKeyInformation
    <3>2. \E ok : presented' = [presented EXCEPT ![h].state = IF ok THEN "accepted" ELSE "refused"]
      BY <3>1 DEF AuthAnswered
    <3> QED
      BY <3>2
  <2>3. \A q \in Requests : [q EXCEPT !.state = s] \in Requests
                            /\ [q EXCEPT !.state = s].state = s
    BY DEF RequestStates, Requests
  <2> DEFINE r == [presented[h] EXCEPT !.state = s]
  <2>4. r \in Requests /\ r.state # "answered"
    BY <1>6, <2>3 DEF AuthInv
  <2>5. presented' = [presented EXCEPT ![h] = r]
    BY <2>2
  <2>6. cached' \cap removed \subseteq overtaken
    BY <1>6, <2>1 DEF AuthInv, RemovedIsForgotten
  <2> HIDE DEF r
  <2> QED
    BY <1>6, <2>1, <2>4, <2>5, <2>6, HandlerKeeps
<1>7. ASSUME AuthInv, NEW h \in RestHandler, Handled(h)
      PROVE  AuthInv'
  <2>1. AuthIdle \in Requests /\ AuthIdle.state # "answered"
    BY DEF AuthIdle, Request, RequestStates, Requests
  <2> QED
    BY <1>7, <2>1, HandlerKeeps DEF Handled, AuthInv, RemovedIsForgotten
<1>8. AuthInv /\ UNCHANGED authVars => AuthInv'
  BY DEF AuthInv, authVars, RemovedIsForgotten
<1>9. AuthInv /\ [AuthNext]_authVars => AuthInv'
  BY <1>2, <1>3, <1>4, <1>5, <1>6, <1>7, <1>8 DEF AuthNext
<1>10. ASSUME AuthInv, AuthNext, NEW h \in RestHandler, presented[h].state # "accepted",
              presented'[h].state = "accepted", presented'[h].token \in SessionToken
       PROVE  presented'[h].token \notin expired
  <2>1. ~RemoveTokenReceived /\ \A t \in Credential : ~(Revoke(t) \/ TokenExpires(t) \/ Evict(t))
    BY <1>10 DEF RemoveTokenReceived, Revoke, TokenExpires, Evict
  <2>2. ASSUME NEW g \in RestHandler, NEW t \in Credential, IsAuthorized(g, t)
        PROVE  presented'[h].token \notin expired
    <3>1. CASE Ends(g, "accepted", t) /\ t \notin expired
      <4>1. PICK a : presented' = [presented EXCEPT ![g] = Request("accepted", t, a)]
        BY <3>1 DEF Ends
      <4>2. g = h
        BY <1>10, <4>1 DEF AuthInv
      <4>3. presented'[h].token = t
        BY <1>10, <4>1, <4>2, RequestFields DEF AuthInv
      <4> QED
        BY <3>1, <4>3
    <3>2. CASE Ends(g, "refused", t) \/ Asks(g, t)
      <4>1. PICK r : /\ presented' = [presented EXCEPT ![g] = r]
                     /\ r = Request("refused", t, FALSE) \/ r = Request("asked", t, FALSE)
        BY <3>2 DEF Ends, Asks
      <4>2. r.state # "accepted"
        BY <4>1 DEF Request
      <4> QED
        BY <1>10, <4>1, <4>2 DEF AuthInv
    <3> QED
      BY <2>2, <3>1, <3>2 DEF IsAuthorized, Retrieve, IsTokenExpired
  <2>3. ASSUME NEW g \in RestHandler, NEW t \in Credential, IsValidApiKey(g, t)
        PROVE  FALSE
    <3>1. PICK r : /\ presented' = [presented EXCEPT ![g] = r]
                   /\ \/ r = Request("accepted", t, TRUE) \/ r = Request("refused", t, FALSE)
                      \/ r = Request("asked", t, FALSE)
      BY <2>3 DEF IsValidApiKey, Retrieve, Ends, Asks
    <3>2. presented'[h] = r
      BY <1>10, <3>1 DEF AuthInv
    <3>3. presented'[h].token = t
      BY <3>1, <3>2, RequestOf
    <3>4. t \in ApiKey
      BY <2>3 DEF IsValidApiKey
    <3> QED
      BY <1>10, <3>3, <3>4, AuthAssumption
  <2>4. ASSUME NEW g \in RestHandler, ServiceAnswers(g) PROVE FALSE
    <3>1. PICK r : /\ presented' = [presented EXCEPT ![g] = r]
                   /\ \/ r = Request("answered", presented[g].token,
                                    presented[g].token \notin revoked)
                      \/ r = Request("refused", presented[g].token, FALSE)
      BY <2>4 DEF ServiceAnswers
    <3>2. r.state # "accepted"
      BY <3>1 DEF Request
    <3> QED
      BY <1>10, <3>1, <3>2 DEF AuthInv
  <2>5. ASSUME NEW g \in RestHandler, Handled(g) PROVE FALSE
    BY <1>10, <2>5 DEF Handled, AuthIdle, Request, AuthInv
  <2>6. ASSUME NEW g \in RestHandler, RetrieveTokenInformation(g)
        PROVE  presented'[h].token \notin expired
    <3>1. g = h
      BY <1>10, <2>6 DEF RetrieveTokenInformation, AuthAnswered, AuthInv
    <3>2. presented[h].token \in expired =>
             presented' = [presented EXCEPT ![h].state = "refused"]
      BY <2>6, <3>1 DEF RetrieveTokenInformation, AuthAnswered, IsTokenExpired
    <3>3. presented'[h].token = presented[h].token
      BY <2>6, <3>1 DEF RetrieveTokenInformation, AuthAnswered, AuthInv, Requests
    <3>4. presented' = [presented EXCEPT ![h].state = "refused"] => presented'[h].state = "refused"
      BY <1>10 DEF AuthInv, Requests
    <3> QED
      BY <1>10, <3>2, <3>3, <3>4
  <2>7. ASSUME NEW g \in RestHandler, RetrieveApiKeyInformation(g) PROVE FALSE
    <3>1. g = h
      BY <1>10, <2>7 DEF RetrieveApiKeyInformation, AuthAnswered, AuthInv
    <3>2. presented'[h].token = presented[h].token /\ presented[h].token \in ApiKey
      BY <2>7, <3>1 DEF RetrieveApiKeyInformation, AuthAnswered, AuthInv, Requests
    <3> QED
      BY <1>10, <3>2, AuthAssumption
  <2> QED
    BY <1>10, <2>1, <2>2, <2>3, <2>4, <2>5, <2>6, <2>7 DEF AuthNext
<1>11. AuthInv /\ [AuthNext]_authVars =>
         [\A h \in RestHandler :
            (/\ presented[h].state # "accepted" /\ presented'[h].state = "accepted"
             /\ presented'[h].token \in SessionToken)
               => presented'[h].token \notin expired]_authVars
  BY <1>10
<1>12. AuthInv => RemovedIsForgotten
  BY DEF AuthInv
<1> QED
  BY <1>1, <1>9, <1>11, <1>12, PTL DEF AuthSpec, AcceptedIsFresh

-----------------------------------------------------------------------------
(* Venues. *)

Ages == 0..TooOld

(* Two devices of one list were in one venue no longer ago than the list   *)
(* was made.                                                               *)
VenueInv ==
    /\ placed \in [VenueDevice -> VenueSite]
    /\ apart \in [VenueDevice -> [VenueDevice -> Ages]]
    /\ venues \in [VenueSite -> [devices : SUBSET VenueDevice, age : Ages]]
    /\ broadcasts \in Seq(VenueDevice)
    /\ \A d, e \in VenueDevice : placed[d] = placed[e] => apart[d][e] = 0
    /\ \A v \in VenueSite : \A d, e \in venues[v].devices : apart[d][e] <= venues[v].age

LEMMA AgesGrow ==
    /\ TooOld \in Nat /\ 0 \in Ages
    /\ \A n \in Ages : Older(n) \in Ages
    /\ \A m, n \in Ages : m <= n => Older(m) <= Older(n)
BY VenueAssumption DEF Ages, TooOld, Older

LEMMA VenueHolds == VenueSpec => BroadcastIsRecent
<1> DEFINE Lists == [devices : SUBSET VenueDevice, age : Ages]
<1>1. VenueInit => VenueInv
  <2> SUFFICES ASSUME VenueInit PROVE VenueInv
    OBVIOUS
  <2>1. TooOld \in Ages /\ 0 \in Ages
    BY AgesGrow DEF Ages
  <2>2. NoList \in Lists /\ NoList.devices = {}
    BY <2>1 DEF NoList
  <2>3. \A d, e \in VenueDevice : apart[d][e] = IF placed[d] = placed[e] THEN 0 ELSE TooOld
    BY DEF VenueInit
  <2>4. apart \in [VenueDevice -> [VenueDevice -> Ages]]
    BY <2>1 DEF VenueInit
  <2> QED
    BY <2>2, <2>3, <2>4 DEF VenueInit, VenueInv
<1>2. ASSUME VenueInv, NEW d \in VenueDevice, NEW v \in VenueSite, Move(d, v)
      PROVE  VenueInv'
  <2>1. placed' \in [VenueDevice -> VenueSite] /\ UNCHANGED <<venues, broadcasts>>
    BY <1>2 DEF Move, VenueInv
  <2>2. apart' = [x \in VenueDevice |-> [y \in VenueDevice |->
                     IF placed'[x] = placed'[y] THEN 0 ELSE apart[x][y]]]
    BY <1>2 DEF Move, Together
  <2>3. \A x, y \in VenueDevice :
            apart'[x][y] = IF placed'[x] = placed'[y] THEN 0 ELSE apart[x][y]
    BY <2>2
  <2>4. apart' \in [VenueDevice -> [VenueDevice -> Ages]]
    BY <1>2, <2>2, AgesGrow DEF VenueInv
  <2>5. ASSUME NEW w \in VenueSite, NEW x \in venues'[w].devices, NEW y \in venues'[w].devices
        PROVE  apart'[x][y] <= venues'[w].age
    <3>1. x \in VenueDevice /\ y \in VenueDevice /\ venues[w].age \in Ages
          /\ apart[x][y] <= venues[w].age
      BY <1>2, <2>1 DEF VenueInv
    <3> QED
      BY <2>1, <2>3, <3>1 DEF Ages
  <2>6. \A x, y \in VenueDevice : placed'[x] = placed'[y] => apart'[x][y] = 0
    BY <2>3
  <2> QED
    BY <1>2, <2>1, <2>4, <2>5, <2>6 DEF VenueInv
<1>3. ASSUME VenueInv, VenueTick
      PROVE  VenueInv'
  <2>1. \A w \in VenueSite : /\ venues'[w] \in Lists
                             /\ venues'[w].devices = venues[w].devices
                             /\ venues'[w].age = Older(venues[w].age)
    <3>1. \A q \in Lists : LET p == [q EXCEPT !.age = Older(@)]
                           IN  p \in Lists /\ p.devices = q.devices /\ p.age = Older(q.age)
      BY AgesGrow
    <3>2. \A w \in VenueSite : venues[w] \in Lists
                               /\ venues'[w] = [venues[w] EXCEPT !.age = Older(@)]
      BY <1>3 DEF VenueInv, VenueTick
    <3> QED
      BY <3>1, <3>2
  <2>2. venues' \in [VenueSite -> Lists]
    BY <1>3, <2>1 DEF VenueTick
  <2>3. \A x, y \in VenueDevice :
            apart'[x][y] = IF placed[x] = placed[y] THEN 0 ELSE Older(apart[x][y])
    BY <1>3 DEF VenueTick
  <2>4. apart' \in [VenueDevice -> [VenueDevice -> Ages]]
    BY <1>3, AgesGrow DEF VenueInv, VenueTick
  <2>5. ASSUME NEW w \in VenueSite, NEW x \in venues'[w].devices, NEW y \in venues'[w].devices
        PROVE  apart'[x][y] <= venues'[w].age
    <3>1. /\ x \in VenueDevice /\ y \in VenueDevice
          /\ venues[w].age \in Ages /\ apart[x][y] \in Ages
          /\ apart[x][y] <= venues[w].age
      BY <1>3, <2>1 DEF VenueInv
    <3>2. Older(apart[x][y]) <= Older(venues[w].age) /\ Older(venues[w].age) \in Ages
      BY <3>1, AgesGrow
    <3> QED
      BY <2>1, <2>3, <3>1, <3>2 DEF Ages
  <2> QED
    BY <1>3, <2>2, <2>3, <2>4, <2>5 DEF VenueInv, VenueTick
<1>4. ASSUME VenueInv, NEW d \in VenueDevice, Broadcast(d)
      PROVE  VenueInv'
  BY <1>4 DEF VenueInv, Broadcast
<1>5. ASSUME VenueInv, SendToVenue
      PROVE  VenueInv'
  <2> DEFINE d == Head(broadcasts)
             l == [devices |-> AskProv(d), age |-> 0]
  <2>1. d \in VenueDevice /\ broadcasts' \in Seq(VenueDevice) /\ UNCHANGED <<placed, apart>>
    BY <1>5 DEF VenueInv, SendToVenue
  <2>2. placed[d] \in VenueSite /\ l \in Lists
    BY <1>5, <2>1, AgesGrow DEF VenueInv, AskProv
  <2>3. \A x, y \in l.devices : apart[x][y] = 0
    BY <1>5 DEF VenueInv, AskProv
  <2>4. l.age = 0
    OBVIOUS
  <2>5. UNCHANGED venues \/ venues' = [venues EXCEPT ![placed[d]] = l]
    BY <1>5 DEF SendToVenue
  <2> HIDE DEF l
  <2>6. venues' \in [VenueSite -> Lists]
    BY <1>5, <2>2, <2>5 DEF VenueInv
  <2>7. ASSUME NEW w \in VenueSite, NEW x \in venues'[w].devices, NEW y \in venues'[w].devices
        PROVE  apart[x][y] <= venues'[w].age
    <3>1. CASE venues'[w] = venues[w]
      BY <1>5, <2>7, <3>1 DEF VenueInv
    <3>2. CASE venues'[w] = l
      BY <2>3, <2>4, <2>7, <3>2
    <3> QED
      BY <1>5, <2>5, <3>1, <3>2 DEF VenueInv
  <2> QED
    BY <1>5, <2>1, <2>6, <2>7 DEF VenueInv
<1>6. VenueInv /\ UNCHANGED venueVars => VenueInv'
  BY DEF VenueInv, venueVars
<1>7. VenueInv /\ [VenueNext]_venueVars => VenueInv'
  BY <1>2, <1>3, <1>4, <1>5, <1>6 DEF VenueNext
<1>8. ASSUME VenueInv, VenueNext, Len(broadcasts') < Len(broadcasts), reached' # <<>>
      PROVE  \A e \in reached'[2] : apart[reached'[1]][e] < ValidFor
  <2>1. SendToVenue
    <3>1. Len(broadcasts) \in Nat /\ broadcasts' # broadcasts
      BY <1>8 DEF VenueInv
    <3>2. \A d \in VenueDevice, v \in VenueSite : ~Move(d, v)
      BY <3>1 DEF Move
    <3>3. ~VenueTick
      BY <3>1 DEF VenueTick
    <3>4. ASSUME NEW d \in VenueDevice, Broadcast(d) PROVE FALSE
      <4>1. Len(broadcasts') = Len(broadcasts) + 1
        BY <1>8, <3>4 DEF Broadcast, VenueInv
      <4> QED
        BY <1>8, <3>1, <4>1
    <3> QED
      BY <1>8, <3>2, <3>3, <3>4 DEF VenueNext
  <2> DEFINE d == Head(broadcasts)
  <2>2. d \in VenueDevice
    BY <1>8, <2>1 DEF VenueInv, SendToVenue
  <2>3. CASE \E v \in ListedAt(d) : reached' = <<d, venues[v].devices \ {d}>>
    <3>1. PICK v \in ListedAt(d) : reached' = <<d, venues[v].devices \ {d}>>
      BY <2>3
    <3>2. /\ v \in VenueSite /\ d \in venues[v].devices /\ venues[v].age < ValidFor
          /\ venues[v].age \in Ages
      BY <1>8 DEF ListedAt, VenueInv
    <3>3. ASSUME NEW e \in venues[v].devices PROVE apart[d][e] < ValidFor
      <4>1. apart[d][e] <= venues[v].age /\ apart[d][e] \in Ages
        BY <1>8, <3>2 DEF VenueInv
      <4> QED
        BY <3>2, <4>1, VenueAssumption DEF Ages, TooOld
    <3> QED
      BY <3>1, <3>3
  <2>4. CASE reached' = <<d, AskProv(d) \ {d}>>
    <3>1. \A e \in AskProv(d) : apart[d][e] = 0
      BY <1>8, <2>2 DEF VenueInv, AskProv
    <3> QED
      BY <2>4, <3>1, VenueAssumption
  <2> QED
    BY <1>8, <2>1, <2>3, <2>4 DEF SendToVenue
<1>9. VenueInv /\ [VenueNext]_venueVars =>
        [(Len(broadcasts') < Len(broadcasts) /\ reached' # <<>>) =>
           \A e \in reached'[2] : apart[reached'[1]][e] < ValidFor]_venueVars
  BY <1>8
<1> QED
  BY <1>1, <1>7, <1>9, PTL DEF VenueSpec, BroadcastIsRecent

-----------------------------------------------------------------------------
(* Records. *)

RecInv ==
    /\ now \in Nat
    /\ \A r \in records : r.Recorded \in Nat

LEMMA RecHolds == RecSpec => ArchivesOnlyOld
<1>1. Hours \in Nat /\ Minutes \in Nat /\ Seconds \in Nat /\ Keep \in Nat
  BY RecordsAssumption
<1>2. Day \in Nat
  BY <1>1 DEF Day
<1>3. Keep * Day \in Nat
  BY <1>1, <1>2
<1>4. RecInit => RecInv
  BY <1>2 DEF RecInit, RecInv
<1>5. RecInv /\ [RecNext]_recVars => RecInv'
  <2> SUFFICES ASSUME RecInv, [RecNext]_recVars PROVE RecInv'
    OBVIOUS
  <2>1. CASE Add
    BY <2>1 DEF Add, RecInv
  <2>2. CASE OnTimer
    BY <2>2 DEF OnTimer, RemoveRecordsOlderThan, Discard, RecInv
  <2>3. CASE ReadFirst \/ ReadPage \/ ReadDone
    BY <2>3 DEF ReadFirst, ReadPage, ReadDone, RecInv
  <2>4. CASE Tick
    BY <2>4 DEF Tick, RecInv
  <2>5. ASSUME NEW from, NEW to, NEW type, Delete(from, to, type) PROVE RecInv'
    BY <2>5 DEF Delete, Discard, RecInv
  <2>6. CASE UNCHANGED recVars
    BY <2>6 DEF recVars, RecInv
  <2> QED
    BY <2>1, <2>2, <2>3, <2>4, <2>5, <2>6 DEF RecNext
<1>6. ASSUME RecInv, RecNext, nextRun' # nextRun, NEW r \in records \ records'
      PROVE  now - r.Recorded > Keep * Day
  <2>1. OnTimer
    BY <1>6 DEF RecNext, Add, ReadFirst, ReadPage, ReadDone, Tick, Delete
  <2>2. r.Recorded < now - Keep * Day
    BY <1>6, <2>1 DEF OnTimer, RemoveRecordsOlderThan, Discard
  <2> QED
    BY <1>3, <1>6, <2>2 DEF RecInv
<1>7. RecInv /\ [RecNext]_recVars =>
        [nextRun' # nextRun => \A r \in records \ records' : now - r.Recorded > Keep * Day]_recVars
  BY <1>6
<1> QED
  BY <1>4, <1>5, <1>7, PTL DEF RecSpec, ArchivesOnlyOld

-----------------------------------------------------------------------------
(* Records: when the archiver runs. *)

LEMMA LeastNumber ==
    ASSUME NEW T \in SUBSET Nat, T # {}
    PROVE  \E n \in T : \A m \in T : n <= m
<1>1. PICK n \in T : \A m \in T : ~(<<m, n>> \in OpToRel(<, Nat))
    BY NatLessThanWellFounded, WFMin, Zenon
<1>2. \A m \in T : ~(m < n)
    BY <1>1, Zenon DEF OpToRel
<1> QED BY <1>2

LEMMA NoMultipleBetween ==
    ASSUME NEW n \in Nat \ {0}, NEW k \in Int, -n < n * k, n * k < n
    PROVE  k = 0
<1>1. CASE k >= 1
    <2>1. n * k >= n * 1
        BY <1>1
    <2> QED BY <2>1
<1>2. CASE k <= -1
    <2>1. n * k <= n * (-1)
        BY <1>2
    <2> QED BY <2>1
<1> QED BY <1>1, <1>2

LEMMA DivisionIs ==
    ASSUME NEW n \in Nat \ {0}, NEW x \in Int
    PROVE  /\ x \div n \in Int /\ x % n \in 0..(n - 1)
           /\ x = n * (x \div n) + (x % n)
<1>1. x \div n \in Int
    OBVIOUS
<1>2. x % n \in 0..(n - 1)
    OBVIOUS
<1>3. x = n * (x \div n) + (x % n)
    OBVIOUS
<1> QED BY <1>1, <1>2, <1>3

LEMMA RemainderIs ==
    ASSUME NEW n \in Nat \ {0}, NEW q \in Int, NEW r \in 0..(n - 1)
    PROVE  (n * q + r) % n = r /\ (n * q + r) \div n = q
<1> DEFINE x == n * q + r
<1>1. x \in Int
    OBVIOUS
<1>2. PICK p, s \in Int : /\ p = x \div n /\ s = x % n
                          /\ s \in 0..(n - 1) /\ x = n * p + s
    BY <1>1, DivisionIs
<1>3. n * (p - q) = r - s
    BY <1>2
<1>4. p - q = 0
    BY <1>2, <1>3, NoMultipleBetween
<1> QED BY <1>2, <1>3, <1>4

Scheduled == (RunAtHour * Minutes + RunAtMin) * Seconds

(* Multiples of a length, in steps that the provers take.                  *)
LEMMA LargerProduct ==
    ASSUME NEW n \in Nat, NEW a \in Int, NEW b \in Int, a <= b
    PROVE  n * a <= n * b
<1>1. n * (b - a) >= 0
    OBVIOUS
<1> QED BY <1>1

LEMMA ProductOfSum ==
    ASSUME NEW n \in Int, NEW a \in Int, NEW b \in Int
    PROVE  n * (a + b) = n * a + n * b
OBVIOUS

(* The time of day t, of a day of as many hours, minutes and seconds.      *)
LEMMA TimeOfDay ==
    ASSUME NEW s \in Nat
    PROVE  \E c \in 0..(Seconds - 1) :
             LET hour == s \div (Minutes * Seconds)
                 minute == (s \div Seconds) % Minutes
             IN  /\ hour \in Int /\ minute \in 0..(Minutes - 1)
                 /\ s = (Minutes * Seconds) * hour + Seconds * minute + c
<1>1. Minutes \in Nat \ {0} /\ Seconds \in Nat \ {0}
    BY RecordsAssumption
<1>2. PICK x \in Int, c \in 0..(Seconds - 1) : x = s \div Seconds /\ s = Seconds * x + c
    BY <1>1, DivisionIs
<1>3. PICK y \in Int, m \in 0..(Minutes - 1) : /\ m = x % Minutes /\ x = Minutes * y + m
    BY <1>1, DivisionIs
<1>4. PICK MS \in Nat \ {0} : MS = Minutes * Seconds
    BY <1>1
<1>5. Seconds * m <= Seconds * (Minutes - 1)
    BY <1>1, <1>3, LargerProduct
<1>6. Seconds * (Minutes - 1) = MS - Seconds
    BY <1>1, <1>4
<1>7. PICK z \in Nat : z = Seconds * m
    BY <1>1, <1>3
<1>8. z + c \in 0..(MS - 1)
    BY <1>1, <1>2, <1>4, <1>5, <1>6, <1>7
<1>9. s = MS * y + (z + c)
    <2>1. Seconds * x = Seconds * (Minutes * y) + Seconds * m
        <3>1. PICK w \in Int : w = Minutes * y
            BY <1>1, <1>3
        <3> QED BY <1>1, <1>3, <3>1, ProductOfSum
    <2>2. Seconds * (Minutes * y) = MS * y
        BY <1>1, <1>3, <1>4
    <2> QED BY <1>2, <1>7, <2>1, <2>2
<1>10. s \div MS = y
    BY <1>4, <1>8, <1>9, RemainderIs
<1>11. s = (Minutes * Seconds) * y + Seconds * m + c
    <2>1. PICK p \in Int : p = MS * y
        BY <1>3, <1>4
    <2>2. s = p + (z + c) /\ z + c \in Int
        BY <1>8, <1>9, <2>1
    <2>3. s = p + z + c
        BY <2>2
    <2> QED BY <1>4, <1>7, <2>1, <2>3
<1> QED BY <1>2, <1>3, <1>4, <1>10, <1>11

(* The first run of the archiver is at its time of day, within a day.      *)
LEMMA DeltaIs ==
    ASSUME NEW t \in Nat
    PROVE  LET d == CalculateDelta(t, RunAtHour, RunAtMin)
           IN  d \in 1..Day /\ (t + d - Scheduled) % Day = 0
<1>1. /\ Minutes \in Nat \ {0} /\ Seconds \in Nat \ {0} /\ Hours \in Nat \ {0}
      /\ RunAtHour \in 0..(Hours - 1) /\ RunAtMin \in 0..(Minutes - 1)
    BY RecordsAssumption
<1>2. PICK MS \in Nat \ {0} : MS = Minutes * Seconds
    BY <1>1
<1>3. Day = MS * Hours /\ Day \in Nat \ {0}
    BY <1>1, <1>2 DEF Day
<1>4. PICK q \in Int, s \in 0..(Day - 1) : s = t % Day /\ t = Day * q + s
    <2>1. PICK n \in Nat \ {0} : n = Day
        BY <1>3
    <2>2. t \div n \in Int /\ t % n \in 0..(n - 1) /\ t = n * (t \div n) + (t % n)
        BY <2>1, DivisionIs
    <2> QED BY <2>1, <2>2
<1>5. PICK hour \in Int, minute \in 0..(Minutes - 1), c \in 0..(Seconds - 1) :
           /\ hour = s \div MS /\ minute = (s \div Seconds) % Minutes
           /\ s = MS * hour + Seconds * minute + c
    <2>1. s \in Nat
        BY <1>3, <1>4
    <2>2. PICK c \in 0..(Seconds - 1) :
             LET hour == s \div (Minutes * Seconds)
                 minute == (s \div Seconds) % Minutes
             IN  /\ hour \in Int /\ minute \in 0..(Minutes - 1)
                 /\ s = (Minutes * Seconds) * hour + Seconds * minute + c
        BY <2>1, TimeOfDay
    <2> QED BY <1>2, <2>2
<1>6. PICK H, M \in Nat : H = RunAtHour /\ M = RunAtMin /\ M <= Minutes - 1 /\ H <= Hours - 1
    BY <1>1
<1>7. PICK S \in Nat : S = Scheduled /\ S = MS * H + Seconds * M
    <2>1. (H * Minutes + M) * Seconds = MS * H + Seconds * M
        BY <1>1, <1>2, <1>6
    <2>2. MS * H \in Nat /\ Seconds * M \in Nat
        BY <1>1, <1>6
    <2> QED BY <1>6, <2>1, <2>2 DEF Scheduled
<1>8. Seconds * M <= MS - Seconds /\ Seconds * minute <= MS - Seconds
      /\ Seconds * minute >= 0 /\ Seconds * M >= 0
    <2>1. Seconds * M <= Seconds * (Minutes - 1) /\ Seconds * minute <= Seconds * (Minutes - 1)
        <3>1. Seconds \in Nat /\ Minutes - 1 \in Int /\ M \in Int /\ minute \in Int
            BY <1>1, <1>5, <1>6
        <3>2. M <= Minutes - 1 /\ minute <= Minutes - 1
            BY <1>1, <1>5, <1>6
        <3> QED BY ONLY <3>1, <3>2, LargerProduct
    <2>2. Seconds * (Minutes - 1) = MS - Seconds
        BY <1>1, <1>2
    <2>3. Seconds * minute >= 0 /\ Seconds * M >= 0
        BY <1>1, <1>5, <1>6
    <2> QED BY <2>1, <2>2, <2>3
<1>9. S < Day
    <2>1. MS * H <= MS * (Hours - 1)
        BY <1>1, <1>6, LargerProduct
    <2>2. MS * (Hours - 1) = Day - MS
        BY <1>1, <1>3
    <2> QED BY <1>1, <1>3, <1>7, <1>8, <2>1, <2>2
<1>10. PICK a, b, x, y \in Int : /\ a = MS * hour /\ b = MS * H
                                 /\ x = Seconds * minute /\ y = Seconds * M
    BY <1>1, <1>5, <1>6
<1>11. /\ hour < H => a + MS <= b
       /\ H < hour => b + MS <= a
       /\ minute < M => x + Seconds <= y
       /\ M <= minute => y <= x
    <2>0. /\ MS \in Nat /\ Seconds \in Nat /\ MS * 1 = MS /\ Seconds * 1 = Seconds
          /\ hour \in Int /\ H \in Int /\ minute \in Int /\ M \in Int
          /\ hour + 1 \in Int /\ H + 1 \in Int /\ minute + 1 \in Int
        BY <1>1, <1>5, <1>6
    <2>1. hour + 1 <= H => MS * (hour + 1) <= b
        BY ONLY <2>0, <1>10, LargerProduct
    <2>2. H + 1 <= hour => MS * (H + 1) <= a
        BY ONLY <2>0, <1>10, LargerProduct
    <2>3. minute + 1 <= M => Seconds * (minute + 1) <= y
        BY ONLY <2>0, <1>10, LargerProduct
    <2>4. M <= minute => y <= x
        BY ONLY <2>0, <1>10, LargerProduct
    <2>5. MS * (hour + 1) = a + MS /\ MS * (H + 1) = b + MS
        <3>1. MS * (hour + 1) = MS * hour + MS * 1 /\ MS * (H + 1) = MS * H + MS * 1
            BY ONLY <2>0, ProductOfSum
        <3> QED BY <1>10, <2>0, <3>1
    <2>6. Seconds * (minute + 1) = x + Seconds
        <3>1. Seconds * (minute + 1) = Seconds * minute + Seconds * 1
            BY ONLY <2>0, ProductOfSum
        <3> QED BY <1>10, <2>0, <3>1
    <2> QED BY <1>5, <1>6, <2>1, <2>2, <2>3, <2>4, <2>5, <2>6
<1>12. s = a + x + c /\ S = b + y /\ x <= MS - Seconds /\ y <= MS - Seconds /\ x >= 0 /\ y >= 0
    BY <1>5, <1>7, <1>8, <1>10
<1>13. IF hour < H \/ (hour = H /\ minute < M) THEN s < S ELSE S <= s
    <2>1. hour = H => a = b
        BY <1>10
    <2>2. /\ hour \in Int /\ H \in Int /\ minute \in Int /\ M \in Int
          /\ MS \in Nat \ {0} /\ Seconds \in Nat \ {0} /\ c \in 0..(Seconds - 1)
        BY <1>1, <1>5, <1>6
    <2> QED BY ONLY <1>10, <1>11, <1>12, <2>1, <2>2
<1>14. PICK d : d = CalculateDelta(t, RunAtHour, RunAtMin)
    OBVIOUS
<1>15. d = IF hour < H \/ (hour = H /\ minute < M) THEN S - s ELSE Day - (s - S)
    BY <1>2, <1>4, <1>5, <1>6, <1>7, <1>14 DEF CalculateDelta, Scheduled
<1>16. d \in 1..Day /\ \E k \in Int : t + d - S = Day * k
    <2>0. PICK D \in Nat \ {0}, p \in Int : D = Day /\ p = Day * q /\ t = p + s /\ s \in 0..(D - 1)
        BY <1>3, <1>4
    <2>1. CASE s < S /\ d = S - s
        <3>1. d \in 1..Day /\ t + d - S = Day * q
            BY ONLY <1>7, <1>9, <2>0, <2>1
        <3> QED BY <3>1
    <2>2. CASE S <= s /\ d = Day - (s - S)
        <3>1. Day * (q + 1) = Day * q + Day
            BY <1>3
        <3>2. d \in 1..Day /\ t + d - S = Day * q + Day
            BY ONLY <1>7, <2>0, <2>2
        <3> QED BY <3>1, <3>2
    <2> QED BY <1>13, <1>15, <2>1, <2>2
<1>17. PICK k \in Int : t + d - S = Day * k + 0
    BY <1>3, <1>16
<1>18. (Day * k + 0) % Day = 0
    BY <1>3, RemainderIs
<1> QED BY <1>7, <1>14, <1>16, <1>17, <1>18


-----------------------------------------------------------------------------
(* Records: which there are. *)

Row_(types) == [id : 1..MaxRecords, Recorded : Nat, LogType : types]

(* An id names one row, and no row is of the future.                       *)
RecTypes ==
    /\ table \in {"Statistics", "HealthChecks", "DeviceLogs"}
    /\ now \in Nat /\ nextRun \in Nat
    /\ IsFiniteSet(records) /\ records \subseteq Row_(RecordTypes)
    /\ \A r \in records : r.Recorded <= now
    /\ \A r, s \in records : r.id = s.id => r = s

(* The next run is at its time of day, within a day, and what is older     *)
(* than it allows went with the last one.                                  *)
Timely ==
    /\ now <= nextRun /\ nextRun <= now + Day
    /\ (nextRun - Scheduled) % Day = 0
    /\ \A r \in records : nextRun <= r.Recorded + (Keep + 1) * Day

LEMMA DayIs ==
    /\ Day \in Nat \ {0} /\ Keep \in Nat /\ Scheduled \in Nat
    /\ Keep * Day \in Nat /\ (Keep + 1) * Day = Keep * Day + Day
<1>1. /\ Hours \in Nat \ {0} /\ Minutes \in Nat \ {0} /\ Seconds \in Nat \ {0}
      /\ Keep \in Nat /\ RunAtHour \in Nat /\ RunAtMin \in Nat
    BY RecordsAssumption
<1>2. Day \in Nat \ {0}
    BY <1>1 DEF Day
<1>3. Scheduled \in Nat
    BY <1>1 DEF Scheduled
<1>4. PICK n \in Nat \ {0} : n = Day
    BY <1>2
<1>5. Keep * n \in Nat /\ (Keep + 1) * n = Keep * n + n
    BY <1>1
<1> QED BY <1>1, <1>2, <1>3, <1>4, <1>5

LEMMA FreshIdIs ==
    ASSUME RecTypes, Cardinality(records) < MaxRecords
    PROVE  FreshId \in 1..MaxRecords /\ \A r \in records : r.id # FreshId
<1>1. MaxRecords \in Nat
    BY RecordsAssumption
<1>2. \E id \in 1..MaxRecords : \A r \in records : r.id # id
    <2> SUFFICES ASSUME \A id \in 1..MaxRecords : \E r \in records : r.id = id
                 PROVE  FALSE
        OBVIOUS
    <2> DEFINE f == [r \in records |-> r.id]
    <2>1. f \in Surjection(records, 1..MaxRecords)
        BY DEF Surjection, RecTypes, Row_
    <2>2. Cardinality(1..MaxRecords) <= Cardinality(records)
        BY <2>1, FS_Surjection DEF RecTypes
    <2>3. Cardinality(1..MaxRecords) = MaxRecords
        BY <1>1, FS_Interval
    <2>4. Cardinality(records) \in Nat
        BY FS_CardinalityType DEF RecTypes
    <2> QED BY <1>1, <2>2, <2>3, <2>4
<1> QED BY <1>2 DEF FreshId

(* The row that a device adds.                                             *)
NewRow(type) == [id |-> FreshId, Recorded |-> now, LogType |-> type]

LEMMA AddedRow ==
    ASSUME RecTypes, NEW type \in RecordTypes, Cardinality(records) < MaxRecords
    PROVE  /\ NewRow(type) \in Row_(RecordTypes)
           /\ NewRow(type).Recorded = now /\ NewRow(type).LogType = type
           /\ NewRow(type).id = FreshId
           /\ \A r \in records : r.id # NewRow(type).id
<1>1. now \in Nat
    BY DEF RecTypes
<1> QED BY <1>1, FreshIdIs DEF NewRow, Row_

(* Rows only go, the clock stays and the reader, if any, is discarded.     *)
LEMMA DiscardKeepsTypes ==
    ASSUME RecTypes, NEW gone, Discard(gone), now' = now, nextRun' \in Nat, UNCHANGED table
    PROVE  RecTypes' /\ records' \subseteq records
<1>1. records' \subseteq records /\ IsFiniteSet(records')
    <2>1. records' = records \ gone
        BY DEF Discard
    <2> QED BY <2>1, FS_Difference DEF RecTypes
<1>2. RecordTypes' = RecordTypes
    BY DEF RecordTypes
<1> QED BY <1>1, <1>2 DEF RecTypes, Row_

LEMMA RecTypesKept == RecTypes /\ [RecNext]_recVars => RecTypes'
<1> SUFFICES ASSUME RecTypes, [RecNext]_recVars PROVE RecTypes'
    OBVIOUS
<1>1. CASE Add
    <2>1. PICK type \in RecordTypes : records' = records \cup {NewRow(type)}
        BY <1>1 DEF Add, NewRow
    <2>2. Cardinality(records) < MaxRecords /\ UNCHANGED <<table, now, nextRun>>
        BY <1>1 DEF Add
    <2>3. PICK n : n = NewRow(type)
        OBVIOUS
    <2>4. /\ n \in Row_(RecordTypes) /\ n.Recorded = now
          /\ \A r \in records : r.id # n.id
        BY <2>2, <2>3, AddedRow
    <2>5. IsFiniteSet(records') /\ records' = records \cup {n}
        BY <2>1, <2>3, FS_AddElement DEF RecTypes
    <2>6. RecordTypes' = RecordTypes
        BY <2>2 DEF RecordTypes
    <2> QED BY <2>2, <2>4, <2>5, <2>6 DEF RecTypes, Row_
<1>2. CASE OnTimer
    <2>1. Discard({r \in records : r.Recorded < now - Keep * Day})
        BY <1>2 DEF OnTimer, RemoveRecordsOlderThan
    <2>2. now' = now /\ table' = table /\ nextRun' \in Nat
        BY <1>2, DayIs DEF OnTimer, RecTypes
    <2> QED BY <2>1, <2>2, DiscardKeepsTypes
<1>3. CASE ReadFirst \/ ReadPage \/ ReadDone \/ UNCHANGED recVars
    <2>1. UNCHANGED <<table, records, now, nextRun>>
        BY <1>3 DEF ReadFirst, ReadPage, ReadDone, recVars
    <2> QED BY <2>1 DEF RecTypes, Row_, RecordTypes
<1>4. CASE Tick
    BY <1>4 DEF Tick, RecTypes, Row_, RecordTypes
<1>5. ASSUME NEW from, NEW to, NEW type, Delete(from, to, type) PROVE RecTypes'
    <2>1. Discard(Selected(from, to, type)) /\ UNCHANGED <<table, now, nextRun>>
        BY <1>5 DEF Delete
    <2> QED BY <2>1, DiscardKeepsTypes DEF RecTypes
<1> QED BY <1>1, <1>2, <1>3, <1>4, <1>5 DEF RecNext

LEMMA TimelyKept == RecTypes /\ Timely /\ [RecNext]_recVars => Timely'
<1> SUFFICES ASSUME RecTypes, Timely, [RecNext]_recVars PROVE Timely'
    OBVIOUS
<1>0. RecTypes'
    BY RecTypesKept
<1>1. CASE Add
    <2>1. PICK type \in RecordTypes : records' = records \cup {NewRow(type)}
        BY <1>1 DEF Add, NewRow
    <2>2. UNCHANGED <<now, nextRun>> /\ NewRow(type).Recorded = now
        BY <1>1 DEF Add, NewRow
    <2>3. nextRun <= now + (Keep + 1) * Day
        BY DayIs DEF Timely, RecTypes
    <2> QED BY <2>1, <2>2, <2>3 DEF Timely
<1>2. CASE OnTimer
    <2>1. /\ records' = {r \in records : r.Recorded >= now - Keep * Day}
          /\ nextRun' = nextRun + Day /\ now' = now /\ now = nextRun
        <3>1. /\ records' = records \ {r \in records : r.Recorded < now - Keep * Day}
              /\ nextRun' = nextRun + Day /\ now' = now /\ now >= nextRun
            BY <1>2 DEF OnTimer, RemoveRecordsOlderThan, Discard
        <3>2. \A r \in records : r.Recorded \in Nat
            BY DEF RecTypes, Row_
        <3> QED BY <3>1, <3>2, DayIs DEF Timely, RecTypes
    <2>2. \A r \in records' : nextRun' <= r.Recorded + (Keep + 1) * Day
        <3> SUFFICES ASSUME NEW r \in records' PROVE nextRun' <= r.Recorded + (Keep + 1) * Day
            OBVIOUS
        <3>1. r.Recorded \in Nat /\ r.Recorded >= now - Keep * Day
            BY <2>1 DEF RecTypes, Row_
        <3> QED BY <2>1, <3>1, DayIs DEF RecTypes
    <2>3. (nextRun' - Scheduled) % Day = 0
        <3>1. PICK n \in Nat \ {0}, x \in Int : n = Day /\ x = nextRun - Scheduled
            BY DayIs DEF RecTypes
        <3>2. PICK q \in Int : x = n * q
            <4>1. x \div n \in Int /\ x = n * (x \div n) + (x % n) /\ x % n = 0
                BY <3>1, DivisionIs DEF Timely
            <4>2. PICK p \in Int : p = n * (x \div n)
                BY <4>1
            <4> QED BY <4>1, <4>2
        <3>3. (n * (q + 1) + 0) % n = 0
            BY RemainderIs
        <3>4. n * (q + 1) = n * q + n * 1
            BY ProductOfSum
        <3>5. nextRun' - Scheduled = n * (q + 1) + 0
            BY <2>1, <3>1, <3>2, <3>4, DayIs DEF RecTypes
        <3> QED BY <3>1, <3>3, <3>5
    <2>4. now' <= nextRun' /\ nextRun' <= now' + Day
        BY <2>1, DayIs DEF RecTypes
    <2> QED BY <2>2, <2>3, <2>4 DEF Timely
<1>3. CASE ReadFirst \/ ReadPage \/ ReadDone \/ UNCHANGED recVars
    BY <1>3 DEF ReadFirst, ReadPage, ReadDone, recVars, Timely
<1>4. CASE Tick
    BY <1>4, DayIs DEF Tick, RecTypes, Timely
<1>5. ASSUME NEW from, NEW to, NEW type, Delete(from, to, type) PROVE Timely'
    BY <1>5 DEF Delete, Discard, Timely
<1> QED BY <1>1, <1>2, <1>3, <1>4, <1>5 DEF RecNext

LEMMA TimelyAtFirst == RecInit => RecTypes /\ Timely
<1> SUFFICES ASSUME RecInit PROVE RecTypes /\ Timely
    OBVIOUS
<1>1. PICK d : d = CalculateDelta(now, RunAtHour, RunAtMin)
    OBVIOUS
<1>2. now \in 1..Day /\ records = {} /\ nextRun = now + d /\ table \in {"Statistics", "HealthChecks", "DeviceLogs"}
    BY <1>1 DEF RecInit
<1>3. d \in 1..Day /\ (now + d - Scheduled) % Day = 0
    BY <1>1, <1>2, DayIs, DeltaIs
<1>4. RecTypes
    BY <1>2, <1>3, DayIs, FS_EmptySet DEF RecTypes
<1>5. Timely
    BY <1>2, <1>3, DayIs DEF Timely
<1> QED BY <1>4, <1>5

LEMMA TimelyIsInTime == RecTypes /\ Timely => ArchivedInTime
<1> SUFFICES ASSUME RecTypes, Timely PROVE ArchivedInTime
    OBVIOUS
<1>1. ASSUME NEW r \in records PROVE now - r.Recorded <= (Keep + 1) * Day
    <2>1. r.Recorded \in Nat /\ nextRun <= r.Recorded + (Keep + 1) * Day /\ now <= nextRun
        BY DEF RecTypes, Row_, Timely
    <2> QED BY <2>1, DayIs DEF RecTypes
<1>2. nextRun - now <= Day
    BY DayIs DEF RecTypes, Timely
<1> QED BY <1>1, <1>2 DEF ArchivedInTime, Timely, Scheduled

-----------------------------------------------------------------------------
(* Records: the WHERE clause of a request. *)

Word == {"WHERE", "AND", "SerialNumber", "Recorded>=", "Recorded<=", "LogType"}

LEMMA TwoParts ==
    ASSUME NEW S, NEW a \in Seq(S), NEW b \in Seq(S)
    PROVE  /\ a \o b \in Seq(S) /\ Len(a \o b) = Len(a) + Len(b)
           /\ \A i \in 1..Len(a) : (a \o b)[i] = a[i]
           /\ \A i \in 1..Len(b) : (a \o b)[Len(a) + i] = b[i]
<1>1. PICK m, n \in Nat : m = Len(a) /\ n = Len(b)
    OBVIOUS
<1>2. PICK w : w = a \o b
    OBVIOUS
<1>3. w \in Seq(S) /\ Len(w) = m + n
      /\ \A i \in 1..(m + n) : w[i] = IF i <= m THEN a[i] ELSE b[i - m]
    BY <1>1, <1>2, ConcatProperties
<1>4. ASSUME NEW i \in 1..m PROVE w[i] = a[i]
    BY <1>3
<1>5. ASSUME NEW i \in 1..n PROVE w[m + i] = b[i]
    <2>1. PICK j \in 1..(m + n) : j = m + i
        OBVIOUS
    <2>2. ~(j <= m) /\ j - m = i
        BY <2>1
    <2> QED BY <1>3, <2>1, <2>2
<1> QED BY <1>1, <1>2, <1>3, <1>4, <1>5

(* What may stand behind a condition: further ones, each behind an AND.    *)
Further(w) ==
    /\ w \in Seq(Word) /\ Len(w) % 2 = 0
    /\ \A i \in 1..Len(w) : /\ w[i] \in {"WHERE", "AND"} <=> i % 2 = 1
                            /\ w[i] # "WHERE"

Clause(w) == w \in Seq(Word) /\ Clean(w)

LEMMA ClauseGoesOn ==
    ASSUME NEW a, Clause(a), Len(a) > 0, NEW b, Further(b)
    PROVE  Clause(a \o b) /\ Len(a \o b) > 0
<1>1. PICK m, n \in Nat : m = Len(a) /\ n = Len(b)
    BY DEF Clause, Further
<1>2. PICK w : w = a \o b
    OBVIOUS
<1>3. /\ w \in Seq(Word) /\ Len(w) = m + n
      /\ \A i \in 1..(m + n) : w[i] = IF i <= m THEN a[i] ELSE b[i - m]
    BY <1>1, <1>2, ConcatProperties DEF Clause, Further
<1>4. DOMAIN w = 1..(m + n) /\ DOMAIN a = 1..m
    BY <1>1, <1>3 DEF Clause
<1>5. m % 2 = 0 /\ n % 2 = 0 /\ m > 0
    BY <1>1 DEF Clause, Clean, Further
<1>6. ASSUME NEW i \in 1..(m + n)
      PROVE  (w[i] \in {"WHERE", "AND"} <=> i % 2 = 1) /\ (w[i] = "WHERE" <=> i = 1)
    <2>1. CASE i <= m
        BY <1>3, <1>4, <2>1 DEF Clause, Clean
    <2>2. CASE i > m
        <3>1. PICK j \in 1..n : j = i - m
            BY <2>2
        <3>2. w[i] = b[j]
            BY <1>3, <2>2, <3>1
        <3>3. i % 2 = j % 2 /\ i # 1
            BY <1>5, <2>2, <3>1
        <3> QED BY <1>1, <3>2, <3>3 DEF Further
    <2> QED BY <2>1, <2>2
<1>7. (m + n) % 2 = 0
    BY <1>5
<1>8. Clean(w)
    <2>1. \A i \in DOMAIN w : w[i] \in {"WHERE", "AND"} <=> i % 2 = 1
        BY <1>4, <1>6, Zenon
    <2>2. \A i \in DOMAIN w : w[i] = "WHERE" <=> i = 1
        BY <1>4, <1>6, Zenon
    <2> QED BY <1>3, <1>7, <2>1, <2>2, Zenon DEF Clean
<1>9. Clause(w)
    BY <1>3, <1>8 DEF Clause
<1> QED BY <1>1, <1>2, <1>3, <1>5, <1>9

LEMMA WordsOf ==
    ASSUME NEW S, NEW a \in Seq(S), NEW b \in Seq(S)
    PROVE  ToSet(a \o b) = ToSet(a) \cup ToSet(b)
<1>1. PICK m, n \in Nat : m = Len(a) /\ n = Len(b)
    OBVIOUS
<1>2. PICK w : w = a \o b
    OBVIOUS
<1>3. /\ w \in Seq(S) /\ Len(w) = m + n
      /\ (\A i \in 1..m : w[i] = a[i]) /\ \A i \in 1..n : w[m + i] = b[i]
    BY <1>1, <1>2, TwoParts
<1>4. DOMAIN w = 1..(m + n) /\ DOMAIN a = 1..m /\ DOMAIN b = 1..n
    BY <1>1, <1>3
<1>5. ASSUME NEW i \in 1..(m + n) PROVE w[i] \in ToSet(a) \cup ToSet(b)
    <2>1. CASE i <= m
        <3>1. i \in 1..m /\ w[i] = a[i]
            BY <1>3, <2>1
        <3> QED BY <1>4, <3>1 DEF ToSet
    <2>2. CASE i > m
        <3>1. PICK j \in 1..n : i = m + j
            BY <2>2
        <3> QED BY <1>3, <1>4, <3>1 DEF ToSet
    <2> QED BY <2>1, <2>2
<1>6. ASSUME NEW i \in 1..n PROVE b[i] \in ToSet(w)
    <2>1. PICK j \in 1..(m + n) : j = m + i
        OBVIOUS
    <2> QED BY <1>3, <1>4, <2>1 DEF ToSet
<1>7. ASSUME NEW i \in 1..m PROVE a[i] \in ToSet(w)
    BY <1>3, <1>4 DEF ToSet
<1>8. ToSet(w) \subseteq ToSet(a) \cup ToSet(b)
    BY <1>4, <1>5 DEF ToSet
<1>9. ToSet(a) \subseteq ToSet(w) /\ ToSet(b) \subseteq ToSet(w)
    BY <1>4, <1>6, <1>7 DEF ToSet
<1> QED BY <1>2, <1>8, <1>9

LEMMA DatesAre ==
    ASSUME NEW from, NEW to
    PROVE  LET c == DateSelector(from, to)
           IN  \/ from = 0 /\ to = 0 /\ c = <<>>
               \/ from # 0 /\ to = 0 /\ c = <<"Recorded>=">>
               \/ from = 0 /\ to # 0 /\ c = <<"Recorded<=">>
               \/ from # 0 /\ to # 0 /\ c = <<"Recorded>=", "AND", "Recorded<=">>
<1>1. CASE from = 0 /\ to = 0
    BY <1>1 DEF DateSelector
<1>2. CASE from # 0 /\ to = 0
    BY <1>2 DEF DateSelector
<1>3. CASE from = 0 /\ to # 0
    BY <1>3 DEF DateSelector
<1>4. CASE from # 0 /\ to # 0
    BY <1>4 DEF DateSelector
<1> QED BY <1>1, <1>2, <1>3, <1>4

(* A date selector behind k.                                               *)
LEMMA OneWordFirst ==
    ASSUME NEW k \in Word, NEW x \in Word, NEW u, u = <<k>> \o <<x>>
    PROVE  u = <<k, x>>
<1>1. <<k>> \in Seq(Word) /\ Len(<<k>>) = 1 /\ <<x>> \in Seq(Word) /\ Len(<<x>>) = 1
    OBVIOUS
<1>2. u \in Seq(Word) /\ Len(u) = 2 /\ u[1] = k /\ u[2] = x
    BY <1>1, ConcatProperties
<1>3. PICK p : p = <<k, x>> /\ p \in Seq(Word) /\ Len(p) = 2 /\ p[1] = k /\ p[2] = x
    <2>1. <<k, x>> \in Seq(Word) /\ Len(<<k, x>>) = 2 /\ <<k, x>>[1] = k /\ <<k, x>>[2] = x
        OBVIOUS
    <2> QED BY <2>1, Zenon
<1>4. u = p
    BY ONLY <1>2, <1>3, SeqEqual
<1> QED BY <1>3, <1>4

LEMMA OneWordBeforeThree ==
    ASSUME NEW k \in Word, NEW x \in Word, NEW y \in Word, NEW z \in Word,
           NEW v, v = <<k>> \o <<x, y, z>>
    PROVE  v = <<k, x, y, z>>
<1>1. /\ <<k>> \in Seq(Word) /\ Len(<<k>>) = 1
      /\ <<x, y, z>> \in Seq(Word) /\ Len(<<x, y, z>>) = 3
    OBVIOUS
<1>2. v \in Seq(Word) /\ Len(v) = 4 /\ v[1] = k /\ v[2] = x /\ v[3] = y /\ v[4] = z
    BY <1>1, ConcatProperties
<1>3. PICK p : /\ p = <<k, x, y, z>> /\ p \in Seq(Word) /\ Len(p) = 4
               /\ p[1] = k /\ p[2] = x /\ p[3] = y /\ p[4] = z
    <2> DEFINE w == <<k, x, y, z>>
    <2>1. w \in Seq(Word) /\ Len(w) = 4
        OBVIOUS
    <2>2. w[1] = k /\ w[2] = x /\ w[3] = y /\ w[4] = z
        OBVIOUS
    <2> QED BY <2>1, <2>2, Zenon
<1>4. v = p
    BY ONLY <1>2, <1>3, SeqEqual
<1> QED BY <1>3, <1>4

(* One condition, and both dates.                                          *)
LEMMA OneCondition ==
    ASSUME NEW x \in {"SerialNumber", "Recorded>=", "Recorded<=", "LogType"}
    PROVE  /\ Further(<<"AND", x>>) /\ Clause(<<"WHERE", x>>)
           /\ Len(<<"AND", x>>) = 2 /\ Len(<<"WHERE", x>>) = 2
           /\ ToSet(<<"AND", x>>) = {"AND", x} /\ ToSet(<<"WHERE", x>>) = {"WHERE", x}
<1>1. x \in Word /\ "AND" \in Word /\ "WHERE" \in Word /\ x # "AND" /\ x # "WHERE"
    BY DEF Word
<1>2. <<"AND", x>> \in Seq(Word) /\ <<"WHERE", x>> \in Seq(Word)
    BY <1>1
<1>3. Further(<<"AND", x>>)
    BY <1>1, <1>2 DEF Further
<1>4. Clause(<<"WHERE", x>>)
    BY <1>1, <1>2 DEF Clause, Clean
<1>5. ToSet(<<"AND", x>>) = {"AND", x} /\ ToSet(<<"WHERE", x>>) = {"WHERE", x}
    BY DEF ToSet
<1> QED BY <1>3, <1>4, <1>5

BothDates(k) == <<k, "Recorded>=", "AND", "Recorded<=">>

LEMMA FourPlaces ==
    ASSUME NEW i \in 1..4
    PROVE  \/ i = 1 /\ i % 2 = 1
           \/ i = 2 /\ i % 2 = 0
           \/ i = 3 /\ i % 2 = 1
           \/ i = 4 /\ i % 2 = 0
OBVIOUS

LEMMA BothDatesAre ==
    /\ Further(BothDates("AND")) /\ Clause(BothDates("WHERE"))
    /\ \A k : Len(BothDates(k)) = 4 /\ ToSet(BothDates(k)) = {k, "Recorded>=", "AND", "Recorded<="}
<1>1. \A k \in Word : BothDates(k) \in Seq(Word)
    BY DEF BothDates, Word
<1>2. "AND" \in Word /\ "WHERE" \in Word
    BY DEF Word
<1>3. Further(BothDates("AND"))
    <2>1. PICK w : w = BothDates("AND")
        OBVIOUS
    <2>2. Len(w) = 4 /\ w[1] = "AND" /\ w[2] = "Recorded>=" /\ w[3] = "AND" /\ w[4] = "Recorded<="
        BY <2>1 DEF BothDates
    <2>3. w \in Seq(Word)
        BY <1>1, <1>2, <2>1
    <2>4. \A i \in 1..4 : (w[i] \in {"WHERE", "AND"} <=> i % 2 = 1) /\ w[i] # "WHERE"
        BY <2>2, FourPlaces
    <2>5. Further(w)
        BY <2>2, <2>3, <2>4 DEF Further
    <2> QED BY <2>1, <2>5
<1>4. Clause(BothDates("WHERE"))
    <2>1. PICK w : w = BothDates("WHERE")
        OBVIOUS
    <2>2. Len(w) = 4 /\ w[1] = "WHERE" /\ w[2] = "Recorded>=" /\ w[3] = "AND" /\ w[4] = "Recorded<="
          /\ DOMAIN w = 1..4
        BY <2>1 DEF BothDates
    <2>3. w \in Seq(Word)
        BY <1>1, <1>2, <2>1
    <2>4. \A i \in 1..4 : w[i] \in {"WHERE", "AND"} <=> i % 2 = 1
        BY <2>2, FourPlaces
    <2>5. \A i \in 1..4 : w[i] = "WHERE" <=> i = 1
        BY <2>2, FourPlaces
    <2>6. Clean(w)
        BY <2>2, <2>4, <2>5 DEF Clean
    <2> QED BY <2>1, <2>3, <2>6 DEF Clause
<1>5. \A k : Len(BothDates(k)) = 4 /\ ToSet(BothDates(k)) = {k, "Recorded>=", "AND", "Recorded<="}
    BY DEF BothDates, ToSet
<1> QED BY <1>3, <1>4, <1>5

LEMMA NoWords ==
    /\ Further(<<>>) /\ Clause(<<>>) /\ Len(<<>>) = 0 /\ ToSet(<<>>) = {}
BY DEF Further, Clause, Clean, ToSet

(* The dates, behind what they are joined with.                            *)
LEMMA DatesJoined ==
    ASSUME NEW serial \in BOOLEAN, NEW from, NEW to, NEW b,
           b = IF ~DatesIncluded(from, to) THEN <<>> ELSE IF serial THEN <<"AND">> ELSE <<"WHERE">>
    PROVE  LET w == b \o DateSelector(from, to)
           IN  /\ IF serial THEN Further(w) ELSE Clause(w)
               /\ Len(w) > 0 <=> DatesIncluded(from, to)
               /\ "Recorded>=" \in ToSet(w) <=> from # 0
               /\ "Recorded<=" \in ToSet(w) <=> to # 0
               /\ "LogType" \notin ToSet(w)
               /\ b \in Seq(Word) /\ DateSelector(from, to) \in Seq(Word)
<1>1. PICK c : c = DateSelector(from, to)
    OBVIOUS
<1>2. PICK w : w = b \o c
    OBVIOUS
<1>3. PICK k \in {"AND", "WHERE"} : k = IF serial THEN "AND" ELSE "WHERE"
    OBVIOUS
<1>4. /\ "AND" \in Word /\ "WHERE" \in Word /\ "Recorded>=" \in Word /\ "Recorded<=" \in Word
    BY DEF Word
<1>5. CASE from = 0 /\ to = 0
    <2>1. b = <<>> /\ c = <<>>
        BY <1>1, <1>5, DatesAre DEF DatesIncluded
    <2>2. w = <<>> /\ b \in Seq(Word) /\ c \in Seq(Word)
        <3>1. b \in Seq(Word) /\ c \in Seq(Word)
            BY <2>1, EmptySeq
        <3> QED BY <1>2, <2>1, <3>1, ConcatEmptySeq
    <2> QED BY <1>1, <1>2, <1>5, <2>1, <2>2, NoWords DEF DatesIncluded
<1>6. ASSUME from # 0 \/ to # 0 PROVE b = <<k>> /\ b \in Seq(Word)
    BY <1>3, <1>4, <1>6 DEF DatesIncluded
<1>7. CASE from # 0 /\ to = 0
    <2>1. b = <<k>> /\ c = <<"Recorded>=">> /\ b \in Seq(Word) /\ c \in Seq(Word)
        <3>1. c = <<"Recorded>=">>
            BY <1>1, <1>7, DatesAre
        <3> QED BY <1>4, <1>6, <1>7, <3>1
    <2>2. w = <<k, "Recorded>=">>
        <3>1. PICK x : x = "Recorded>="
            OBVIOUS
        <3>2. k \in Word /\ x \in Word /\ w = <<k>> \o <<x>>
            BY <1>2, <1>3, <1>4, <2>1, <3>1
        <3>3. w = <<k, x>>
            BY ONLY <3>2, OneWordFirst
        <3> QED BY <3>1, <3>3
    <2>3. (IF serial THEN Further(w) ELSE Clause(w)) /\ Len(w) = 2 /\ ToSet(w) = {k, "Recorded>="}
        BY <1>3, <2>2, OneCondition
    <2> QED BY <1>1, <1>2, <1>3, <1>7, <2>1, <2>3 DEF DatesIncluded
<1>8. CASE from = 0 /\ to # 0
    <2>1. b = <<k>> /\ c = <<"Recorded<=">> /\ b \in Seq(Word) /\ c \in Seq(Word)
        <3>1. c = <<"Recorded<=">>
            BY <1>1, <1>8, DatesAre
        <3> QED BY <1>4, <1>6, <1>8, <3>1
    <2>2. w = <<k, "Recorded<=">>
        <3>1. PICK x : x = "Recorded<="
            OBVIOUS
        <3>2. k \in Word /\ x \in Word /\ w = <<k>> \o <<x>>
            BY <1>2, <1>3, <1>4, <2>1, <3>1
        <3>3. w = <<k, x>>
            BY ONLY <3>2, OneWordFirst
        <3> QED BY <3>1, <3>3
    <2>3. (IF serial THEN Further(w) ELSE Clause(w)) /\ Len(w) = 2 /\ ToSet(w) = {k, "Recorded<="}
        BY <1>3, <2>2, OneCondition
    <2> QED BY <1>1, <1>2, <1>3, <1>8, <2>1, <2>3 DEF DatesIncluded
<1>9. CASE from # 0 /\ to # 0
    <2>1. b = <<k>> /\ c = <<"Recorded>=", "AND", "Recorded<=">> /\ b \in Seq(Word) /\ c \in Seq(Word)
        <3>1. c = <<"Recorded>=", "AND", "Recorded<=">>
            BY <1>1, <1>9, DatesAre
        <3> QED BY <1>4, <1>6, <1>9, <3>1
    <2>2. w = BothDates(k)
        <3>1. PICK x, y, z : x = "Recorded>=" /\ y = "AND" /\ z = "Recorded<="
            OBVIOUS
        <3>2. PICK p, q, r, s \in Word : p = k /\ q = x /\ r = y /\ s = z
            BY <1>3, <1>4, <3>1
        <3>3. w = <<p>> \o <<q, r, s>>
            BY <1>2, <2>1, <3>1, <3>2
        <3>4. w = <<p, q, r, s>>
            BY ONLY <3>3, OneWordBeforeThree
        <3>5. w = <<k, x, y, z>>
            BY <3>2, <3>4
        <3> QED BY <3>1, <3>5 DEF BothDates
    <2>3. (IF serial THEN Further(w) ELSE Clause(w)) /\ Len(w) = 4
          /\ ToSet(w) = {k, "Recorded>=", "AND", "Recorded<="}
        BY <1>3, <2>2, BothDatesAre
    <2> QED BY <1>1, <1>2, <1>3, <1>9, <2>1, <2>3 DEF DatesIncluded
<1> QED BY <1>5, <1>7, <1>8, <1>9

(* The words of a WHERE clause.                                            *)
LEMMA WhereHas ==
    ASSUME NEW t, NEW serial \in BOOLEAN, NEW from, NEW to
    PROVE  LET w == Where(t, serial, from, to)
           IN  /\ Clean(w)
               /\ "Recorded>=" \in ToSet(w) <=> from # 0
               /\ "Recorded<=" \in ToSet(w) <=> to # 0
               /\ "LogType" \in ToSet(w) <=> t = "DeviceLogs"
<1>1. PICK a : a = IF serial THEN <<"WHERE", "SerialNumber">> ELSE <<>>
    OBVIOUS
<1>2. PICK b : b = IF ~DatesIncluded(from, to) THEN <<>> ELSE IF serial THEN <<"AND">> ELSE <<"WHERE">>
    OBVIOUS
<1>3. PICK c : c = DateSelector(from, to)
    OBVIOUS
<1>4. PICK d : d = TypeSelector(t, serial, from, to)
    OBVIOUS
<1>5. PICK bc : bc = b \o c
    OBVIOUS
<1>6. /\ IF serial THEN Further(bc) ELSE Clause(bc)
      /\ Len(bc) > 0 <=> DatesIncluded(from, to)
      /\ "Recorded>=" \in ToSet(bc) <=> from # 0
      /\ "Recorded<=" \in ToSet(bc) <=> to # 0
      /\ "LogType" \notin ToSet(bc)
      /\ b \in Seq(Word) /\ c \in Seq(Word) /\ bc \in Seq(Word)
    <2>1. /\ IF serial THEN Further(bc) ELSE Clause(bc)
          /\ Len(bc) > 0 <=> DatesIncluded(from, to)
          /\ "Recorded>=" \in ToSet(bc) <=> from # 0
          /\ "Recorded<=" \in ToSet(bc) <=> to # 0
          /\ "LogType" \notin ToSet(bc)
          /\ b \in Seq(Word) /\ c \in Seq(Word)
        BY <1>2, <1>3, <1>5, DatesJoined
    <2>2. bc \in Seq(Word)
        BY <2>1 DEF Further, Clause
    <2> QED BY <2>1, <2>2
<1>7. PICK abc : abc = a \o bc
    OBVIOUS
<1>8. a \in Seq(Word) /\ ToSet(a) \cap {"Recorded>=", "Recorded<=", "LogType"} = {}
    BY <1>1, OneCondition, NoWords DEF Clause
<1>9. Where(t, serial, from, to) = abc \o d
    <2>1. (a \o b) \o c = abc
        <3>1. b \in Seq(Word) /\ c \in Seq(Word)
            BY <1>6
        <3> QED BY <1>5, <1>7, <1>8, <3>1, ConcatAssociative
    <2> QED BY <1>1, <1>2, <1>3, <1>4, <2>1 DEF Where
<1>10. Clause(abc) /\ (Len(abc) > 0 <=> serial \/ DatesIncluded(from, to))
    <2>1. CASE serial
        <3>1. Clause(a) /\ Len(a) > 0
            BY <1>1, <2>1, OneCondition
        <3> QED BY <1>6, <1>7, <2>1, <3>1, ClauseGoesOn
    <2>2. CASE ~serial
        <3>1. abc = bc
            BY <1>1, <1>6, <1>7, <2>2, ConcatEmptySeq
        <3> QED BY <1>6, <2>2, <3>1
    <2> QED BY <2>1, <2>2
<1>11. ToSet(abc) = ToSet(a) \cup ToSet(bc) /\ abc \in Seq(Word)
    BY <1>6, <1>7, <1>8, <1>10, WordsOf DEF Clause
<1>12. PICK w : w = abc \o d
    OBVIOUS
<1>13. CASE t # "DeviceLogs"
    <2>1. d = <<>>
        BY <1>4, <1>13 DEF TypeSelector
    <2>2. w = abc
        BY <1>11, <1>12, <2>1, ConcatEmptySeq
    <2> QED BY <1>6, <1>8, <1>9, <1>10, <1>11, <1>12, <1>13, <2>2 DEF Clause
<1>14. CASE t = "DeviceLogs"
    <2>1. d = <<IF DatesIncluded(from, to) \/ serial THEN "AND" ELSE "WHERE", "LogType">>
        BY <1>4, <1>14 DEF TypeSelector
    <2>2. ToSet(d) \subseteq {"AND", "WHERE", "LogType"} /\ "LogType" \in ToSet(d) /\ d \in Seq(Word)
        BY <2>1, OneCondition DEF Clause, Further
    <2>3. ToSet(w) = ToSet(abc) \cup ToSet(d)
        BY <1>11, <1>12, <2>2, WordsOf
    <2>4. Clause(w)
        <3>1. CASE DatesIncluded(from, to) \/ serial
            <4>1. Further(d)
                BY <2>1, <3>1, OneCondition
            <4> QED BY <1>10, <1>12, <3>1, <4>1, ClauseGoesOn
        <3>2. CASE ~(DatesIncluded(from, to) \/ serial)
            <4>1. Clause(d)
                BY <2>1, <3>2, OneCondition
            <4>2. abc = <<>>
                BY <1>10, <1>11, <3>2, EmptySeq
            <4>3. w = d
                BY <1>12, <2>2, <4>2, ConcatEmptySeq
            <4> QED BY <4>1, <4>3
        <3> QED BY <3>1, <3>2
    <2>5. Clean(w)
        BY <2>4 DEF Clause
    <2>6. /\ "Recorded>=" \in ToSet(w) <=> from # 0
          /\ "Recorded<=" \in ToSet(w) <=> to # 0
          /\ "LogType" \in ToSet(w)
        BY <1>6, <1>8, <1>11, <2>2, <2>3
    <2> QED BY <1>9, <1>12, <1>14, <2>5, <2>6
<1> QED BY <1>13, <1>14

-----------------------------------------------------------------------------
(* Records: what a request selects, and what a client reads page by page. *)

(* The rows of a request, in one of their orders.                          *)
Enumerates(q, S) ==
    /\ Cardinality(S) \in Nat /\ q \in Seq(S) /\ Len(q) = Cardinality(S)
    /\ \A i \in 1..Cardinality(S) : q[i] \in S
    /\ \A i, j \in 1..Cardinality(S) : q[i] = q[j] => i = j
    /\ \A r \in S : \E i \in 1..Cardinality(S) : q[i] = r

LEMMA AllRowsOnce ==
    ASSUME NEW S, IsFiniteSet(S), NEW q \in SetToSeqs(S)
    PROVE  Enumerates(q, S)
<1>1. PICK n \in Nat : n = Cardinality(S)
    BY FS_CardinalityType
<1>2. q \in [1..n -> S] /\ \A i, j \in 1..n : i # j => q[i] # q[j]
    BY <1>1 DEF SetToSeqs
<1>3. q \in Seq(S) /\ Len(q) = n /\ \A i \in 1..n : q[i] \in S
    BY <1>2
<1>4. q \in Injection(1..n, S)
    BY <1>2 DEF Injection, IsInjective
<1>5. IsFiniteSet(1..n) /\ Cardinality(1..n) = n
    BY FS_Interval
<1>6. q \in Surjection(1..n, S)
    BY <1>1, <1>4, <1>5, FS_Injection
<1>7. \A r \in S : \E i \in 1..n : q[i] = r
    BY <1>6 DEF Surjection
<1> QED BY <1>1, <1>2, <1>3, <1>7 DEF Enumerates

(* What a condition-free request of a type selects.                        *)
Chosen(type) == {r \in records : table = "DeviceLogs" => r.LogType = type}

LEMMA SelectedIs ==
    ASSUME NEW from, NEW to, NEW type
    PROVE  Selected(from, to, type) =
             {r \in records : /\ from = 0 \/ r.Recorded >= from
                              /\ to = 0 \/ r.Recorded <= to
                              /\ table = "DeviceLogs" => r.LogType = type}
<1>1. PICK w : w = Where(table, TRUE, from, to)
    OBVIOUS
<1>2. /\ "Recorded>=" \in ToSet(w) <=> from # 0
      /\ "Recorded<=" \in ToSet(w) <=> to # 0
      /\ "LogType" \in ToSet(w) <=> table = "DeviceLogs"
    BY <1>1, WhereHas
<1>3. Selected(from, to, type) = {r \in records : Meets(r, w, from, to, type)}
    BY <1>1 DEF Selected
<1>4. ASSUME NEW r
      PROVE  Meets(r, w, from, to, type) <=> /\ from = 0 \/ r.Recorded >= from
                                             /\ to = 0 \/ r.Recorded <= to
                                             /\ table = "DeviceLogs" => r.LogType = type
    BY <1>2 DEF Meets
<1> QED BY <1>3, <1>4

LEMMA ChosenIs ==
    ASSUME RecTypes, NEW type
    PROVE  /\ Selected(0, 0, type) = Chosen(type)
           /\ Chosen(type) \subseteq records /\ IsFiniteSet(Chosen(type))
           /\ Cardinality(Chosen(type)) \in Nat
<1>1. Selected(0, 0, type) = Chosen(type)
    <2>1. ASSUME NEW r PROVE /\ 0 = 0 \/ r.Recorded >= 0
                             /\ 0 = 0 \/ r.Recorded <= 0
        OBVIOUS
    <2> QED BY <2>1, SelectedIs DEF Chosen
<1>2. Chosen(type) \subseteq records
    BY DEF Chosen
<1> QED BY <1>1, <1>2, FS_Subset, FS_CardinalityType DEF RecTypes

(* The newest row comes first.                                             *)
LEMMA NewestIsFirst ==
    ASSUME RecTypes, NEW type, NEW q \in Newest(1, type), NEW r \in Selected(0, 0, type)
    PROVE  q # <<>> /\ q[1].Recorded >= r.Recorded
<1>1. PICK S : S = Chosen(type)
    OBVIOUS
<1>2. Selected(0, 0, type) = S /\ S \subseteq records /\ IsFiniteSet(S) /\ Cardinality(S) \in Nat
    BY <1>1, ChosenIs
<1>3. PICK p \in SetToSeqs(S) : /\ q = ComputeRange(p, 0, 1)
                                /\ \A i, j \in DOMAIN p : i < j => ~(p[j].Recorded > p[i].Recorded)
    BY <1>2, Zenon DEF Newest, Ordered
<1>4. PICK n \in Nat : /\ n = Cardinality(S) /\ p \in Seq(S) /\ Len(p) = n
                       /\ \A i \in 1..n : p[i] \in S
                       /\ \E i \in 1..n : p[i] = r
    BY <1>2, <1>3, AllRowsOnce DEF Enumerates
<1>5. PICK k \in 1..n : p[k] = r
    BY <1>4
<1>6. q = SubSeq(p, 1, 1)
    <2>1. ~(0 + 1 > n)
        BY <1>5
    <2> QED BY <1>3, <1>4, <2>1 DEF ComputeRange
<1>7. q \in Seq(S) /\ Len(q) = 1 /\ q[1] = p[1] /\ 1 \in 1..n
    BY <1>4, <1>5, <1>6
<1>8. p[1] \in S /\ r \in S /\ r.Recorded \in Nat /\ p[1].Recorded \in Nat
    BY <1>2, <1>4, <1>7 DEF RecTypes, Row_
<1>9. ~(p[k].Recorded > p[1].Recorded)
    <2>1. CASE k = 1
        BY <1>8, <2>1
    <2>2. CASE 1 < k
        <3>1. k \in DOMAIN p /\ 1 \in DOMAIN p
            BY <1>4, <1>5, <1>7
        <3> QED BY <1>3, <2>2, <3>1
    <2> QED BY <1>5, <2>1, <2>2
<1>10. PICK a, b \in Nat : a = p[1].Recorded /\ b = r.Recorded
    BY <1>8
<1>11. a >= b
    BY <1>5, <1>9, <1>10
<1>12. q # <<>>
    BY <1>7
<1> QED BY <1>7, <1>10, <1>11, <1>12

LEMMA RequestsAreRight == RecTypes => RequestsSelectTheirRows
<1> SUFFICES ASSUME RecTypes, NEW from, NEW to, NEW type \in RecordTypes
             PROVE  LET expected == {r \in records : /\ from = 0 \/ r.Recorded >= from
                                                     /\ to = 0 \/ r.Recorded <= to
                                                     /\ table = "DeviceLogs" => r.LogType = type}
                    IN  /\ \A serial \in BOOLEAN : Clean(Where(table, serial, from, to))
                        /\ Selected(from, to, type) = expected
                        /\ table = "Statistics" =>
                             GetNumberOfStatisticsDataRecords(from, to) = Cardinality(expected)
                        /\ \A q \in GetNewest(1, type), r \in Selected(0, 0, type) :
                             q # <<>> /\ q[1].Recorded >= r.Recorded
    BY Zenon DEF RequestsSelectTheirRows
<1> DEFINE expected == {r \in records : /\ from = 0 \/ r.Recorded >= from
                                        /\ to = 0 \/ r.Recorded <= to
                                        /\ table = "DeviceLogs" => r.LogType = type}
<1>1. \A serial \in BOOLEAN : Clean(Where(table, serial, from, to))
    BY WhereHas, Zenon
<1>2. Selected(from, to, type) = expected
    BY SelectedIs, Zenon
<1>3. table # "DeviceLogs" => type = 0
    BY DEF RecordTypes
<1>4. table = "Statistics" => GetNumberOfStatisticsDataRecords(from, to) = Cardinality(expected)
    BY <1>2, <1>3 DEF GetNumberOfStatisticsDataRecords
<1>5. GetNewest(1, type) = Newest(1, type)
    BY <1>3 DEF RecTypes, GetNewest, GetNewestStatisticsData, GetNewestHealthCheckData, GetNewestLogData
<1>6. \A q \in GetNewest(1, type), r \in Selected(0, 0, type) :
         q # <<>> /\ q[1].Recorded >= r.Recorded
    BY <1>5, NewestIsFirst
<1> QED BY <1>1, <1>2, <1>4, <1>6, Zenon

LEMMA ListIsSeq ==
    ASSUME NEW S, NEW n \in Nat, NEW f \in [1..n -> S]
    PROVE  f \in Seq(S) /\ Len(f) = n
OBVIOUS

(* No two rows are of the same second.                                     *)
Apart == \A r, s \in records : r.Recorded = s.Recorded => r = s

(* The rows D come before the others of S.                                 *)
First(D, S) == D \subseteq S /\ \A r \in D, s \in S : Before(table, s, r) => s \in D

(* q lists S in order.                                                     *)
InOrder(q, S) ==
    /\ Enumerates(q, S)
    /\ \A i, j \in 1..Cardinality(S) : i < j => Before(table, q[i], q[j])

FirstOf(q, k) == {q[i] : i \in 1..k}

LEMMA FirstOfIsFirst ==
    ASSUME RecTypes, NEW S, S \subseteq records, NEW q, InOrder(q, S), NEW k \in 0..Cardinality(S)
    PROVE  First(FirstOf(q, k), S) /\ IsFiniteSet(FirstOf(q, k)) /\ Cardinality(FirstOf(q, k)) = k
<1>1. PICK n \in Nat : n = Cardinality(S)
    BY DEF InOrder, Enumerates
<1>2. /\ \A i \in 1..n : q[i] \in S
      /\ \A i, j \in 1..n : q[i] = q[j] => i = j
      /\ \A r \in S : \E i \in 1..n : q[i] = r
      /\ \A i, j \in 1..n : i < j => Before(table, q[i], q[j])
    BY <1>1 DEF InOrder, Enumerates
<1>3. k \in 0..n /\ k \in Nat
    BY <1>1
<1>4. FirstOf(q, k) \subseteq S
    BY <1>2, <1>3 DEF FirstOf
<1>5. ASSUME NEW r \in FirstOf(q, k), NEW s \in S, Before(table, s, r)
      PROVE  s \in FirstOf(q, k)
    <2>1. PICK i \in 1..k : r = q[i]
        BY DEF FirstOf
    <2>2. PICK j \in 1..n : s = q[j]
        BY <1>2
    <2>3. r \in records /\ s \in records /\ r.Recorded \in Nat /\ s.Recorded \in Nat
        BY <1>4 DEF RecTypes, Row_
    <2>4. ~Before(table, r, s) /\ r # s
        BY <1>5, <2>3 DEF Before
    <2>5. ~(i < j) /\ i # j
        BY <1>2, <1>3, <2>1, <2>2, <2>4
    <2>6. j \in 1..k
        BY <1>3, <2>5
    <2> QED BY <2>2, <2>6 DEF FirstOf
<1>6. IsFiniteSet(FirstOf(q, k)) /\ Cardinality(FirstOf(q, k)) = k
    <2>1. PICK f : f = [i \in 1..k |-> q[i]]
        OBVIOUS
    <2>2. f \in [1..k -> FirstOf(q, k)] /\ \A i \in 1..k : f[i] = q[i]
        BY <2>1 DEF FirstOf
    <2>3. f \in Injection(1..k, FirstOf(q, k))
        BY <1>2, <1>3, <2>2 DEF Injection, IsInjective
    <2>4. f \in Surjection(1..k, FirstOf(q, k))
        BY <2>2 DEF Surjection, FirstOf
    <2>5. ExistsBijection(1..k, FirstOf(q, k))
        BY <2>3, <2>4 DEF ExistsBijection, Bijection
    <2> QED BY <1>3, <2>5, FS_Interval, FS_Bijection
<1> QED BY <1>4, <1>5, <1>6 DEF First

(* The row of place k is among the first rows only if k of them are.       *)
LEMMA FirstRows ==
    ASSUME RecTypes, NEW S, S \subseteq records, IsFiniteSet(S), NEW q, InOrder(q, S),
           NEW D, First(D, S)
    PROVE  /\ IsFiniteSet(D) /\ Cardinality(D) \in 0..Cardinality(S)
           /\ \A k \in 1..Cardinality(S) : q[k] \in D => k <= Cardinality(D)
           /\ D = FirstOf(q, Cardinality(D))
<1>1. PICK n, d \in Nat : n = Cardinality(S) /\ d = Cardinality(D) /\ d <= n /\ IsFiniteSet(D)
    BY FS_Subset, FS_CardinalityType DEF First
<1>2. /\ \A i \in 1..n : q[i] \in S
      /\ \A r \in S : \E i \in 1..n : q[i] = r
      /\ \A i, j \in 1..n : i < j => Before(table, q[i], q[j])
    BY <1>1 DEF InOrder, Enumerates
<1>3. ASSUME NEW k \in 1..n, q[k] \in D PROVE k <= d
    <2>1. FirstOf(q, k) \subseteq D
        <3> SUFFICES ASSUME NEW i \in 1..k PROVE q[i] \in D
            BY DEF FirstOf
        <3>1. i \in 1..n
            OBVIOUS
        <3>2. CASE i = k
            BY <1>3, <3>2
        <3>3. CASE i < k
            BY <1>2, <1>3, <3>1, <3>3 DEF First
        <3> QED BY <3>2, <3>3
    <2>2. Cardinality(FirstOf(q, k)) = k
        <3>1. k \in 0..Cardinality(S)
            BY <1>1
        <3> QED BY <3>1, FirstOfIsFirst
    <2> QED BY <1>1, <2>1, <2>2, FS_Subset
<1>4. D \subseteq FirstOf(q, d)
    <2> SUFFICES ASSUME NEW r \in D PROVE r \in FirstOf(q, d)
        OBVIOUS
    <2>1. PICK k \in 1..n : q[k] = r
        BY <1>2 DEF First
    <2>2. k \in 1..d
        BY <1>3, <2>1
    <2> QED BY <2>1, <2>2 DEF FirstOf
<1>5. IsFiniteSet(FirstOf(q, d)) /\ Cardinality(FirstOf(q, d)) = d
    <2>1. d \in 0..Cardinality(S)
        BY <1>1
    <2> QED BY <2>1, FirstOfIsFirst
<1>6. D = FirstOf(q, d)
    BY <1>1, <1>4, <1>5, FS_Subset
<1> QED BY <1>1, <1>3, <1>6

(* A page is the next rows in order, and empty only at the end.            *)
LEMMA PageIs ==
    ASSUME RecTypes, NEW type \in RecordTypes, NEW o \in Nat,
           NEW page \in Get(0, 0, o, PageSize, type)
    PROVE  \E m \in Nat, q \in Seq(Chosen(type)) :
             /\ Enumerates(q, Chosen(type))
             /\ Apart => InOrder(q, Chosen(type))
             /\ m >= o /\ Len(page) = m - o
             /\ m > o => m <= Cardinality(Chosen(type))
             /\ m = o => o >= Cardinality(Chosen(type))
             /\ DOMAIN page = 1..(m - o)
             /\ \A i \in 1..(m - o) : page[i] = q[o + i]
<1>1. PICK S : S = Chosen(type)
    OBVIOUS
<1>2. PICK n \in Nat : /\ n = Cardinality(S) /\ S \subseteq records /\ IsFiniteSet(S)
                       /\ Selected(0, 0, type) = S
    BY <1>1, ChosenIs
<1>3. table # "DeviceLogs" => type = 0
    BY DEF RecordTypes
<1>4. PageSize \in Nat \ {0} /\ StatisticsLimit \in Nat \ {0}
    BY RecordsAssumption
<1>5. PICK h \in Nat \ {0} : page \in Query(0, 0, o, h, type)
    <2>1. CASE table = "Statistics"
        <3>1. page \in Query(0, 0, o, IF PageSize > StatisticsLimit THEN StatisticsLimit ELSE PageSize, 0)
            BY <2>1 DEF Get, GetStatisticsData
        <3> QED BY <1>3, <1>4, <2>1, <3>1
    <2>2. CASE table = "HealthChecks"
        BY <1>3, <1>4, <2>2 DEF Get, GetHealthCheckData
    <2>3. CASE table = "DeviceLogs"
        BY <1>4, <2>3 DEF Get, GetLogData
    <2> QED BY <2>1, <2>2, <2>3 DEF RecTypes
<1>6. PICK q \in SetToSeqs(S) :
        /\ page = ComputeRange(q, o, h)
        /\ \A i, j \in DOMAIN q : i < j => ~Before(table, q[j], q[i])
    BY <1>2, <1>5, Zenon DEF Query, Ordered
<1>7. Enumerates(q, S)
    BY <1>2, <1>6, AllRowsOnce
<1>8. /\ q \in Seq(S) /\ Len(q) = n /\ DOMAIN q = 1..n
      /\ \A i \in 1..n : q[i] \in S
      /\ \A i, j \in 1..n : q[i] = q[j] => i = j
    BY <1>2, <1>7 DEF Enumerates
<1>9. ASSUME Apart, NEW i \in 1..n, NEW j \in 1..n, i < j PROVE Before(table, q[i], q[j])
    <2>1. q[i] \in records /\ q[j] \in records /\ q[i] # q[j]
        BY <1>2, <1>8, <1>9
    <2>2. PICK a, b \in Nat : a = q[i].Recorded /\ b = q[j].Recorded /\ a # b
        BY <1>9, <2>1 DEF RecTypes, Row_, Apart
    <2>3. ~Before(table, q[j], q[i])
        BY <1>6, <1>8, <1>9
    <2> QED BY <2>2, <2>3 DEF Before
<1>10. Apart => InOrder(q, S)
    BY <1>2, <1>7, <1>9 DEF InOrder
<1>11. PICK e \in Nat : e = IF o + h > n THEN n ELSE o + h
    OBVIOUS
<1>12. page = SubSeq(q, o + 1, e)
    BY <1>6, <1>8, <1>11 DEF ComputeRange
<1>13. PICK m \in Nat : m = IF e > o THEN e ELSE o
    OBVIOUS
<1>14. /\ m >= o /\ e <= n
       /\ m > o => m <= n
       /\ m = o => o >= n
    BY <1>11, <1>13
<1>15. \A i \in (o + 1)..e : q[i] \in S
    BY <1>8, <1>14
<1>16. /\ page \in Seq(S)
       /\ Len(page) = IF o + 1 <= e THEN e - (o + 1) + 1 ELSE 0
       /\ \A i \in 1..(e - (o + 1) + 1) : page[i] = q[o + 1 + i - 1]
    BY <1>12, <1>15, SubSeqProperties
<1>17. Len(page) = m - o
    BY <1>13, <1>16
<1>18. DOMAIN page = 1..(m - o)
    BY <1>16, <1>17
<1>19. ASSUME NEW i \in 1..(m - o) PROVE page[i] = q[o + i]
    <2>1. i \in 1..(e - (o + 1) + 1) /\ o + 1 + i - 1 = o + i
        BY <1>13
    <2> QED BY <1>16, <2>1
<1>20. /\ Enumerates(q, Chosen(type))
       /\ Apart => InOrder(q, Chosen(type))
    BY <1>1, <1>7, <1>10
<1>21. /\ m > o => m <= Cardinality(Chosen(type))
       /\ m = o => o >= Cardinality(Chosen(type))
       /\ q \in Seq(Chosen(type))
    BY <1>1, <1>2, <1>8, <1>14
<1> QED BY <1>14, <1>17, <1>18, <1>19, <1>20, <1>21

(* What a client that reads page by page has come across: all of the rows  *)
(* that were there when it began among as many first rows as it has read.  *)
(* Of the statistics and health checks it has seen the first rows, each    *)
(* once.                                                                   *)
Covered ==
    \A D : First(D, Chosen(reader.type)) /\ Cardinality(D) <= reader.offset =>
             \A r \in D : r.id \in reader.before => r.id \in ToSet(reader.seen)

Seen == {r \in Chosen(reader.type) : r.id \in ToSet(reader.seen)}

SeenOnce ==
    /\ First(Seen, Chosen(reader.type)) /\ Cardinality(Seen) = reader.offset
    /\ ToSet(reader.seen) \subseteq {r.id : r \in Chosen(reader.type)}

Client ==
    [on : {TRUE}, type : RecordTypes, offset : Nat, seen : Seq(1..MaxRecords), done : BOOLEAN,
     before : SUBSET (1..MaxRecords)]

ReaderInv ==
    \/ reader = NotReading
    \/ /\ reader \in Client
       /\ reader.offset = Len(reader.seen)
       /\ reader.before \subseteq {r.id : r \in Chosen(reader.type)}
       /\ Apart => /\ Covered
                   /\ reader.done => reader.before \subseteq ToSet(reader.seen)
                   /\ table # "DeviceLogs" => SeenOnce

LEMMA AddKeepsReader == RecTypes /\ ReaderInv /\ Add => ReaderInv'
<1> SUFFICES ASSUME RecTypes, ReaderInv, Add, reader # NotReading PROVE ReaderInv'
    BY DEF Add, ReaderInv, NotReading
<1>1. PICK type \in RecordTypes : records' = records \cup {NewRow(type)}
    BY DEF Add, NewRow
<1>2. Cardinality(records) < MaxRecords /\ UNCHANGED <<table, now, nextRun, reader>>
    BY DEF Add
<1>3. PICK n : n = NewRow(type)
    OBVIOUS
<1>4. n.Recorded = now /\ (\A r \in records : r.id # n.id) /\ n \notin records
    BY <1>2, <1>3, AddedRow
<1>5. PICK S : S = Chosen(reader.type)
    OBVIOUS
<1>6. PICK N : N = Chosen(reader.type)'
    OBVIOUS
<1>7. /\ S \subseteq records /\ IsFiniteSet(S) /\ S = N \ {n}
      /\ IsFiniteSet(N)
    <2>1. N = {r \in records \cup {n} : table = "DeviceLogs" => r.LogType = reader.type}
        BY <1>1, <1>2, <1>3, <1>6 DEF Chosen
    <2>2. S \subseteq records /\ IsFiniteSet(S) /\ S = N \ {n}
        BY <1>4, <1>5, <2>1, ChosenIs DEF Chosen
    <2>3. N = S \/ N = S \cup {n}
        BY <2>2
    <2> QED BY <2>2, <2>3, FS_AddElement
<1>8. /\ reader \in Client /\ reader.offset = Len(reader.seen)
      /\ reader.before \subseteq {r.id : r \in S}
      /\ Apart => /\ Covered
                  /\ reader.done => reader.before \subseteq ToSet(reader.seen)
                  /\ table # "DeviceLogs" => SeenOnce
    BY <1>5 DEF ReaderInv
<1>9. reader' \in Client' /\ reader'.offset = Len(reader'.seen)
    BY <1>2, <1>8 DEF Client, RecordTypes
<1>10. reader'.before \subseteq {r.id : r \in N}
    BY <1>2, <1>7, <1>8
<1>11. Apart' => Apart
    BY <1>1 DEF Apart
<1>12. ASSUME Covered PROVE Covered'
    <2> SUFFICES ASSUME NEW D, First(D, N), Cardinality(D) <= reader.offset,
                        NEW r \in D, r.id \in reader.before
                 PROVE  r.id \in ToSet(reader.seen)
        BY <1>2, <1>6 DEF Covered, First
    <2>1. r \in S
        BY <1>4, <1>7, <1>8 DEF First
    <2>2. First(D \ {n}, S)
        BY <1>7 DEF First
    <2>3. Cardinality(D \ {n}) <= reader.offset
        <3>1. IsFiniteSet(D)
            BY <1>7, FS_Subset DEF First
        <3>2. Cardinality(D \ {n}) <= Cardinality(D) /\ Cardinality(D \ {n}) \in Nat /\ Cardinality(D) \in Nat
            BY <3>1, FS_Subset, FS_CardinalityType
        <3> QED BY <1>8, <3>2 DEF Client
    <2>4. r \in D \ {n}
        BY <1>7, <2>1
    <2> QED BY <1>5, <1>12, <2>2, <2>3, <2>4 DEF Covered
<1>13. ASSUME SeenOnce, table # "DeviceLogs" PROVE SeenOnce'
    <2>1. ToSet(reader.seen) \subseteq {r.id : r \in S} /\ First(Seen, S) /\ Cardinality(Seen) = reader.offset
        BY <1>5, <1>13 DEF SeenOnce
    <2>2. Seen' = Seen
        <3>1. Seen' = {r \in N : r.id \in ToSet(reader.seen)}
            BY <1>2, <1>6 DEF Seen
        <3>2. n.id \notin ToSet(reader.seen)
            BY <1>4, <1>7, <2>1
        <3> QED BY <1>5, <1>7, <3>1, <3>2 DEF Seen
    <2>3. ASSUME NEW r \in Seen PROVE ~Before(table, n, r)
        <3>1. r \in records /\ r.Recorded \in Nat /\ now \in Nat /\ r.Recorded <= now
            BY <1>7, <2>1, <2>3 DEF First, RecTypes, Row_
        <3> QED BY <1>4, <1>13, <3>1 DEF Before
    <2>4. First(Seen, N)
        BY <1>7, <2>1, <2>3 DEF First
    <2>5. First(Seen, N)'
        BY <1>2, <1>6, <2>2, <2>4 DEF First
    <2> QED BY <1>2, <1>6, <1>7, <2>1, <2>2, <2>4 DEF SeenOnce, First
<1> QED BY <1>2, <1>6, <1>8, <1>9, <1>10, <1>11, <1>12, <1>13 DEF ReaderInv

LEMMA PageKeepsReader == RecTypes /\ ReaderInv /\ ReadPage => ReaderInv'
<1> SUFFICES ASSUME RecTypes, ReaderInv, ReadPage PROVE ReaderInv'
    OBVIOUS
<1>1. reader.on
    BY DEF ReadPage
<1>2. /\ reader \in Client /\ reader.offset = Len(reader.seen)
      /\ reader.before \subseteq {r.id : r \in Chosen(reader.type)}
      /\ Apart => /\ Covered
                  /\ reader.done => reader.before \subseteq ToSet(reader.seen)
                  /\ table # "DeviceLogs" => SeenOnce
    <2>1. reader # NotReading
        BY <1>1 DEF NotReading
    <2> QED BY <2>1, Zenon DEF ReaderInv
<1>3. PICK type \in RecordTypes, o \in Nat, seen \in Seq(1..MaxRecords), before \in SUBSET (1..MaxRecords) :
        /\ type = reader.type /\ o = reader.offset /\ seen = reader.seen /\ before = reader.before
        /\ o = Len(seen)
    <2>1. /\ reader.type \in RecordTypes /\ reader.offset \in Nat
          /\ reader.seen \in Seq(1..MaxRecords) /\ reader.before \in SUBSET (1..MaxRecords)
        BY <1>2 DEF Client
    <2> QED BY ONLY <1>2, <2>1
<1>4. PICK page \in Get(0, 0, o, PageSize, type) :
        reader' = [reader EXCEPT !.offset = o + Len(page),
                                 !.seen = seen \o [i \in DOMAIN page |-> page[i].id],
                                 !.done = page = <<>>]
    <2>1. PICK page \in Get(0, 0, reader.offset, PageSize, reader.type) :
            reader' = [reader EXCEPT !.offset = @ + Len(page),
                                     !.seen = @ \o [i \in DOMAIN page |-> page[i].id],
                                     !.done = page = <<>>]
        BY Zenon DEF ReadPage
    <2>2. reader' = [reader EXCEPT !.offset = reader.offset + Len(page),
                                   !.seen = reader.seen \o [i \in DOMAIN page |-> page[i].id],
                                   !.done = page = <<>>]
        BY <1>2, <2>1 DEF Client
    <2> QED BY <1>3, <2>2
<1>5. PICK S : S = Chosen(type)
    OBVIOUS
<1>6. S \subseteq records /\ IsFiniteSet(S)
    BY <1>5, ChosenIs
<1>7. PICK n \in Nat : n = Cardinality(S)
    BY <1>6, FS_CardinalityType
<1>8. PICK m \in Nat, q \in Seq(S) :
        /\ Enumerates(q, S)
        /\ Apart => InOrder(q, S)
        /\ m >= o /\ Len(page) = m - o
        /\ m > o => m <= n
        /\ m = o => o >= n
        /\ DOMAIN page = 1..(m - o)
        /\ \A i \in 1..(m - o) : page[i] = q[o + i]
    <2>1. Cardinality(Chosen(type)) = n
        BY <1>5, <1>7
    <2>2. \E m \in Nat, q \in Seq(Chosen(type)) :
             /\ Enumerates(q, Chosen(type))
             /\ Apart => InOrder(q, Chosen(type))
             /\ m >= o /\ Len(page) = m - o
             /\ m > o => m <= n
             /\ m = o => o >= n
             /\ DOMAIN page = 1..(m - o)
             /\ \A i \in 1..(m - o) : page[i] = q[o + i]
        BY <2>1, PageIs
    <2> QED BY <1>5, <2>2
<1>23. m >= o /\ m - o \in Nat
    BY <1>8
<1>9. PICK ids : ids = [i \in 1..(m - o) |-> q[o + i].id]
    OBVIOUS
<1>10. Len(q) = n /\ (\A i \in 1..n : q[i] \in S)
    BY <1>7, <1>8 DEF Enumerates
<1>11. \A i \in 1..n : q[i] \in records /\ q[i].id \in 1..MaxRecords
    BY <1>6, <1>10 DEF RecTypes, Row_
<1>12. ids \in Seq(1..MaxRecords) /\ Len(ids) = m - o /\ \A i \in 1..(m - o) : ids[i] = q[o + i].id
    <2>1. \A i \in 1..(m - o) : o + i \in 1..n
        BY <1>8
    <2>2. \A i \in 1..(m - o) : q[o + i].id \in 1..MaxRecords
        BY <1>11, <2>1
    <2>3. ids \in [1..(m - o) -> 1..MaxRecords]
        BY <1>9, <2>2
    <2>4. PICK d \in Nat : d = m - o
        BY <1>23
    <2>5. ids \in [1..d -> 1..MaxRecords]
        BY <2>3, <2>4
    <2>6. ids \in Seq(1..MaxRecords) /\ Len(ids) = d
        BY <2>5, ListIsSeq
    <2>7. \A i \in 1..(m - o) : ids[i] = q[o + i].id
        BY <1>9
    <2> QED BY <2>4, <2>6, <2>7
<1>13. /\ reader'.type = type /\ reader'.offset = m /\ reader'.seen = seen \o ids
       /\ reader'.before = before /\ reader'.done = (page = <<>>) /\ reader'.on = TRUE
       /\ reader' \in [on : {TRUE}, type : RecordTypes, offset : {m}, seen : {seen \o ids}, done : {page = <<>>},
                       before : {before}]
    <2>1. [i \in DOMAIN page |-> page[i].id] = ids
        BY <1>8, <1>9
    <2>2. o + Len(page) = m
        BY <1>8
    <2>3. reader' = [reader EXCEPT !.offset = m, !.seen = seen \o ids, !.done = page = <<>>]
        BY <1>4, <2>1, <2>2
    <2> QED BY <1>2, <1>3, <2>3 DEF Client
<1>14. PICK seen1 : seen1 = seen \o ids
    OBVIOUS
<1>15. /\ seen1 \in Seq(1..MaxRecords) /\ Len(seen1) = m
       /\ ToSet(seen1) = ToSet(seen) \cup {q[i].id : i \in (o + 1)..m}
    <2>1. seen1 \in Seq(1..MaxRecords) /\ Len(seen1) = m
        BY <1>3, <1>8, <1>12, <1>14, TwoParts
    <2>2. ToSet(seen1) = ToSet(seen) \cup ToSet(ids)
        BY <1>3, <1>12, <1>14, WordsOf
    <2>3. ToSet(ids) = {q[i].id : i \in (o + 1)..m}
        <3>1. DOMAIN ids = 1..(m - o)
            BY <1>9
        <3>2. \A i \in 1..(m - o) : o + i \in (o + 1)..m /\ ids[i] = q[o + i].id
            BY <1>8, <1>12
        <3>3. ASSUME NEW i \in (o + 1)..m PROVE q[i].id \in ToSet(ids)
            <4>1. PICK j \in 1..(m - o) : i = o + j
                BY <1>23
            <4> QED BY <1>12, <3>1, <4>1 DEF ToSet
        <3>4. ToSet(ids) \subseteq {q[i].id : i \in (o + 1)..m}
            BY <3>1, <3>2 DEF ToSet
        <3> QED BY <3>3, <3>4
    <2> QED BY <2>1, <2>2, <2>3
<1>16. Chosen(reader.type)' = S /\ UNCHANGED <<table, records>>
    BY <1>3, <1>5, <1>13 DEF ReadPage, Chosen
<1>17. /\ reader' \in Client' /\ reader'.offset = Len(reader'.seen)
       /\ reader'.before \subseteq {r.id : r \in S}
    <2>1. RecordTypes' = RecordTypes
        BY <1>16 DEF RecordTypes
    <2>2. reader' \in Client'
        BY <1>3, <1>13, <1>14, <1>15, <2>1 DEF Client
    <2>3. reader'.offset = Len(reader'.seen)
        BY <1>13, <1>14, <1>15
    <2> QED BY <1>2, <1>3, <1>5, <1>13, <2>2, <2>3
<1>18. ASSUME Apart PROVE Covered' /\ (reader'.done => before \subseteq ToSet(seen1))
                          /\ (table # "DeviceLogs" => SeenOnce')
    <2>1. Covered /\ (table # "DeviceLogs" => SeenOnce) /\ InOrder(q, S)
        BY <1>2, <1>8, <1>18
    <2>2. \A r \in S : \E i \in 1..n : q[i] = r
        BY <1>7, <1>8 DEF Enumerates
    <2>3. ASSUME NEW k \in 1..n, k <= o, q[k].id \in before
          PROVE  q[k].id \in ToSet(seen)
        <3>1. k \in 0..Cardinality(S)
            BY <1>7
        <3>2. First(FirstOf(q, k), S) /\ Cardinality(FirstOf(q, k)) = k
            BY <1>6, <2>1, <3>1, FirstOfIsFirst
        <3>3. q[k] \in FirstOf(q, k)
            BY DEF FirstOf
        <3> QED BY <1>3, <1>5, <2>1, <2>3, <3>2, <3>3 DEF Covered
    <2>4. ASSUME NEW k \in 1..n, k <= m, q[k].id \in before
          PROVE  q[k].id \in ToSet(seen1)
        <3>1. CASE k <= o
            BY <1>15, <2>3, <2>4, <3>1
        <3>2. CASE k > o
            <4>1. k \in (o + 1)..m
                BY <2>4, <3>2
            <4> QED BY <1>15, <4>1
        <3> QED BY <3>1, <3>2
    <2>5. Covered'
        <3> SUFFICES ASSUME NEW D, First(D, S), Cardinality(D) <= m, NEW r \in D, r.id \in before
                     PROVE  r.id \in ToSet(seen1)
            BY <1>13, <1>14, <1>16 DEF Covered, First
        <3>1. PICK k \in 1..n : q[k] = r
            BY <2>2 DEF First
        <3>2. k <= Cardinality(D) /\ Cardinality(D) \in Nat
            BY <1>6, <1>7, <2>1, <3>1, FirstRows
        <3>3. k <= m
            BY <3>2
        <3> QED BY <2>4, <3>1, <3>3
    <2>6. ASSUME reader'.done PROVE before \subseteq ToSet(seen1)
        <3>1. m = o /\ o >= n
            <4>1. page = <<>>
                BY <1>13, <2>6
            <4> QED BY <1>8, <4>1
        <3> SUFFICES ASSUME NEW r \in S, r.id \in before PROVE r.id \in ToSet(seen1)
            BY <1>2, <1>3, <1>5
        <3>2. PICK k \in 1..n : q[k] = r
            BY <2>2
        <3> QED BY <2>4, <3>1, <3>2
    <2>7. ASSUME table # "DeviceLogs" PROVE SeenOnce'
        <3>1. /\ First(Seen, S) /\ Cardinality(Seen) = o
              /\ ToSet(seen) \subseteq {r.id : r \in S}
              /\ Seen = {r \in S : r.id \in ToSet(seen)}
            BY <1>3, <1>5, <2>1, <2>7 DEF SeenOnce, Seen
        <3>2. Seen = FirstOf(q, o) /\ o <= n
            BY <1>6, <1>7, <2>1, <3>1, FirstRows
        <3>3. m <= n
            BY <1>8, <3>2
        <3>4. ToSet(seen) = {q[i].id : i \in 1..o}
            <4>1. \A x \in ToSet(seen) : \E r \in Seen : x = r.id
                BY <3>1
            <4>2. \A r \in Seen : r.id \in ToSet(seen)
                BY <3>1
            <4> QED BY <3>2, <4>1, <4>2 DEF FirstOf
        <3>5. ToSet(seen1) = {q[i].id : i \in 1..m}
            <4>1. 1..m = (1..o) \cup ((o + 1)..m)
                BY <1>8
            <4> QED BY <1>15, <3>4, <4>1
        <3>6. Seen' = {r \in S : r.id \in ToSet(seen1)}
            BY <1>13, <1>14, <1>16 DEF Seen
        <3>7. Seen' = FirstOf(q, m)
            <4>1. ASSUME NEW i \in 1..m PROVE q[i] \in Seen'
                BY <1>10, <3>3, <3>5, <3>6
            <4>2. ASSUME NEW r \in Seen' PROVE r \in FirstOf(q, m)
                <5>1. PICK i \in 1..m : q[i].id = r.id
                    BY <3>5, <3>6
                <5>2. q[i] \in records /\ r \in records
                    BY <1>6, <1>11, <3>3, <3>6
                <5>3. q[i] = r
                    BY <5>1, <5>2 DEF RecTypes
                <5> QED BY <5>3 DEF FirstOf
            <4> QED BY <4>1, <4>2 DEF FirstOf
        <3>8. First(FirstOf(q, m), S) /\ Cardinality(FirstOf(q, m)) = m
            <4>1. m \in 0..Cardinality(S)
                BY <1>7, <3>3
            <4> QED BY <1>6, <2>1, <4>1, FirstOfIsFirst
        <3>9. ToSet(seen1) \subseteq {r.id : r \in S}
            BY <1>10, <3>3, <3>5
        <3>10. First(Seen, S)'
            BY <1>16, <3>7, <3>8 DEF First
        <3>11. Cardinality(Seen)' = m
            BY <3>7, <3>8
        <3> QED BY <1>13, <1>14, <1>16, <3>7, <3>8, <3>9 DEF SeenOnce, First
    <2> QED BY <2>5, <2>6, <2>7
<1>19. Apart' => Apart
    BY <1>16 DEF Apart
<1> QED BY <1>13, <1>14, <1>16, <1>17, <1>18, <1>19 DEF ReaderInv

LEMMA DiscardKeepsReader ==
    ASSUME ReaderInv, NEW gone, Discard(gone), UNCHANGED table
    PROVE  ReaderInv'
<1>1. CASE gone = {}
    <2>1. records' = records /\ reader' = reader
        BY <1>1 DEF Discard
    <2> QED BY <2>1 DEF ReaderInv, NotReading, Client, RecordTypes, Chosen, Apart, Covered, First, Seen, SeenOnce
<1>2. CASE gone # {}
    BY <1>2 DEF Discard, ReaderInv, NotReading
<1> QED BY <1>1, <1>2

LEMMA FirstPage ==
    ASSUME RecTypes, ReadFirst
    PROVE  ReaderInv'
<1>1. PICK type \in RecordTypes : reader' = Reading(type) /\ UNCHANGED <<table, records, now, nextRun>>
    BY DEF ReadFirst
<1>2. PICK S : S = Chosen(type)
    OBVIOUS
<1>3. S \subseteq records /\ IsFiniteSet(S) /\ Selected(0, 0, type) = S
    BY <1>2, ChosenIs
<1>4. PICK before : before = {r.id : r \in S}
    OBVIOUS
<1>5. before \in SUBSET (1..MaxRecords)
    BY <1>3, <1>4 DEF RecTypes, Row_
<1>6. reader' = [on |-> TRUE, type |-> type, offset |-> 0, seen |-> <<>>, done |-> FALSE, before |-> before]
    BY <1>1, <1>3, <1>4 DEF Reading
<1>7. /\ reader'.type = type /\ reader'.offset = 0 /\ reader'.seen = <<>> /\ reader'.before = before
      /\ ~reader'.done
    BY <1>6
<1>8. reader' \in Client' /\ Len(reader'.seen) = 0
    <2>1. RecordTypes' = RecordTypes
        BY <1>1 DEF RecordTypes
    <2>2. <<>> \in Seq(1..MaxRecords)
        OBVIOUS
    <2> QED BY <1>5, <1>6, <2>1, <2>2 DEF Client
<1>9. Chosen(reader.type)' = S
    BY <1>1, <1>2, <1>7 DEF Chosen
<1>10. Covered'
    <2> SUFFICES ASSUME NEW D, First(D, S), Cardinality(D) <= 0, NEW r \in D
                 PROVE  FALSE
        BY <1>1, <1>7, <1>9 DEF Covered, First
    <2>1. IsFiniteSet(D) /\ Cardinality(D) \in Nat
        BY <1>3, FS_Subset, FS_CardinalityType DEF First
    <2>2. Cardinality(D) = 0
        BY <2>1
    <2> QED BY <2>1, <2>2, FS_EmptySet
<1>11. SeenOnce'
    <2>1. ToSet(<<>>) = {}
        BY DEF ToSet
    <2>2. Seen' = {}
        BY <1>7, <1>9, <2>1 DEF Seen
    <2>3. Cardinality({}) = 0
        BY FS_EmptySet
    <2> QED BY <1>7, <1>9, <2>1, <2>2, <2>3 DEF SeenOnce, First
<1> QED BY <1>4, <1>7, <1>8, <1>9, <1>10, <1>11 DEF ReaderInv

LEMMA ReaderKept == RecTypes /\ ReaderInv /\ [RecNext]_recVars => ReaderInv'
<1> SUFFICES ASSUME RecTypes, ReaderInv, [RecNext]_recVars PROVE ReaderInv'
    OBVIOUS
<1>1. CASE Add
    BY <1>1, AddKeepsReader
<1>2. CASE OnTimer
    BY <1>2, DiscardKeepsReader DEF OnTimer, RemoveRecordsOlderThan
<1>3. CASE ReadFirst
    BY <1>3, FirstPage
<1>4. CASE ReadPage
    BY <1>4, PageKeepsReader
<1>5. CASE ReadDone
    BY <1>5 DEF ReadDone, ReaderInv, NotReading
<1>6. ASSUME NEW from, NEW to, NEW type, Delete(from, to, type) PROVE ReaderInv'
    BY <1>6, DiscardKeepsReader DEF Delete
<1>7. CASE Tick \/ UNCHANGED recVars
    <2>1. UNCHANGED <<table, records, reader>>
        BY <1>7 DEF Tick, recVars
    <2> QED BY <2>1 DEF ReaderInv, NotReading, Client, RecordTypes, Chosen, Apart, Covered, First, Seen, SeenOnce
<1> QED BY <1>1, <1>2, <1>3, <1>4, <1>5, <1>6, <1>7 DEF RecNext

LEMMA ReaderMissesNothing == RecTypes /\ ReaderInv => PagingMissesNothing
<1> SUFFICES ASSUME RecTypes, ReaderInv, reader.on, Apart
             PROVE  /\ reader.done => reader.before \subseteq ToSet(reader.seen)
                    /\ table # "DeviceLogs" => Distinct(reader.seen)
    BY DEF PagingMissesNothing, Apart
<1>1. reader # NotReading
    BY DEF NotReading
<1>2. /\ reader \in Client /\ reader.offset = Len(reader.seen)
      /\ reader.done => reader.before \subseteq ToSet(reader.seen)
      /\ table # "DeviceLogs" => SeenOnce
    BY <1>1, Zenon DEF ReaderInv
<1>3. ASSUME table # "DeviceLogs" PROVE Distinct(reader.seen)
    <2>1. PICK T : T = ToSet(reader.seen)
        OBVIOUS
    <2>2. /\ Cardinality(Seen) = Len(reader.seen)
          /\ \A x \in T : \E r \in Seen : r.id = x
          /\ \A r \in Seen : r.id \in T
        BY <1>2, <1>3, <2>1 DEF SeenOnce, Seen
    <2>3. Seen \subseteq records /\ IsFiniteSet(Seen)
        <3>1. Seen \subseteq Chosen(reader.type)
            BY DEF Seen
        <3> QED BY <3>1, ChosenIs, FS_Subset
    <2>4. PICK f : f = [r \in Seen |-> r.id]
        OBVIOUS
    <2>5. f \in [Seen -> T] /\ \A r \in Seen : f[r] = r.id
        BY <2>2, <2>4
    <2>6. f \in Injection(Seen, T)
        BY <2>3, <2>5 DEF Injection, IsInjective, RecTypes
    <2>7. f \in Surjection(Seen, T)
        BY <2>2, <2>5 DEF Surjection
    <2>8. Cardinality(T) = Cardinality(Seen)
        BY <2>3, <2>6, <2>7, FS_Surjection
    <2> QED BY <2>1, <2>2, <2>8 DEF Distinct
<1> QED BY <1>2, <1>3

LEMMA RecordsHold == RecSpec => [](RequestsSelectTheirRows /\ PagingMissesNothing /\ ArchivedInTime)
<1> DEFINE Inv == RecTypes /\ Timely /\ ReaderInv
<1>1. RecInit => Inv
    BY TimelyAtFirst DEF RecInit, ReaderInv
<1>2. Inv /\ [RecNext]_recVars => Inv'
    BY RecTypesKept, TimelyKept, ReaderKept
<1>3. Inv => RequestsSelectTheirRows /\ PagingMissesNothing /\ ArchivedInTime
    BY RequestsAreRight, ReaderMissesNothing, TimelyIsInTime
<1> QED BY <1>1, <1>2, <1>3, PTL DEF RecSpec

-----------------------------------------------------------------------------
(* The dashboard. *)

Data == {NoData} \cup {NewData(found, t) : found \in Found, t \in Nat}

Places == {"generate", "copy", "wait", "begin", "analyze", "store", "end", "answer"}

Asking == [at : Places, since : Nat, D : Data, during : BOOLEAN]

DashTypes ==
    /\ asker \in [Asker -> {Away} \cup Asking]
    /\ clock \in Nat /\ LastRun \in Nat /\ LastRun <= clock
    /\ DB \in Data
    /\ \A a \in Asker : asker[a] \in Asking => asker[a].since <= clock

(* No generation was under way when the thread asked.                      *)
Alone(a) == asker[a] \in Asking /\ ~asker[a].during

(* What such a thread will be served, seen from where it stands.           *)
Promised(a) ==
    Alone(a) =>
        /\ StandsAt(a, "copy") => DB.snapshot + KeepFor >= asker[a].since
        /\ StandsAt(a, "wait") =>
              (\E b \in Asker : StandsAt(b, "analyze")) \/ LastRun >= asker[a].since
        /\ StandsAt(a, "generate") =>
              (\A b \in Asker : ~StandsAt(b, "store") /\ ~StandsAt(b, "end"))
              \/ LastRun >= asker[a].since
        /\ StandsAt(a, "store") \/ StandsAt(a, "end") =>
              asker[a].D.snapshot >= asker[a].since
        /\ StandsAt(a, "answer") => asker[a].D.snapshot + KeepFor >= asker[a].since

Works(a) == StandsAt(a, "analyze") \/ StandsAt(a, "store") \/ StandsAt(a, "end")

(* While no two threads generate at once and none has thrown.              *)
OneGenerates ==
    /\ Generating \/ \A a \in Asker : ~Works(a)
    /\ \A a, b \in Asker : Works(a) /\ Works(b) => a = b
    /\ ~Generating \/ \E a \in Asker : Works(a)

NewestIsStored ==
    /\ DB.snapshot <= LastRun
    /\ (\A a \in Asker : ~StandsAt(a, "store")) => DB.snapshot = LastRun
    /\ \A a \in Asker : StandsAt(a, "store") => asker[a].D.snapshot = LastRun

DashInv ==
    /\ DashTypes
    /\ ~twice => OneGenerates /\ (~failed => NewestIsStored /\ \A a \in Asker : Promised(a))

LEMMA DataHasTime ==
    /\ NoData \in Data /\ NoData.snapshot = 0
    /\ \A d \in Data : d.snapshot \in Nat
    /\ \A found \in Found, t \in Nat : NewData(found, t) \in Data /\ NewData(found, t).snapshot = t
BY DEF Data, NoData, NewData

LEMMA AskingFields ==
    /\ Away.at = "away" /\ "away" \notin Places
    /\ \A r \in Asking : r.at \in Places /\ r.since \in Nat /\ r.D \in Data /\ r.at # "away"
BY DEF Asking, Places, Away

LEMMA AskingGoes ==
    ASSUME NEW r \in Asking, NEW p \in Places
    PROVE  LET q == [r EXCEPT !.at = p]
           IN  q \in Asking /\ q.at = p /\ q.since = r.since /\ q.D = r.D /\ q.during = r.during
BY DEF Asking

(* What a step of thread a from p to q does to the threads.                *)
Moves(a, p, q) ==
    /\ asker' \in [Asker -> {Away} \cup Asking]
    /\ asker[a] \in Asking /\ asker[a].at = p
    /\ asker'[a] \in Asking /\ asker'[a].at = q
    /\ asker'[a].since = asker[a].since
    /\ \A b \in Asker \ {a} : asker'[b] = asker[b]
    /\ \A b \in Asker : Alone(b)' => Alone(b)

LEMMA GoMoves ==
    ASSUME DashTypes, NEW a \in Asker, NEW p \in Places, NEW q \in Places,
           StandsAt(a, p), Go(a, q)
    PROVE  Moves(a, p, q) /\ asker'[a].D = asker[a].D
<1>1. asker[a] \in Asking
  BY AskingFields DEF DashTypes, StandsAt
<1>2. asker'[a] = [asker[a] EXCEPT !.at = q] /\ \A b \in Asker \ {a} : asker'[b] = asker[b]
  BY DEF DashTypes, Go
<1>3. /\ asker'[a] \in Asking /\ asker'[a].at = q /\ asker'[a].since = asker[a].since
      /\ asker'[a].D = asker[a].D /\ asker'[a].during = asker[a].during
  BY <1>1, <1>2, AskingGoes
<1>4. asker' \in [Asker -> {Away} \cup Asking]
  BY <1>2, <1>3 DEF DashTypes, Go
<1>5. \A b \in Asker : Alone(b)' => Alone(b)
  BY <1>1, <1>2, <1>3 DEF Alone
<1> QED
  BY <1>1, <1>2, <1>3, <1>4, <1>5 DEF Moves, StandsAt

LEMMA FillMoves ==
    ASSUME DashTypes, NEW a \in Asker, NEW p \in Places, NEW q \in Places, NEW d \in Data,
           StandsAt(a, p), asker' = [asker EXCEPT ![a].at = q, ![a].D = d]
    PROVE  Moves(a, p, q) /\ asker'[a].D = d
<1>1. asker[a] \in Asking
  BY AskingFields DEF DashTypes, StandsAt
<1>2. asker'[a] = [asker[a] EXCEPT !.at = q, !.D = d]
      /\ \A b \in Asker \ {a} : asker'[b] = asker[b]
  BY DEF DashTypes
<1>3. /\ asker'[a] \in Asking /\ asker'[a].at = q /\ asker'[a].since = asker[a].since
      /\ asker'[a].D = d /\ asker'[a].during = asker[a].during
  <2> DEFINE q_ == [asker[a] EXCEPT !.at = q, !.D = d]
  <2>1. /\ q_ \in Asking /\ q_.at = q /\ q_.since = asker[a].since
        /\ q_.D = d /\ q_.during = asker[a].during
    BY <1>1 DEF Asking
  <2> QED
    BY <1>2, <2>1
<1>4. asker' \in [Asker -> {Away} \cup Asking]
  BY <1>2, <1>3 DEF DashTypes
<1>5. \A b \in Asker : Alone(b)' => Alone(b)
  BY <1>1, <1>2, <1>3 DEF Alone
<1> QED
  BY <1>1, <1>2, <1>3, <1>4, <1>5 DEF Moves, StandsAt

(* A step that is no part of a generation, and promises what it should.    *)
LEMMA BystanderKeeps ==
    ASSUME DashInv, NEW a \in Asker, NEW p \in Places, NEW q \in Places, Moves(a, p, q),
           p \notin {"analyze", "store", "end"}, q \notin {"analyze", "store", "end"},
           ~twice /\ ~failed /\ OneGenerates /\ NewestIsStored
              /\ (\A b \in Asker : Promised(b)) => Promised(a)',
           UNCHANGED <<clock, Generating, Valid, LastRun, DB, failed, twice>>
    PROVE  DashInv'
<1>1. DashTypes'
  BY AskingFields DEF DashInv, DashTypes, Moves
<1>2. \A b \in Asker :
          /\ StandsAt(b, "analyze")' <=> StandsAt(b, "analyze")
          /\ StandsAt(b, "store")' <=> StandsAt(b, "store")
          /\ StandsAt(b, "end")' <=> StandsAt(b, "end")
          /\ StandsAt(b, "store") => asker'[b] = asker[b]
  BY DEF Moves, StandsAt
<1>3. \A b \in Asker : Works(b)' <=> Works(b)
  BY <1>2 DEF Works
<1>4. OneGenerates => OneGenerates'
  BY <1>3 DEF OneGenerates
<1>5. NewestIsStored => NewestIsStored'
  BY <1>2 DEF NewestIsStored
<1>6. ASSUME NEW b \in Asker \ {a}, Promised(b) PROVE Promised(b)'
  <2>1. asker'[b] = asker[b] /\ (Alone(b)' => Alone(b))
    BY DEF Moves
  <2> QED
    BY <1>2, <1>6, <2>1 DEF Promised, StandsAt
<1> QED
  BY <1>1, <1>4, <1>5, <1>6 DEF DashInv

LEMMA OnlyOne ==
    ASSUME OneGenerates, NEW a \in Asker, Works(a)
    PROVE  \A b \in Asker \ {a} : ~StandsAt(b, "analyze") /\ ~StandsAt(b, "store") /\ ~StandsAt(b, "end")
BY DEF OneGenerates, Works

LEMMA AskKeeps ==
    ASSUME DashInv, NEW a \in Asker, GetDashboard(a)
    PROVE  DashInv'
<1> DEFINE r == [at |-> IF MustGenerate THEN "generate" ELSE "copy",
                 since |-> clock, D |-> NoData, during |-> UnderWay]
<1>1. UnderWay \in BOOLEAN /\ clock \in Nat
  BY DEF UnderWay, DashInv, DashTypes
<1>2. r \in Asking /\ r.at \in {"generate", "copy"} /\ r.since = clock
  BY <1>1, DataHasTime DEF Asking, Places
<1>3. asker'[a] = r /\ (\A b \in Asker \ {a} : asker'[b] = asker[b])
      /\ asker' \in [Asker -> {Away} \cup Asking]
  BY <1>2 DEF GetDashboard, DashInv, DashTypes
<1>4. r.during = UnderWay
  OBVIOUS
<1>5. r.at = "copy" => LastRun # 0 /\ ~(clock - LastRun > KeepFor)
  BY DEF MustGenerate
<1> HIDE DEF r
<1>6. UNCHANGED <<clock, Generating, Valid, LastRun, DB, failed, twice>> /\ asker[a].at = "away"
  BY DEF GetDashboard, StandsAt
<1>7. DashTypes'
  BY <1>2, <1>3, <1>6 DEF DashInv, DashTypes
<1>8. \A b \in Asker :
          /\ StandsAt(b, "analyze")' <=> StandsAt(b, "analyze")
          /\ StandsAt(b, "store")' <=> StandsAt(b, "store")
          /\ StandsAt(b, "end")' <=> StandsAt(b, "end")
          /\ StandsAt(b, "store") => asker'[b] = asker[b]
  BY <1>2, <1>3, <1>6 DEF StandsAt
<1>9. \A b \in Asker : Works(b)' <=> Works(b)
  BY <1>8 DEF Works
<1>10. OneGenerates => OneGenerates'
  BY <1>6, <1>9 DEF OneGenerates
<1>11. NewestIsStored => NewestIsStored'
  BY <1>6, <1>8 DEF NewestIsStored
<1>12. ASSUME NEW b \in Asker \ {a}, Promised(b) PROVE Promised(b)'
  <2>1. asker'[b] = asker[b] /\ (Alone(b)' => Alone(b))
    BY <1>3 DEF Alone
  <2> QED
    BY <1>6, <1>8, <1>12, <2>1 DEF Promised, StandsAt
<1>13. ASSUME NewestIsStored PROVE Promised(a)'
  <2>1. Alone(a)' => ~UnderWay
    BY <1>3, <1>4 DEF Alone
  <2>2. ~UnderWay => \A b \in Asker : ~StandsAt(b, "store") /\ ~StandsAt(b, "end")
    BY DEF UnderWay, StandsAt
  <2>3. ~UnderWay => DB.snapshot = LastRun
    BY <1>13, <2>2 DEF NewestIsStored
  <2>4. CASE r.at = "copy"
    <3>1. LastRun \in Nat /\ clock \in Nat
      BY DEF DashInv, DashTypes
    <3>2. LastRun + KeepFor >= clock
      BY <1>5, <2>4, <3>1, DashAssumption
    <3> QED
      BY <1>2, <1>3, <1>6, <2>1, <2>3, <2>4, <3>2 DEF Promised, StandsAt
  <2>5. CASE r.at = "generate"
    BY <1>3, <1>8, <2>1, <2>2, <2>5 DEF Promised, StandsAt
  <2> QED
    BY <1>2, <2>4, <2>5
<1> QED
  BY <1>6, <1>7, <1>10, <1>11, <1>12, <1>13 DEF DashInv

LEMMA WaitersKeep ==
    ASSUME DashInv, NEW a \in Asker, Copy(a) \/ Look(a) \/ Waits(a)
    PROVE  DashInv'
<1> DEFINE Sound == ~twice /\ ~failed /\ OneGenerates /\ NewestIsStored
                    /\ \A b \in Asker : Promised(b)
<1>1. {"copy", "answer", "generate", "wait", "begin"} \subseteq Places
  BY DEF Places
<1>2. /\ DB \in Data /\ DB.snapshot \in Nat /\ LastRun \in Nat /\ DashTypes
      /\ \A b \in Asker : asker[b] \in Asking => asker[b].since \in Nat
  BY DataHasTime, AskingFields DEF DashInv, DashTypes
<1>3. CASE Copy(a)
  <2>1. Moves(a, "copy", "answer") /\ asker'[a].D = DB
    BY <1>1, <1>2, <1>3, FillMoves DEF Copy
  <2>2. ASSUME Sound PROVE Promised(a)'
    <3>1. Alone(a)' => DB.snapshot + KeepFor >= asker[a].since
      BY <2>1, <2>2 DEF Moves, Promised, StandsAt
    <3> QED
      BY <2>1, <3>1 DEF Moves, Promised, StandsAt
  <2>3. UNCHANGED <<clock, Generating, Valid, LastRun, DB, failed, twice>>
    BY <1>3 DEF Copy
  <2>4. ~twice /\ ~failed /\ OneGenerates /\ NewestIsStored
           /\ (\A b \in Asker : Promised(b)) => Promised(a)'
    BY <2>2
  <2> QED
    BY <1>1, <2>1, <2>3, <2>4, BystanderKeeps
<1>4. CASE Look(a) /\ Generating
  <2>1. Moves(a, "generate", "wait")
    BY <1>1, <1>2, <1>4, GoMoves DEF Look
  <2>2. ASSUME Sound PROVE Promised(a)'
    <3>1. PICK b \in Asker : Works(b)
      BY <1>4, <2>2 DEF OneGenerates
    <3>2. b # a /\ asker'[b] = asker[b] /\ LastRun' = LastRun
      BY <1>4, <2>1, <3>1 DEF Moves, Works, StandsAt, Look
    <3>3. Alone(a)' => StandsAt(b, "analyze") \/ LastRun >= asker[a].since
      BY <2>1, <2>2, <3>1 DEF Moves, Promised, StandsAt, Works
    <3> QED
      BY <2>1, <3>2, <3>3 DEF Moves, Promised, StandsAt
  <2>3. UNCHANGED <<clock, Generating, Valid, LastRun, DB, failed, twice>>
    BY <1>4 DEF Look
  <2>4. ~twice /\ ~failed /\ OneGenerates /\ NewestIsStored
           /\ (\A b \in Asker : Promised(b)) => Promised(a)'
    BY <2>2
  <2> QED
    BY <1>1, <2>1, <2>3, <2>4, BystanderKeeps
<1>5. CASE Look(a) /\ ~Generating
  <2>1. Moves(a, "generate", "begin")
    BY <1>1, <1>2, <1>5, GoMoves DEF Look
  <2>2. Promised(a)'
    BY <2>1 DEF Moves, Promised, StandsAt
  <2>3. UNCHANGED <<clock, Generating, Valid, LastRun, DB, failed, twice>>
    BY <1>5 DEF Look
  <2>4. ~twice /\ ~failed /\ OneGenerates /\ NewestIsStored
           /\ (\A b \in Asker : Promised(b)) => Promised(a)'
    BY <2>2
  <2> QED
    BY <1>1, <2>1, <2>3, <2>4, BystanderKeeps
<1>6. CASE Waits(a)
  <2>1. Moves(a, "wait", "copy") /\ ~Generating
    BY <1>1, <1>2, <1>6, GoMoves DEF Waits
  <2>2. ASSUME Sound PROVE Promised(a)'
    <3>1. \A b \in Asker : ~StandsAt(b, "analyze") /\ ~StandsAt(b, "store")
      BY <2>1, <2>2 DEF OneGenerates, Works
    <3>2. DB.snapshot = LastRun
      BY <2>2, <3>1 DEF NewestIsStored
    <3>3. Alone(a)' => LastRun >= asker[a].since
      BY <2>1, <2>2, <3>1 DEF Moves, Promised, StandsAt
    <3>4. asker[a].since \in Nat /\ asker'[a].since = asker[a].since /\ DB' = DB
      BY <1>2, <1>6, <2>1 DEF Moves, Waits
    <3>5. Alone(a)' => DB.snapshot + KeepFor >= asker[a].since
      BY <1>2, <3>2, <3>3, <3>4, DashAssumption
    <3> QED
      BY <2>1, <3>4, <3>5 DEF Moves, Promised, StandsAt
  <2>3. UNCHANGED <<clock, Generating, Valid, LastRun, DB, failed, twice>>
    BY <1>6 DEF Waits
  <2>4. ~twice /\ ~failed /\ OneGenerates /\ NewestIsStored
           /\ (\A b \in Asker : Promised(b)) => Promised(a)'
    BY <2>2
  <2> QED
    BY <1>1, <2>1, <2>3, <2>4, BystanderKeeps
<1> QED
  BY <1>3, <1>4, <1>5, <1>6

LEMMA BeginningKeeps ==
    ASSUME DashInv, NEW a \in Asker, Begin_(a)
    PROVE  DashInv'
<1>1. Moves(a, "begin", "analyze")
  BY GoMoves DEF Begin_, DashInv, Places
<1>2. UNCHANGED <<clock, LastRun, DB, failed>> /\ Generating' = TRUE
  BY DEF Begin_
<1>3. DashTypes'
  BY <1>1, <1>2, AskingFields DEF DashInv, DashTypes, Moves
<1>4. ~twice' => ~twice /\ \A b \in Asker : ~Works(b)
  BY DEF Begin_, UnderWay, Works, StandsAt
<1>5. \A b \in Asker :
          /\ StandsAt(b, "analyze")' <=> b = a \/ StandsAt(b, "analyze")
          /\ StandsAt(b, "store")' <=> StandsAt(b, "store")
          /\ StandsAt(b, "end")' <=> StandsAt(b, "end")
  BY <1>1 DEF Moves, StandsAt
<1>6. (\A b \in Asker : ~Works(b)) => OneGenerates'
  BY <1>2, <1>5 DEF OneGenerates, Works
<1>7. NewestIsStored => NewestIsStored'
  BY <1>1, <1>2, <1>5 DEF NewestIsStored, Moves, StandsAt
<1>8. ASSUME NEW b \in Asker, Promised(b) PROVE Promised(b)'
  <2>1. CASE b = a
    BY <1>1, <2>1 DEF Moves, Promised, StandsAt
  <2>2. CASE b # a
    <3>1. asker'[b] = asker[b] /\ (Alone(b)' => Alone(b))
      BY <1>1, <2>2 DEF Moves
    <3> QED
      BY <1>2, <1>5, <1>8, <3>1 DEF Promised, StandsAt
  <2> QED
    BY <2>1, <2>2
<1> QED
  BY <1>2, <1>3, <1>4, <1>6, <1>7, <1>8 DEF DashInv

(* The one that generates goes on; the others stand where they stood.      *)
LEMMA OthersStand ==
    ASSUME NEW a \in Asker, OneGenerates,
           NEW p \in {"analyze", "store", "end"}, NEW q \in Places, Moves(a, p, q)
    PROVE  /\ \A b \in Asker \ {a} : /\ asker'[b] = asker[b] /\ (Alone(b)' => Alone(b))
                                     /\ ~StandsAt(b, "analyze") /\ ~StandsAt(b, "store")
                                     /\ ~StandsAt(b, "end")
           /\ q \in {"store", "end"} /\ UNCHANGED Generating => OneGenerates'
           /\ q = "answer" /\ ~Generating' => OneGenerates'
<1>1. Works(a) /\ asker'[a].at = q
  BY DEF Works, StandsAt, Moves
<1>2. \A b \in Asker \ {a} : /\ asker'[b] = asker[b] /\ (Alone(b)' => Alone(b))
                             /\ ~StandsAt(b, "analyze") /\ ~StandsAt(b, "store")
                             /\ ~StandsAt(b, "end")
  BY <1>1, OnlyOne DEF Moves
<1>3. \A b \in Asker \ {a} : ~Works(b)'
  BY <1>2 DEF Works, StandsAt
<1>4. ASSUME q \in {"store", "end"}, UNCHANGED Generating PROVE OneGenerates'
  <2>1. Works(a)'
    BY <1>1, <1>4 DEF Works, StandsAt
  <2>2. Generating
    BY <1>1 DEF OneGenerates
  <2> QED
    BY <1>3, <1>4, <2>1, <2>2 DEF OneGenerates
<1>5. ASSUME q = "answer", ~Generating' PROVE OneGenerates'
  <2>1. ~Works(a)'
    BY <1>1, <1>5 DEF Works, StandsAt
  <2> QED
    BY <1>3, <1>5, <2>1 DEF OneGenerates
<1> QED
  BY <1>2, <1>4, <1>5

LEMMA GenerationKeeps ==
    ASSUME DashInv, NEW a \in Asker, Analyze(a) \/ AnalyzeThrows(a) \/ Store_(a) \/ End(a)
    PROVE  DashInv'
<1>1. {"analyze", "store", "end", "answer"} \subseteq Places
  BY DEF Places
<1>2. /\ DashTypes /\ LastRun \in Nat /\ clock \in Nat /\ LastRun <= clock /\ DB \in Data
      /\ DB.snapshot \in Nat
      /\ \A b \in Asker : asker[b] \in Asking => asker[b].since \in Nat /\ asker[b].since <= clock
                                                 /\ asker[b].D \in Data
  BY DataHasTime, AskingFields DEF DashInv, DashTypes
<1>3. ASSUME Analyze(a) PROVE DashInv'
  <2>1. PICK found \in Found :
          asker' = [asker EXCEPT ![a].at = "store", ![a].D = NewData(found, clock)]
    BY <1>3 DEF Analyze
  <2>2. NewData(found, clock) \in Data /\ NewData(found, clock).snapshot = clock
    BY <1>2, DataHasTime
  <2>3. Moves(a, "analyze", "store") /\ asker'[a].D.snapshot = clock
    BY <1>1, <1>2, <1>3, <2>1, <2>2, FillMoves DEF Analyze
  <2>4. LastRun' = clock /\ UNCHANGED <<clock, Generating, Valid, DB, failed, twice>>
    BY <1>3 DEF Analyze
  <2>5. DashTypes'
    BY <1>2, <2>3, <2>4, AskingFields DEF DashTypes, Moves
  <2>6. ASSUME OneGenerates PROVE OneGenerates'
    BY <1>1, <2>3, <2>4, <2>6, OthersStand
  <2>7. ASSUME OneGenerates, NewestIsStored, \A b \in Asker : Promised(b)
        PROVE  NewestIsStored' /\ \A b \in Asker : Promised(b)'
    <3>1. \A b \in Asker \ {a} : /\ asker'[b] = asker[b] /\ (Alone(b)' => Alone(b))
                                 /\ ~StandsAt(b, "analyze") /\ ~StandsAt(b, "store")
                                 /\ ~StandsAt(b, "end")
      BY <1>1, <2>3, <2>7, OthersStand
    <3>2. DB.snapshot <= clock
      BY <1>2, <2>7 DEF NewestIsStored
    <3>3. StandsAt(a, "store")'
      BY <2>3 DEF Moves, StandsAt
    <3>4. NewestIsStored'
      BY <2>3, <2>4, <3>1, <3>2, <3>3 DEF NewestIsStored, StandsAt
    <3>5. ASSUME NEW b \in Asker, b # a PROVE Promised(b)'
      <4>1. asker[b] \in Asking => asker[b].since <= clock
        BY <1>2
      <4>2. Alone(b) => asker[b] \in Asking
        BY DEF Alone
      <4> QED
        BY <2>4, <2>7, <3>1, <3>5, <4>1, <4>2 DEF Promised, StandsAt
    <3>6. Promised(a)'
      <4>1. asker'[a].at = "store" /\ asker'[a].since = asker[a].since /\ asker[a].since <= clock
        BY <1>2, <2>3 DEF Moves
      <4> QED
        BY <2>3, <4>1 DEF Promised, StandsAt
    <3> QED
      BY <3>4, <3>5, <3>6
  <2> QED
    BY <2>4, <2>5, <2>6, <2>7 DEF DashInv
<1>4. ASSUME AnalyzeThrows(a) PROVE DashInv'
  <2>1. Moves(a, "analyze", "end") /\ failed' /\ UNCHANGED <<clock, Generating, LastRun, DB, twice>>
    BY <1>1, <1>2, <1>4, GoMoves DEF AnalyzeThrows
  <2>2. DashTypes'
    BY <1>2, <2>1, AskingFields DEF DashTypes, Moves
  <2>3. ASSUME OneGenerates PROVE OneGenerates'
    BY <1>1, <2>1, <2>3, OthersStand
  <2> QED
    BY <2>1, <2>2, <2>3 DEF DashInv
<1>5. ASSUME Store_(a) PROVE DashInv'
  <2>1. Moves(a, "store", "end") /\ asker'[a].D = asker[a].D
    BY <1>1, <1>2, <1>5, GoMoves DEF Store_
  <2>2. DB' = asker[a].D /\ UNCHANGED <<clock, Generating, LastRun, failed, twice>>
    BY <1>5 DEF Store_
  <2>3. asker[a] \in Asking
    BY <2>1 DEF Moves
  <2>4. DashTypes'
    BY <1>2, <2>1, <2>2, <2>3, AskingFields DEF DashTypes, Moves
  <2>5. ASSUME OneGenerates PROVE OneGenerates'
    BY <1>1, <2>1, <2>2, <2>5, OthersStand
  <2>6. ASSUME OneGenerates, NewestIsStored, \A b \in Asker : Promised(b)
        PROVE  NewestIsStored' /\ \A b \in Asker : Promised(b)'
    <3>1. \A b \in Asker \ {a} : /\ asker'[b] = asker[b] /\ (Alone(b)' => Alone(b))
                                 /\ ~StandsAt(b, "analyze") /\ ~StandsAt(b, "store")
                                 /\ ~StandsAt(b, "end")
      BY <1>1, <2>1, <2>6, OthersStand
    <3>2. StandsAt(a, "store") /\ StandsAt(a, "end")' /\ ~StandsAt(a, "store")'
      BY <2>1 DEF Moves, StandsAt
    <3>3. asker[a].D.snapshot = LastRun /\ DB.snapshot <= LastRun
      BY <2>6, <3>2 DEF NewestIsStored
    <3>4. DB'.snapshot = LastRun'
      BY <2>2, <3>3
    <3>5. \A b \in Asker : ~StandsAt(b, "store")'
      BY <3>1, <3>2 DEF StandsAt
    <3>6. NewestIsStored'
      BY <1>2, <2>2, <3>4, <3>5 DEF NewestIsStored
    <3>7. ASSUME NEW b \in Asker, b # a PROVE Promised(b)'
      <4>1. StandsAt(b, "copy") /\ Alone(b) => DB'.snapshot + KeepFor >= asker[b].since
        <5>1. Alone(b) => asker[b].since \in Nat
          BY <1>2 DEF Alone
        <5>2. StandsAt(b, "copy") /\ Alone(b) => DB.snapshot + KeepFor >= asker[b].since
          BY <2>6 DEF Promised
        <5> QED
          BY <1>2, <2>2, <3>3, <3>4, <5>1, <5>2, DashAssumption
      <4>2. StandsAt(b, "generate") /\ Alone(b) => LastRun >= asker[b].since
        BY <2>6, <3>2 DEF Promised
      <4>3. StandsAt(b, "wait") /\ Alone(b) => LastRun >= asker[b].since
        BY <2>6, <3>1, <3>2 DEF Promised, StandsAt
      <4> QED
        BY <2>2, <2>6, <3>1, <3>7, <4>1, <4>2, <4>3 DEF Promised, StandsAt
    <3>8. Promised(a)'
      <4>1. Alone(a) => asker[a].D.snapshot >= asker[a].since
        BY <2>6, <3>2 DEF Promised
      <4> QED
        BY <2>1, <4>1 DEF Promised, StandsAt, Moves
    <3> QED
      BY <3>6, <3>7, <3>8
  <2> QED
    BY <2>2, <2>4, <2>5, <2>6 DEF DashInv
<1>6. ASSUME End(a) PROVE DashInv'
  <2>1. Moves(a, "end", "answer") /\ asker'[a].D = asker[a].D
    BY <1>1, <1>2, <1>6, GoMoves DEF End
  <2>2. Generating' = FALSE /\ UNCHANGED <<clock, LastRun, DB, failed, twice>>
    BY <1>6 DEF End
  <2>3. DashTypes'
    BY <1>2, <2>1, <2>2, AskingFields DEF DashTypes, Moves
  <2>4. ASSUME OneGenerates PROVE OneGenerates'
    BY <1>1, <2>1, <2>2, <2>4, OthersStand
  <2>5. ASSUME OneGenerates, NewestIsStored, \A b \in Asker : Promised(b)
        PROVE  NewestIsStored' /\ \A b \in Asker : Promised(b)'
    <3>1. \A b \in Asker \ {a} : /\ asker'[b] = asker[b] /\ (Alone(b)' => Alone(b))
                                 /\ ~StandsAt(b, "analyze") /\ ~StandsAt(b, "store")
                                 /\ ~StandsAt(b, "end")
      BY <1>1, <2>1, <2>5, OthersStand
    <3>2. StandsAt(a, "end") /\ StandsAt(a, "answer")'
      BY <2>1 DEF Moves, StandsAt
    <3>3. \A b \in Asker : ~StandsAt(b, "store") /\ ~StandsAt(b, "store")'
      BY <3>1, <3>2 DEF StandsAt
    <3>4. NewestIsStored'
      BY <2>2, <2>5, <3>3 DEF NewestIsStored
    <3>5. ASSUME NEW b \in Asker, b # a PROVE Promised(b)'
      <4>1. StandsAt(b, "wait") /\ Alone(b) => LastRun >= asker[b].since
        BY <2>5, <3>1, <3>2 DEF Promised, StandsAt
      <4> QED
        BY <2>2, <2>5, <3>1, <3>2, <3>5, <4>1 DEF Promised, StandsAt
    <3>6. Promised(a)'
      <4>1. Alone(a) => asker[a].D.snapshot >= asker[a].since
        BY <2>5, <3>2 DEF Promised
      <4>2. asker[a].D.snapshot \in Nat /\ asker[a].since \in Nat
        BY <1>2, <2>1, DataHasTime DEF Moves
      <4>3. Alone(a) => asker[a].D.snapshot + KeepFor >= asker[a].since
        BY <4>1, <4>2, DashAssumption
      <4> QED
        BY <2>1, <4>3 DEF Promised, StandsAt, Moves
    <3> QED
      BY <3>4, <3>5, <3>6
  <2> QED
    BY <2>2, <2>3, <2>4, <2>5 DEF DashInv
<1> QED
  BY <1>3, <1>4, <1>5, <1>6

LEMMA AnswerKeeps ==
    ASSUME DashInv, NEW a \in Asker, Answer(a)
    PROVE  DashInv'
<1>1. /\ asker' \in [Asker -> {Away} \cup Asking] /\ asker'[a].at = "away"
      /\ \A b \in Asker \ {a} : asker'[b] = asker[b]
      /\ asker[a].at = "answer" /\ asker'[a] = Away
  BY AskingFields DEF Answer, StandsAt, DashInv, DashTypes
<1>2. UNCHANGED <<clock, Generating, LastRun, DB, failed, twice>>
  BY DEF Answer
<1>3. Away \notin Asking
  BY AskingFields
<1>4. DashTypes'
  BY <1>1, <1>2, <1>3 DEF DashInv, DashTypes
<1>5. \A b \in Asker :
          /\ StandsAt(b, "analyze")' <=> StandsAt(b, "analyze")
          /\ StandsAt(b, "store")' <=> StandsAt(b, "store")
          /\ StandsAt(b, "end")' <=> StandsAt(b, "end")
          /\ StandsAt(b, "store") => asker'[b] = asker[b]
  BY <1>1 DEF StandsAt
<1>6. \A b \in Asker : Works(b)' <=> Works(b)
  BY <1>5 DEF Works
<1>7. OneGenerates => OneGenerates'
  BY <1>2, <1>6 DEF OneGenerates
<1>8. NewestIsStored => NewestIsStored'
  BY <1>2, <1>5 DEF NewestIsStored
<1>9. ASSUME NEW b \in Asker, Promised(b) PROVE Promised(b)'
  <2>1. CASE b = a
    BY <1>1, <1>3, <2>1 DEF Promised, Alone
  <2>2. CASE b # a
    <3>1. asker'[b] = asker[b] /\ (Alone(b)' => Alone(b))
      BY <1>1, <2>2 DEF Alone
    <3> QED
      BY <1>2, <1>5, <1>9, <3>1 DEF Promised, StandsAt
  <2> QED
    BY <2>1, <2>2
<1> QED
  BY <1>2, <1>4, <1>7, <1>8, <1>9 DEF DashInv

LEMMA DashHolds == DashSpec => []ServedIsRecent
<1>1. DashInit => DashInv
  <2> SUFFICES ASSUME DashInit PROVE DashInv
    OBVIOUS
  <2>1. Away.at = "away" /\ Away \notin Asking /\ NoData \in Data /\ NoData.snapshot = 0
    BY AskingFields, DataHasTime
  <2>2. DashTypes
    BY <2>1 DEF DashInit, DashTypes
  <2>3. \A a \in Asker : ~Works(a) /\ ~StandsAt(a, "store") /\ Promised(a)
    BY <2>1 DEF DashInit, Works, StandsAt, Promised, Alone
  <2>4. OneGenerates
    BY <2>3 DEF DashInit, OneGenerates
  <2>5. NewestIsStored
    BY <2>1, <2>3 DEF DashInit, NewestIsStored
  <2> QED
    BY <2>2, <2>3, <2>4, <2>5 DEF DashInv
<1>2. ASSUME DashInv, ClockTicks PROVE DashInv'
  <2>1. clock' = clock + 1 /\ UNCHANGED <<asker, Generating, LastRun, DB, failed, twice>>
    BY <1>2 DEF ClockTicks
  <2>2. DashTypes'
    BY <1>2, <2>1, AskingFields DEF DashInv, DashTypes
  <2>3. /\ OneGenerates => OneGenerates'
        /\ NewestIsStored => NewestIsStored'
        /\ \A a \in Asker : Promised(a) => Promised(a)'
    BY <2>1 DEF OneGenerates, NewestIsStored, Promised, Alone, StandsAt, Works
  <2> QED
    BY <1>2, <2>1, <2>2, <2>3 DEF DashInv
<1>3. ASSUME DashInv, UNCHANGED dashVars PROVE DashInv'
  <2>1. UNCHANGED <<clock, asker, Generating, LastRun, DB, failed, twice>>
    BY <1>3 DEF dashVars
  <2>2. /\ DashTypes'
        /\ OneGenerates => OneGenerates'
        /\ NewestIsStored => NewestIsStored'
        /\ \A a \in Asker : Promised(a) => Promised(a)'
    BY <1>3, <2>1 DEF DashInv, DashTypes, OneGenerates, NewestIsStored, Promised, Alone,
                      StandsAt, Works
  <2> QED
    BY <1>3, <2>1, <2>2 DEF DashInv
<1>4. DashInv /\ [DashNext]_dashVars => DashInv'
  <2> SUFFICES ASSUME DashInv, [DashNext]_dashVars PROVE DashInv'
    OBVIOUS
  <2>1. ASSUME NEW a \in Asker, GetDashboard(a) \/ Copy(a) \/ Look(a) \/ Waits(a) \/ Begin_(a)
                 \/ Analyze(a) \/ AnalyzeThrows(a) \/ Store_(a) \/ End(a) \/ Answer(a)
        PROVE  DashInv'
    BY <2>1, AskKeeps, WaitersKeep, BeginningKeeps, GenerationKeeps, AnswerKeeps
  <2> QED
    BY <1>2, <1>3, <2>1 DEF DashNext
<1>5. DashInv => ServedIsRecent
  <2> SUFFICES ASSUME DashInv, NEW a \in Asker, StandsAt(a, "answer"), ~failed, ~twice,
                      ~asker[a].during
               PROVE  asker[a].D.snapshot + KeepFor >= asker[a].since
    BY DEF ServedIsRecent
  <2>1. asker[a] \in Asking
    BY AskingFields DEF DashInv, DashTypes, StandsAt
  <2>2. Alone(a) /\ Promised(a)
    BY <2>1 DEF Alone, DashInv
  <2> QED
    BY <2>2 DEF Promised
<1> QED
  BY <1>1, <1>4, <1>5, PTL DEF DashSpec

-----------------------------------------------------------------------------
(* What UpdateCountedMap counts. *)

(* The members of S with a tag of s, the tags of the members being f.      *)
Tagged(S, f, s) == {i \in S : f[i] \in s}

TagsOf(S, f) == {f[i] : i \in S}

LEMMA TaggedIsFinite ==
    ASSUME NEW S, IsFiniteSet(S), NEW f, NEW s
    PROVE  IsFiniteSet(Tagged(S, f, s)) /\ Cardinality(Tagged(S, f, s)) \in Nat
<1>1. Tagged(S, f, s) \in SUBSET S
    BY DEF Tagged
<1> QED BY <1>1, FS_Subset, FS_CardinalityType

(* One tag more: the members that have it come to the others.              *)
LEMMA OneTagMore ==
    ASSUME NEW S, IsFiniteSet(S), NEW f, NEW s, NEW t \in s
    PROVE  Cardinality(Tagged(S, f, s)) =
             Cardinality(Tagged(S, f, {t})) + Cardinality(Tagged(S, f, s \ {t}))
<1>1. IsFiniteSet(Tagged(S, f, {t})) /\ IsFiniteSet(Tagged(S, f, s \ {t}))
    BY TaggedIsFinite
<1>2. Tagged(S, f, s) = Tagged(S, f, {t}) \cup Tagged(S, f, s \ {t})
    BY DEF Tagged
<1>3. Tagged(S, f, {t}) \cap Tagged(S, f, s \ {t}) = {}
    BY DEF Tagged
<1>4. Cardinality(Tagged(S, f, {t}) \cap Tagged(S, f, s \ {t})) = 0
    BY <1>3, FS_EmptySet
<1>5. PICK a, b \in Nat : /\ a = Cardinality(Tagged(S, f, {t}))
                         /\ b = Cardinality(Tagged(S, f, s \ {t}))
    BY TaggedIsFinite
<1>6. Cardinality(Tagged(S, f, s)) = a + b - 0
    BY <1>1, <1>2, <1>4, <1>5, FS_Union
<1> QED BY <1>5, <1>6

(* The counts add up to the number of the members.                         *)
LEMMA CountsSumUp ==
    ASSUME NEW S, IsFiniteSet(S), NEW f, NEW c,
           c = [t \in TagsOf(S, f) |-> Cardinality(Tagged(S, f, {t}))]
    PROVE  SumFunction(c) = Cardinality(S)
<1> DEFINE T == TagsOf(S, f)
           Sum(g) == [s \in SUBSET T |->
                        IF s = {} THEN 0
                        ELSE LET x == CHOOSE x \in s : TRUE IN c[x] + g[s \ {x}]]
           G == CHOOSE g : g = Sum(g)
           H == [s \in SUBSET T |-> Cardinality(Tagged(S, f, s))]
<1>1. SumFunction(c) = G[T]
    <2>1. DOMAIN c = T
        OBVIOUS
    <2> QED BY <2>1 DEF SumFunction, SumFunctionOnSet, FoldFunctionOnSet, MapThenFoldSet
<1>2. G = Sum(G)
    <2>1. H = Sum(H)
        <3> SUFFICES ASSUME NEW s \in SUBSET T
                     PROVE  H[s] = IF s = {} THEN 0
                                   ELSE LET x == CHOOSE x \in s : TRUE IN c[x] + H[s \ {x}]
            BY Zenon
        <3>1. CASE s = {}
            BY <3>1, FS_EmptySet DEF Tagged
        <3>2. CASE s # {}
            <4>1. PICK x \in s : x = CHOOSE y \in s : TRUE
                BY <3>2
            <4>2. x \in T /\ s \ {x} \in SUBSET T
                BY <4>1
            <4>3. c[x] = Cardinality(Tagged(S, f, {x}))
                BY <4>2
            <4>4. H[s] = c[x] + H[s \ {x}]
                BY <4>2, <4>3, OneTagMore
            <4> QED BY <3>2, <4>1, <4>4
        <3> QED BY <3>1, <3>2
    <2> HIDE DEF Sum, H
    <2> QED BY <2>1, Zenon
<1>3. IsFiniteSet(T)
    <2>1. [i \in S |-> f[i]] \in Surjection(S, T)
        BY DEF Surjection, TagsOf
    <2> QED BY <2>1, FS_Surjection
<1>4. \A s \in SUBSET T : IsFiniteSet(s) /\ Cardinality(s) \in Nat
    BY <1>3, FS_Subset, FS_CardinalityType
<1>5. \A s \in SUBSET T : G[s] = H[s]
    <2> DEFINE Bad == {Cardinality(s) : s \in {r \in SUBSET T : G[r] # H[r]}}
    <2> SUFFICES ASSUME Bad # {} PROVE FALSE
        OBVIOUS
    <2>1. PICK n \in Bad : \A m \in Bad : n <= m
        <3>1. Bad \in SUBSET Nat
            BY <1>4
        <3> HIDE DEF Bad
        <3> QED BY <3>1, LeastNumber
    <2>2. PICK s \in SUBSET T : n = Cardinality(s) /\ G[s] # H[s]
        BY <2>1
    <2>3. G[s] = IF s = {} THEN 0
                 ELSE LET x == CHOOSE x \in s : TRUE IN c[x] + G[s \ {x}]
        <3> HIDE DEF G
        <3> QED BY <1>2, Zenon
    <2>4. CASE s = {}
        BY <2>2, <2>3, <2>4, FS_EmptySet DEF Tagged
    <2>5. CASE s # {}
        <3> HIDE DEF G, Bad
        <3>1. PICK x \in s : x = CHOOSE y \in s : TRUE
            BY <2>5
        <3>2. x \in T /\ s \ {x} \in SUBSET T
            BY <3>1
        <3>3. G[s] = c[x] + G[s \ {x}]
            BY <2>3, <2>5, <3>1
        <3>4. H[s] = c[x] + H[s \ {x}]
            BY <3>2, OneTagMore
        <3>5. G[s \ {x}] # H[s \ {x}]
            BY <2>2, <3>3, <3>4
        <3>6. Cardinality(s \ {x}) \in Bad
            BY <3>2, <3>5 DEF Bad
        <3>7. Cardinality(s \ {x}) = Cardinality(s) - 1
            BY <1>4, <3>1, FS_RemoveElement
        <3> QED BY <1>4, <2>1, <2>2, <3>6, <3>7
    <2> QED BY <2>4, <2>5
<1>6. Tagged(S, f, T) = S
    BY DEF Tagged, TagsOf
<1> HIDE DEF G, T
<1> QED BY <1>1, <1>5, <1>6

(* A map that UpdateCountedMap fills for the members of S with the tags of f. *)
CountedMap(S, f) == [t \in TagsOf(S, f) |-> Cardinality(Tagged(S, f, {t}))]

LEMMA CountedSums ==
    ASSUME NEW S, IsFiniteSet(S), NEW f
    PROVE  SumFunction(CountedMap(S, f)) = Cardinality(S)
<1> PICK c : c = CountedMap(S, f)
    OBVIOUS
<1> QED BY CountsSumUp DEF CountedMap

(* The rows that a walk has come to, those of known devices, and those     *)
(* with statistics.                                                        *)
WalkedRows(rows) == {i \in DOMAIN rows : \A j \in 1..(i - 1) : rows[j].stats # "bad"}
KnownRows(rows) == {i \in WalkedRows(rows) : rows[i].known}
UpRows(rows) == {i \in KnownRows(rows) : rows[i].stats = "good"}

LEMMA WalkIsCounted ==
    ASSUME NEW rows, IsFiniteSet(DOMAIN rows), NEW t
    PROVE  LET D == AnalyzeDevices(rows, t)
               n == Cardinality(KnownRows(rows))
           IN  /\ D.numberOfDevices = Cardinality(WalkedRows(rows))
               /\ SumFunction(D.status) = Cardinality(WalkedRows(rows))
               /\ SumFunction(D.certificates) = n /\ SumFunction(D.lastContact) = n
               /\ SumFunction(D.healths) = n
               /\ SumFunction(D.upTimes) = Cardinality(UpRows(rows))
<1> DEFINE D == AnalyzeDevices(rows, t)
           walked == WalkedRows(rows)
           known == KnownRows(rows)
           up == UpRows(rows)
           status == [i \in walked |-> IF rows[i].known /\ rows[i].Connected
                                       THEN "connected" ELSE "not connected"]
           certificate == [i \in known |-> rows[i].certificate]
           lastSeen == [i \in known |-> ComputeUpLastContactTag(rows[i].LastContact, t)]
           health == [i \in known |-> ComputeSanityTag(rows[i].Sanity)]
           uptime == [i \in up |-> ComputeUpTimeTag(rows[i].uptime)]
<1>1. D.numberOfDevices = Cardinality(walked)
    BY DEF AnalyzeDevices, WalkedRows
<1>2. D.status = CountedMap(walked, status)
    BY DEF AnalyzeDevices, WalkedRows, Counted_, Status, CountedMap, TagsOf, Tagged
<1>3. D.certificates = CountedMap(known, certificate)
    BY DEF AnalyzeDevices, WalkedRows, KnownRows, Counted_, CountedMap, TagsOf, Tagged
<1>4. D.lastContact = CountedMap(known, lastSeen)
    BY DEF AnalyzeDevices, WalkedRows, KnownRows, Counted_, CountedMap, TagsOf, Tagged
<1>5. D.healths = CountedMap(known, health)
    BY DEF AnalyzeDevices, WalkedRows, KnownRows, Counted_, CountedMap, TagsOf, Tagged
<1>6. D.upTimes = CountedMap(up, uptime)
    BY DEF AnalyzeDevices, WalkedRows, KnownRows, UpRows, Counted_, CountedMap, TagsOf, Tagged
<1>7. IsFiniteSet(walked) /\ IsFiniteSet(known) /\ IsFiniteSet(up)
    <2>1. walked \in SUBSET DOMAIN rows /\ known \in SUBSET DOMAIN rows /\ up \in SUBSET DOMAIN rows
        BY DEF WalkedRows, KnownRows, UpRows
    <2> QED BY <2>1, FS_Subset
<1> HIDE DEF D, walked, known, up, status, certificate, lastSeen, health, uptime
<1>8. /\ D.numberOfDevices = Cardinality(walked) /\ SumFunction(D.status) = Cardinality(walked)
      /\ SumFunction(D.certificates) = Cardinality(known)
      /\ SumFunction(D.lastContact) = Cardinality(known)
      /\ SumFunction(D.healths) = Cardinality(known)
      /\ SumFunction(D.upTimes) = Cardinality(up)
    BY <1>1, <1>2, <1>3, <1>4, <1>5, <1>6, <1>7, CountedSums
<1> QED BY <1>8 DEF D, walked, known, up

Generated == {NewData(found, t) : found \in Found, t \in Nat}

LEMMA GeneratedAddsUp ==
    ASSUME NEW d \in Generated
    PROVE  LET D == d.devices
           IN  /\ SumFunction(D.status) = D.numberOfDevices
               /\ SumFunction(D.certificates) = SumFunction(D.healths)
               /\ SumFunction(D.lastContact) = SumFunction(D.healths)
               /\ SumFunction(D.upTimes) <= SumFunction(D.healths)
               /\ SumFunction(D.healths) <= D.numberOfDevices
<1>1. PICK found \in Found, t \in Nat : d = NewData(found, t)
    BY DEF Generated
<1>2. PICK rows : rows = found.devices
    OBVIOUS
<1>3. d.devices = AnalyzeDevices(rows, t)
    BY <1>1, <1>2 DEF NewData
<1>4. IsFiniteSet(DOMAIN rows)
    <2>1. rows \in Seq(Range(rows))
        BY <1>2, DashAssumption
    <2>2. Len(rows) \in Nat /\ DOMAIN rows = 1..Len(rows)
        BY <2>1
    <2> QED BY <2>2, FS_Interval
<1>5. PICK W, K, U : W = WalkedRows(rows) /\ K = KnownRows(rows) /\ U = UpRows(rows)
    OBVIOUS
<1>6. W \in SUBSET DOMAIN rows /\ K \in SUBSET W /\ U \in SUBSET K
    BY <1>5 DEF WalkedRows, KnownRows, UpRows
<1>7. IsFiniteSet(W) /\ IsFiniteSet(K)
    BY <1>4, <1>6, FS_Subset
<1>8. Cardinality(K) <= Cardinality(W) /\ Cardinality(U) <= Cardinality(K)
    BY <1>6, <1>7, FS_Subset
<1>9. PICK D : D = AnalyzeDevices(rows, t)
    OBVIOUS
<1>10. /\ D.numberOfDevices = Cardinality(W) /\ SumFunction(D.status) = Cardinality(W)
       /\ SumFunction(D.certificates) = Cardinality(K)
       /\ SumFunction(D.lastContact) = Cardinality(K)
       /\ SumFunction(D.healths) = Cardinality(K)
       /\ SumFunction(D.upTimes) = Cardinality(U)
    BY <1>4, <1>5, <1>9, WalkIsCounted
<1> QED BY <1>3, <1>8, <1>9, <1>10

(* What is stored, or about to be, comes from a generation.                *)
CountInv ==
    /\ DOMAIN asker = Asker /\ clock \in Nat
    /\ Valid => DB \in Generated
    /\ \A a \in Asker : StandsAt(a, "store") => asker[a].D \in Generated

LEMMA CountsHold == DashSpec => []CountsAddUp
<1>1. DashInit => CountInv
    BY DEF DashInit, CountInv, StandsAt, Away
<1>2. CountInv /\ [DashNext]_dashVars => CountInv'
    <2> SUFFICES ASSUME CountInv, [DashNext]_dashVars PROVE CountInv'
        OBVIOUS
    <2> USE DEF CountInv, StandsAt
    <2>1. ASSUME NEW a \in Asker, GetDashboard(a) \/ Answer(a) PROVE CountInv'
        BY <2>1 DEF GetDashboard, Answer, Away
    <2>2. ASSUME NEW a \in Asker, Copy(a) PROVE CountInv'
        BY <2>2 DEF Copy
    <2>3. ASSUME NEW a \in Asker, Look(a) \/ Waits(a) \/ Begin_(a) \/ AnalyzeThrows(a) \/ End(a)
          PROVE  CountInv'
        <3>1. /\ UNCHANGED <<clock, DB>> /\ (Valid' => Valid)
              /\ \E place : place # "store" /\ asker' = [asker EXCEPT ![a].at = place]
            <4>1. CASE Look(a)
                BY <4>1, Zenon DEF Look, Go
            <4>2. CASE Waits(a) \/ Begin_(a) \/ AnalyzeThrows(a) \/ End(a)
                BY <4>2 DEF Waits, Begin_, AnalyzeThrows, End, Go
            <4> QED BY <2>3, <4>1, <4>2
        <3> QED BY <3>1
    <2>4. ASSUME NEW a \in Asker, Analyze(a) PROVE CountInv'
        <3>1. PICK found \in Found :
                asker' = [asker EXCEPT ![a].at = "store", ![a].D = NewData(found, clock)]
            BY <2>4 DEF Analyze
        <3>2. NewData(found, clock) \in Generated
            BY DEF Generated
        <3>3. UNCHANGED <<clock, Valid, DB>>
            BY <2>4 DEF Analyze
        <3>4. PICK d : d = NewData(found, clock)
            OBVIOUS
        <3>5. asker' = [asker EXCEPT ![a].at = "store", ![a].D = d] /\ d \in Generated
            BY <3>1, <3>2, <3>4
        <3>6. asker' = [asker EXCEPT ![a] = [[asker[a] EXCEPT !.at = "store"] EXCEPT !.D = d]]
            BY <3>5
        <3>7. ASSUME NEW b \in Asker, asker'[b].at = "store" PROVE asker'[b].D \in Generated
            BY <3>5, <3>6, <3>7
        <3> QED BY <3>3, <3>5, <3>7
    <2>5. ASSUME NEW a \in Asker, Store_(a) PROVE CountInv'
        BY <2>5 DEF Store_, Go
    <2>6. CASE ClockTicks \/ UNCHANGED dashVars
        BY <2>6 DEF ClockTicks, dashVars
    <2> QED BY <2>1, <2>2, <2>3, <2>4, <2>5, <2>6 DEF DashNext
<1>3. CountInv => CountsAddUp
    BY GeneratedAddsUp DEF CountInv, CountsAddUp
<1> QED BY <1>1, <1>2, <1>3, PTL DEF DashSpec

-----------------------------------------------------------------------------
(* The store: digits and numbers of serial numbers. *)

LEMMA Inductive ==
    ASSUME NEW S, 0 \in S, \A n \in Nat : n \in S => n + 1 \in S
    PROVE  Nat \subseteq S
<1> DEFINE T == Nat \ S
<1> SUFFICES ASSUME T # {} PROVE FALSE
    OBVIOUS
<1>1. PICK n \in T : \A m \in T : n <= m
    <2> HIDE DEF T
    <2>1. T \subseteq Nat
        BY DEF T
    <2> QED BY <2>1, LeastNumber
<1>2. n # 0 /\ n - 1 \in Nat /\ n - 1 \notin T
    BY <1>1
<1> QED BY <1>1, <1>2

(* A function that starts at base and goes on by step exists.              *)
Iterates(f, base, step, N) == f[0] = base /\ \A x \in 1..N : f[x] = step[x][f[x - 1]]

LEMMA IterationExists ==
    ASSUME NEW S, NEW base \in S, NEW N \in Nat, NEW step \in [1..N -> [S -> S]]
    PROVE  \E f \in [0..N -> S] : Iterates(f, base, step, N)
<1> DEFINE Upto_(n, f) == f[0] = base /\ \A x \in 1..n : f[x] = step[x][f[x - 1]]
           Reached == {n \in Nat : n <= N => \E f \in [0..n -> S] : Upto_(n, f)}
<1>1. 0 \in Reached
    <2> DEFINE f == [x \in 0..0 |-> base]
    <2>1. f \in [0..0 -> S] /\ Upto_(0, f)
        OBVIOUS
    <2> QED BY <2>1
<1>2. ASSUME NEW n \in Nat, n \in Reached
      PROVE  n + 1 \in Reached
    <2> SUFFICES ASSUME n + 1 <= N
                 PROVE  \E g \in [0..(n + 1) -> S] : Upto_(n + 1, g)
        OBVIOUS
    <2>1. PICK f \in [0..n -> S] : Upto_(n, f)
        BY <1>2
    <2> DEFINE g == [x \in 0..(n + 1) |-> IF x = n + 1 THEN step[n + 1][f[n]] ELSE f[x]]
    <2>2. step[n + 1] \in [S -> S] /\ f[n] \in S
        OBVIOUS
    <2>3. g \in [0..(n + 1) -> S]
        BY <2>2
    <2>4. g[0] = base
        BY <2>1
    <2>5. ASSUME NEW x \in 1..(n + 1)
          PROVE  g[x] = step[x][g[x - 1]]
        <3>1. CASE x = n + 1
            <4>1. g[x - 1] = f[n] /\ g[x] = step[n + 1][f[n]]
                BY <3>1
            <4> QED BY <3>1, <4>1
        <3>2. CASE x \in 1..n
            <4>1. g[x - 1] = f[x - 1] /\ g[x] = f[x]
                BY <3>2
            <4> QED BY <2>1, <3>2, <4>1
        <3> QED BY <3>1, <3>2
    <2> QED BY <2>3, <2>4, <2>5
<1>3. N \in Reached
    <2> HIDE DEF Reached
    <2> QED BY <1>1, <1>2, Inductive
<1> QED BY <1>3 DEF Iterates

Digit == 0..(Base - 1)

LEMMA BaseIs == Base \in Nat \ {0, 1} /\ Base \in Nat \ {0} /\ 0 \in Digit /\ SerialDigits \in Nat \ {0}
                /\ WordDigits \in Nat /\ WordDigits >= SerialDigits
BY StoreAssumption DEF Digit

(* The numbers of the first digits of S, one digit after the other.        *)
Numbers(f, S, L) == f[0] = 0 /\ \A i \in 1..L : f[i] = f[i - 1] * Base + S[i]

LEMMA NumberIs ==
    ASSUME NEW L \in Nat, NEW S \in [1..L -> Digit]
    PROVE  \E f \in [0..L -> Nat] : Numbers(f, S, L) /\ f[L] = Number(S)
<1>1. Base \in Nat /\ \A i \in 1..L : S[i] \in Nat
    BY BaseIs DEF Digit
<1>2. Len(S) = L
    OBVIOUS
<1> DEFINE step == [i \in 1..L |-> [n \in Nat |-> n * Base + S[i]]]
<1>3. step \in [1..L -> [Nat -> Nat]]
    BY <1>1
<1>4. PICK f \in [0..L -> Nat] : Iterates(f, 0, step, L)
    <2> HIDE DEF step
    <2> QED BY <1>3, IterationExists
<1>5. Numbers(f, S, L)
    <2>1. f[0] = 0
        BY <1>4 DEF Iterates
    <2>2. ASSUME NEW i \in 1..L PROVE f[i] = f[i - 1] * Base + S[i]
        <3>1. f[i] = step[i][f[i - 1]]
            BY <1>4, Zenon DEF Iterates
        <3>2. f[i - 1] \in Nat
            OBVIOUS
        <3> QED BY <3>1, <3>2
    <2> QED BY <2>1, <2>2 DEF Numbers
<1>6. f = [i \in 0..L |-> IF i = 0 THEN 0 ELSE f[i - 1] * Base + S[i]]
    BY <1>5 DEF Numbers
<1>7. PICK g : g = (CHOOSE h : h = [i \in 0..L |-> IF i = 0 THEN 0 ELSE h[i - 1] * Base + S[i]])
    OBVIOUS
<1>8. g = [i \in 0..L |-> IF i = 0 THEN 0 ELSE g[i - 1] * Base + S[i]]
    BY <1>6, <1>7, Zenon
<1>9. Number(S) = g[L]
    BY <1>2, <1>7 DEF Number
<1>10. Numbers(g, S, L)
    BY <1>8 DEF Numbers
<1>11. g \in [0..L -> Nat]
    <2> DEFINE Typed == {n \in Nat : n <= L => g[n] \in Nat}
    <2>1. 0 \in Typed
        BY <1>10 DEF Numbers
    <2>2. ASSUME NEW n \in Nat, n \in Typed PROVE n + 1 \in Typed
        <3> SUFFICES ASSUME n + 1 <= L PROVE g[n + 1] \in Nat
            OBVIOUS
        <3>1. n + 1 \in 1..L /\ (n + 1) - 1 = n /\ g[n] \in Nat
            BY <2>2
        <3>2. g[n + 1] = g[n] * Base + S[n + 1]
            BY <1>10, <3>1 DEF Numbers
        <3>3. PICK a, b \in Nat : a = g[n] /\ b = S[n + 1]
            BY <1>1, <3>1
        <3>4. a * Base \in Nat
            BY <1>1
        <3> QED BY <3>2, <3>3, <3>4
    <2>3. Nat \subseteq Typed
        <3> HIDE DEF Typed
        <3> QED BY <2>1, <2>2, Inductive
    <2>4. \A n \in 0..L : g[n] \in Nat
        BY <2>3
    <2>5. g = [i \in 0..L |-> g[i]]
        BY <1>8
    <2> QED BY <2>4, <2>5
<1> QED BY <1>9, <1>10, <1>11

LEMMA NumbersAgree ==
    ASSUME NEW L \in Nat, NEW M \in Nat, NEW f, NEW g, NEW S, NEW T,
           Numbers(f, S, L), Numbers(g, T, M), NEW k \in Nat, k <= L, k <= M,
           \A i \in 1..k : S[i] = T[i]
    PROVE  f[k] = g[k]
<1> DEFINE Same == {n \in Nat : n <= k => f[n] = g[n]}
<1>1. 0 \in Same
    BY DEF Numbers
<1>2. ASSUME NEW n \in Nat, n \in Same PROVE n + 1 \in Same
    <2> SUFFICES ASSUME n + 1 <= k PROVE f[n + 1] = g[n + 1]
        OBVIOUS
    <2>1. n + 1 \in 1..L /\ n + 1 \in 1..M /\ n + 1 \in 1..k /\ (n + 1) - 1 = n /\ f[n] = g[n]
        BY <1>2
    <2>2. f[n + 1] = f[n] * Base + S[n + 1] /\ g[n + 1] = g[n] * Base + T[n + 1]
        BY <2>1 DEF Numbers
    <2>3. S[n + 1] = T[n + 1]
        BY <2>1
    <2> QED BY <2>1, <2>2, <2>3, Zenon
<1>3. k \in Same
    <2> HIDE DEF Same
    <2> QED BY <1>1, <1>2, Inductive
<1> QED BY <1>3

(* The first k digits.                                                     *)
Cut(S, k) == [i \in 1..k |-> S[i]]

(* A digit more.                                                           *)
LEMMA NextDigit ==
    ASSUME NEW L \in Nat, NEW S \in [1..(L + 1) -> Digit]
    PROVE  /\ Cut(S, L) \in [1..L -> Digit] /\ Number(Cut(S, L)) \in Nat /\ S[L + 1] \in Digit
           /\ Number(S) \in Nat
           /\ Number(S) = Base * Number(Cut(S, L)) + S[L + 1]
           /\ Number(S) \div Base = Number(Cut(S, L)) /\ Number(S) % Base = S[L + 1]
<1>1. Cut(S, L) \in [1..L -> Digit] /\ S[L + 1] \in Digit
    BY DEF Cut
<1>2. PICK f \in [0..(L + 1) -> Nat] : Numbers(f, S, L + 1) /\ f[L + 1] = Number(S)
    BY NumberIs
<1>3. PICK g \in [0..L -> Nat] : Numbers(g, Cut(S, L), L) /\ g[L] = Number(Cut(S, L))
    BY <1>1, NumberIs
<1>4. f[L] = g[L]
    <2>1. \A i \in 1..L : S[i] = Cut(S, L)[i]
        BY DEF Cut
    <2>2. L <= L + 1 /\ L <= L /\ L + 1 \in Nat
        OBVIOUS
    <2> QED BY ONLY <1>2, <1>3, <2>1, <2>2, NumbersAgree, SMTT(30)
<1>5. PICK m, d \in Nat : m = Number(Cut(S, L)) /\ d = S[L + 1] /\ d \in 0..(Base - 1)
    BY <1>1, <1>3, BaseIs DEF Digit
<1>6. Number(S) = m * Base + d
    <2>1. f[L + 1] = f[L] * Base + S[L + 1]
        <3>1. L + 1 \in 1..(L + 1) /\ (L + 1) - 1 = L
            OBVIOUS
        <3> QED BY <1>2, <3>1 DEF Numbers
    <2> QED BY <1>2, <1>3, <1>4, <1>5, <2>1
<1>7. m * Base = Base * m /\ Base * m \in Nat
    BY BaseIs
<1>8. (Base * m + d) % Base = d /\ (Base * m + d) \div Base = m
    <2>1. m \in Int /\ d \in 0..(Base - 1) /\ Base \in Nat \ {0}
        BY <1>5, BaseIs
    <2> QED BY ONLY <2>1, RemainderIs
<1> QED BY <1>1, <1>5, <1>6, <1>7, <1>8

LEMMA NoDigits == \A S \in [1..0 -> Digit] : Number(S) = 0
<1> SUFFICES ASSUME NEW S \in [1..0 -> Digit] PROVE Number(S) = 0
    OBVIOUS
<1>1. PICK f \in [0..0 -> Nat] : Numbers(f, S, 0) /\ f[0] = Number(S)
    BY NumberIs
<1> QED BY <1>1 DEF Numbers

LEMMA NumberIsNat ==
    ASSUME NEW L \in Nat, NEW S \in [1..L -> Digit]
    PROVE  Number(S) \in Nat
<1>1. PICK f \in [0..L -> Nat] : f[L] = Number(S)
    BY NumberIs
<1> QED BY <1>1

(* The divisions of n by the base, one after the other.                    *)
Shifts(s, n, k) == s[0] = n /\ \A i \in 1..k : s[i] = s[i - 1] \div Base

LEMMA ShiftedIs ==
    ASSUME NEW n \in Nat, NEW L \in Nat
    PROVE  /\ Shifted(n, L) \in Nat
           /\ Shifted(n, 0) = n
           /\ Shifted(n, L + 1) = Shifted(n, L) \div Base
<1>1. ASSUME NEW k \in Nat
      PROVE  \E s \in [0..k -> Nat] : Shifts(s, n, k) /\ s[k] = Shifted(n, k)
    <2> DEFINE step == [i \in 1..k |-> [m \in Nat |-> m \div Base]]
    <2>1. step \in [1..k -> [Nat -> Nat]]
        <3>1. \A m \in Nat : m \div Base \in Nat
            BY BaseIs
        <3> QED BY <3>1
    <2>2. PICK f \in [0..k -> Nat] : Iterates(f, n, step, k)
        <3> HIDE DEF step
        <3> QED BY <2>1, IterationExists
    <2>3. Shifts(f, n, k)
        <3>1. f[0] = n
            BY <2>2 DEF Iterates
        <3>2. ASSUME NEW i \in 1..k PROVE f[i] = f[i - 1] \div Base
            <4>1. f[i] = step[i][f[i - 1]]
                BY <2>2, Zenon DEF Iterates
            <4>2. f[i - 1] \in Nat
                OBVIOUS
            <4> QED BY <4>1, <4>2
        <3> QED BY <3>1, <3>2 DEF Shifts
    <2>4. f = [i \in 0..k |-> IF i = 0 THEN n ELSE f[i - 1] \div Base]
        BY <2>3 DEF Shifts
    <2>5. PICK s : s = (CHOOSE h : h = [i \in 0..k |-> IF i = 0 THEN n ELSE h[i - 1] \div Base])
        OBVIOUS
    <2>6. s = [i \in 0..k |-> IF i = 0 THEN n ELSE s[i - 1] \div Base]
        BY <2>4, <2>5, Zenon
    <2>7. Shifted(n, k) = s[k]
        BY <2>5 DEF Shifted
    <2>8. Shifts(s, n, k)
        BY <2>6 DEF Shifts
    <2>9. s \in [0..k -> Nat]
        <3> DEFINE Typed == {m \in Nat : m <= k => s[m] \in Nat}
        <3>1. 0 \in Typed
            BY <2>8 DEF Shifts
        <3>2. ASSUME NEW m \in Nat, m \in Typed PROVE m + 1 \in Typed
            <4> SUFFICES ASSUME m + 1 <= k PROVE s[m + 1] \in Nat
                OBVIOUS
            <4>1. m + 1 \in 1..k /\ (m + 1) - 1 = m /\ s[m] \in Nat
                BY <3>2
            <4>2. s[m + 1] = s[m] \div Base
                BY <2>8, <4>1 DEF Shifts
            <4>3. PICK a \in Nat : a = s[m]
                BY <4>1
            <4>4. a \div Base \in Nat
                BY BaseIs
            <4> QED BY <4>2, <4>3, <4>4
        <3>3. Nat \subseteq Typed
            <4> HIDE DEF Typed
            <4> QED BY <3>1, <3>2, Inductive
        <3>4. \A m \in 0..k : s[m] \in Nat
            BY <3>3
        <3>5. s = [i \in 0..k |-> s[i]]
            BY <2>6
        <3> QED BY <3>4, <3>5
    <2> QED BY <2>7, <2>8, <2>9
<1>2. PICK s \in [0..L -> Nat] : Shifts(s, n, L) /\ s[L] = Shifted(n, L)
    BY <1>1
<1>3. PICK t \in [0..(L + 1) -> Nat] : Shifts(t, n, L + 1) /\ t[L + 1] = Shifted(n, L + 1)
    <2>1. L + 1 \in Nat
        OBVIOUS
    <2> QED BY <1>1, <2>1
<1>4. PICK z \in [0..0 -> Nat] : Shifts(z, n, 0) /\ z[0] = Shifted(n, 0)
    BY <1>1
<1>5. s[L] = t[L]
    <2> DEFINE Same == {m \in Nat : m <= L => s[m] = t[m]}
    <2>1. 0 \in Same
        BY <1>2, <1>3 DEF Shifts
    <2>2. ASSUME NEW m \in Nat, m \in Same PROVE m + 1 \in Same
        <3> SUFFICES ASSUME m + 1 <= L PROVE s[m + 1] = t[m + 1]
            OBVIOUS
        <3>1. m + 1 \in 1..L /\ m + 1 \in 1..(L + 1) /\ (m + 1) - 1 = m /\ s[m] = t[m]
            BY <2>2
        <3>2. s[m + 1] = s[m] \div Base /\ t[m + 1] = t[m] \div Base
            BY <1>2, <1>3, <3>1 DEF Shifts
        <3> QED BY <3>1, <3>2, Zenon
    <2>3. L \in Same
        <3> HIDE DEF Same
        <3> QED BY <2>1, <2>2, Inductive
    <2> QED BY <2>3
<1>6. t[L + 1] = t[L] \div Base
    <2>1. L + 1 \in 1..(L + 1) /\ (L + 1) - 1 = L
        OBVIOUS
    <2> QED BY <1>3, <2>1 DEF Shifts
<1>7. s[L] \in Nat
    OBVIOUS
<1> QED BY <1>2, <1>3, <1>4, <1>5, <1>6, <1>7 DEF Shifts

(* Dividing takes the last digits off.                                     *)
LEMMA ShiftedNumber ==
    ASSUME NEW L \in Nat, NEW S \in [1..L -> Digit]
    PROVE  \A i \in 0..L : Shifted(Number(S), i) = Number(Cut(S, L - i))
<1>1. PICK n \in Nat : n = Number(S)
    BY NumberIsNat
<1> DEFINE Good == {i \in Nat : i <= L => Shifted(n, i) = Number(Cut(S, L - i))}
<1>2. 0 \in Good
    <2>1. Shifted(n, 0) = n
        BY ShiftedIs
    <2>2. Cut(S, L - 0) = S
        BY DEF Cut
    <2> QED BY <1>1, <2>1, <2>2
<1>3. ASSUME NEW i \in Nat, i \in Good PROVE i + 1 \in Good
    <2> SUFFICES ASSUME i + 1 <= L PROVE Shifted(n, i + 1) = Number(Cut(S, L - (i + 1)))
        OBVIOUS
    <2>1. PICK k \in Nat : k = L - (i + 1) /\ L - i = k + 1
        OBVIOUS
    <2>2. Shifted(n, i + 1) = Shifted(n, i) \div Base
        BY ShiftedIs
    <2>3. Shifted(n, i) = Number(Cut(S, k + 1))
        BY <1>3, <2>1
    <2>4. PICK T \in [1..(k + 1) -> Digit] : T = Cut(S, k + 1) /\ Cut(T, k) = Cut(S, k)
        <3>1. Cut(S, k + 1) \in [1..(k + 1) -> Digit]
            BY <2>1 DEF Cut
        <3>2. Cut(Cut(S, k + 1), k) = Cut(S, k)
            BY DEF Cut
        <3> QED BY <3>1, <3>2
    <2>5. Number(T) \div Base = Number(Cut(T, k))
        BY NextDigit
    <2> QED BY <2>1, <2>2, <2>3, <2>4, <2>5, Zenon
<1>4. \A i \in 0..L : i \in Good
    <2> HIDE DEF Good
    <2> QED BY <1>2, <1>3, Inductive
<1> QED BY <1>1, <1>4

LEMMA DigitOfNumber ==
    ASSUME NEW L \in Nat, NEW S \in [1..L -> Digit], NEW i \in 0..(L - 1)
    PROVE  Shifted(Number(S), i) % Base = S[L - i]
<1>1. PICK k \in Nat : k = L - (i + 1) /\ L - i = k + 1
    OBVIOUS
<1>2. Shifted(Number(S), i) = Number(Cut(S, k + 1))
    BY <1>1, ShiftedNumber
<1>3. PICK T \in [1..(k + 1) -> Digit] : T = Cut(S, k + 1) /\ T[k + 1] = S[L - i]
    <2>1. Cut(S, k + 1) \in [1..(k + 1) -> Digit]
        BY <1>1 DEF Cut
    <2>2. k + 1 \in 1..(k + 1)
        OBVIOUS
    <2>3. Cut(S, k + 1)[k + 1] = S[k + 1]
        BY <2>2 DEF Cut
    <2> QED BY <1>1, <2>1, <2>3
<1>4. Number(T) % Base = T[k + 1]
    BY NextDigit
<1> QED BY <1>2, <1>3, <1>4

LEMMA ReverseIs ==
    ASSUME NEW L \in Nat, NEW S \in [1..L -> Digit]
    PROVE  /\ Reverse(S) \in [1..L -> Digit] /\ Len(S) = L
           /\ \A i \in 1..L : Reverse(S)[i] = S[L - i + 1]
           /\ Reverse(Reverse(S)) = S
<1>1. Len(S) = L
    OBVIOUS
<1>2. \A i \in 1..L : L - i + 1 \in 1..L
    OBVIOUS
<1>3. Reverse(S) = [i \in 1..L |-> S[L - i + 1]]
    BY <1>1 DEF Reverse
<1>4. Reverse(S) \in [1..L -> Digit] /\ \A i \in 1..L : Reverse(S)[i] = S[L - i + 1]
    BY <1>2, <1>3
<1>5. PICK R \in [1..L -> Digit] : R = Reverse(S) /\ \A i \in 1..L : R[i] = S[L - i + 1]
    BY <1>4
<1>6. Len(R) = L
    OBVIOUS
<1>7. Reverse(R) = [i \in 1..L |-> R[L - i + 1]]
    BY <1>6 DEF Reverse
<1>8. \A i \in 1..L : R[L - i + 1] = S[i]
    <2> SUFFICES ASSUME NEW i \in 1..L PROVE R[L - i + 1] = S[i]
        OBVIOUS
    <2>1. PICK j \in 1..L : j = L - i + 1 /\ L - j + 1 = i
        OBVIOUS
    <2> QED BY <1>5, <2>1
<1>9. Reverse(R) = S
    BY <1>7, <1>8
<1> QED BY <1>1, <1>4, <1>5, <1>9

Serial_ == [1..SerialDigits -> Digit]

(* A serial number comes back from its number.                             *)
LEMMA SerialOfNumber ==
    ASSUME NEW S \in Serial_
    PROVE  IntToSerialNumber(Number(S)) = S
<1>1. PICK L \in Nat \ {0} : L = SerialDigits
    BY BaseIs
<1>2. S \in [1..L -> Digit]
    BY <1>1 DEF Serial_
<1>3. PICK T : T = LastDigits(Number(S), L)
    OBVIOUS
<1>4. ASSUME NEW i \in 1..L PROVE T[i] = S[L - i + 1]
    <2>1. i - 1 \in 0..(L - 1) /\ L - (i - 1) = L - i + 1
        OBVIOUS
    <2>2. T[i] = Shifted(Number(S), i - 1) % Base
        BY <1>3 DEF LastDigits
    <2> QED BY <1>2, <2>1, <2>2, DigitOfNumber
<1>5. T = Reverse(S)
    <2>1. PICK R \in [1..L -> Digit] : R = Reverse(S) /\ \A i \in 1..L : R[i] = S[L - i + 1]
        <3>1. Reverse(S) \in [1..L -> Digit] /\ \A i \in 1..L : Reverse(S)[i] = S[L - i + 1]
            <4>1. L \in Nat
                OBVIOUS
            <4> QED BY <1>2, <4>1, ReverseIs
        <3> QED BY <3>1
    <2>2. T = [i \in 1..L |-> T[i]]
        BY <1>3 DEF LastDigits
    <2>3. \A i \in 1..L : T[i] = R[i]
        BY <1>4, <2>1
    <2> QED BY <2>1, <2>2, <2>3
<1>6. IntToSerialNumber(Number(S)) = Reverse(T)
    BY <1>1, <1>3 DEF IntToSerialNumber
<1> QED BY <1>2, <1>5, <1>6, ReverseIs

LEMMA NumbersDiffer ==
    ASSUME NEW L \in Nat, NEW S \in [1..L -> Digit], NEW T \in [1..L -> Digit],
           Number(S) = Number(T)
    PROVE  S = T
<1>1. ASSUME NEW i \in 1..L PROVE S[i] = T[i]
    <2>1. PICK k \in 0..(L - 1) : k = L - i /\ L - k = i
        OBVIOUS
    <2>2. Shifted(Number(S), k) % Base = S[i] /\ Shifted(Number(T), k) % Base = T[i]
        BY <2>1, DigitOfNumber
    <2> QED BY <2>2
<1> QED BY <1>1

(* What Reverse makes of the number of a serial number is the number of    *)
(* its digits backwards.                                                   *)
LEMMA ReverseOfNumber ==
    ASSUME NEW S \in Serial_
    PROVE  ReverseNumber(Number(S)) = Number(Reverse(S))
<1>1. PICK L \in Nat \ {0}, W \in Nat : L = SerialDigits /\ W = WordDigits /\ W >= L
    BY BaseIs
<1>2. S \in [1..L -> Digit]
    BY <1>1 DEF Serial_
<1>3. PICK n \in Nat : n = Number(S)
    BY <1>2, NumberIsNat
<1>4. PICK T : T = LastDigits(n, W)
    OBVIOUS
<1>5. T \in [1..W -> Digit]
    <2>1. \A i \in 1..W : Shifted(n, i - 1) % Base \in Digit
        <3> SUFFICES ASSUME NEW i \in 1..W PROVE Shifted(n, i - 1) % Base \in Digit
            OBVIOUS
        <3>1. i - 1 \in Nat
            OBVIOUS
        <3>2. PICK a \in Nat : a = Shifted(n, i - 1)
            BY <3>1, ShiftedIs
        <3>3. a % Base \in 0..(Base - 1)
            BY BaseIs
        <3> QED BY <3>2, <3>3 DEF Digit
    <2> QED BY <1>4, <2>1 DEF LastDigits
<1>6. Cut(T, L) = Reverse(S)
    <2>1. PICK R \in [1..L -> Digit] : R = Reverse(S) /\ \A i \in 1..L : R[i] = S[L - i + 1]
        <3>1. Reverse(S) \in [1..L -> Digit] /\ \A i \in 1..L : Reverse(S)[i] = S[L - i + 1]
            <4>1. L \in Nat
                OBVIOUS
            <4> QED BY <1>2, <4>1, ReverseIs
        <3> QED BY <3>1
    <2>2. ASSUME NEW i \in 1..L PROVE T[i] = R[i]
        <3>1. i - 1 \in 0..(L - 1) /\ L - (i - 1) = L - i + 1 /\ i \in 1..W
            BY <1>1
        <3>2. T[i] = Shifted(n, i - 1) % Base
            BY <1>4, <3>1 DEF LastDigits
        <3> QED BY <1>2, <1>3, <2>1, <3>1, <3>2, DigitOfNumber
    <2>3. \A i \in 1..L : Cut(T, L)[i] = R[i]
        BY <2>2 DEF Cut
    <2>4. Cut(T, L) = [i \in 1..L |-> Cut(T, L)[i]]
        BY DEF Cut
    <2> QED BY <2>1, <2>3, <2>4
<1>7. Shifted(Number(T), W - L) = Number(Cut(T, L))
    <2>1. W - L \in 0..W /\ W - (W - L) = L
        BY <1>1
    <2> QED BY <1>5, <2>1, ShiftedNumber
<1> QED BY <1>1, <1>3, <1>4, <1>6, <1>7 DEF ReverseNumber

(* Dividing keeps the order.                                               *)
LEMMA DivisionGrows ==
    ASSUME NEW n \in Nat \ {0}, NEW a \in Int, NEW b \in Int, a <= b
    PROVE  a \div n <= b \div n
<1>1. PICK p, q, r, s \in Int : /\ p = a \div n /\ q = b \div n
                                /\ a = n * p + r /\ b = n * q + s
                                /\ 0 <= r /\ s < n
    <2>1. /\ a \div n \in Int /\ a % n \in 0..(n - 1) /\ a = n * (a \div n) + (a % n)
        BY DivisionIs
    <2>2. /\ b \div n \in Int /\ b % n \in 0..(n - 1) /\ b = n * (b \div n) + (b % n)
        BY DivisionIs
    <2>3. PICK p, r \in Int : p = a \div n /\ r = a % n /\ a = n * p + r /\ 0 <= r
        BY <2>1
    <2>4. PICK q, s \in Int : q = b \div n /\ s = b % n /\ b = n * q + s /\ s < n
        BY <2>2
    <2> QED BY <2>3, <2>4
<1> SUFFICES ASSUME q + 1 <= p PROVE FALSE
    BY <1>1
<1>2. n * (q + 1) <= n * p
    BY LargerProduct
<1>3. n * (q + 1) = n * q + n * 1
    BY ProductOfSum
<1>4. PICK x, y \in Int : x = n * q /\ y = n * p
    OBVIOUS
<1>5. n * 1 = n
    OBVIOUS
<1>6. x + n <= y /\ a = y + r /\ b = x + s
    BY <1>1, <1>2, <1>3, <1>4, <1>5
<1> QED BY <1>1, <1>6

LEMMA ShiftedGrows ==
    ASSUME NEW a \in Nat, NEW b \in Nat, a <= b, NEW i \in Nat
    PROVE  Shifted(a, i) <= Shifted(b, i)
<1> DEFINE Good == {k \in Nat : Shifted(a, k) <= Shifted(b, k)}
<1>1. 0 \in Good
    <2>1. Shifted(a, 0) = a /\ Shifted(b, 0) = b
        BY ShiftedIs
    <2> QED BY <2>1
<1>2. ASSUME NEW k \in Nat, k \in Good PROVE k + 1 \in Good
    <2>1. PICK x, y \in Nat : x = Shifted(a, k) /\ y = Shifted(b, k) /\ x <= y
        BY <1>2, ShiftedIs
    <2>2. Shifted(a, k + 1) = x \div Base /\ Shifted(b, k + 1) = y \div Base
        BY <2>1, ShiftedIs
    <2>3. x \div Base <= y \div Base
        BY <2>1, BaseIs, DivisionGrows
    <2> QED BY <2>2, <2>3
<1>3. i \in Good
    <2> HIDE DEF Good
    <2> QED BY <1>1, <1>2, Inductive
<1> QED BY <1>3

(* No digit greater, no number greater.                                    *)
LEMMA NoGreater ==
    ASSUME NEW L \in Nat, NEW S \in [1..L -> Digit], NEW T \in [1..L -> Digit],
           \A i \in 1..L : S[i] <= T[i]
    PROVE  Number(S) <= Number(T)
<1> DEFINE Good == {k \in Nat : k <= L => Number(Cut(S, k)) <= Number(Cut(T, k))}
<1>1. 0 \in Good
    <2>1. Cut(S, 0) \in [1..0 -> Digit] /\ Cut(T, 0) \in [1..0 -> Digit]
        BY DEF Cut
    <2>2. Number(Cut(S, 0)) = 0 /\ Number(Cut(T, 0)) = 0
        BY <2>1, NoDigits
    <2> QED BY <2>2
<1>2. ASSUME NEW k \in Nat, k \in Good PROVE k + 1 \in Good
    <2> SUFFICES ASSUME k + 1 <= L PROVE Number(Cut(S, k + 1)) <= Number(Cut(T, k + 1))
        OBVIOUS
    <2>1. PICK Q \in [1..(k + 1) -> Digit] : Q = Cut(S, k + 1) /\ Cut(Q, k) = Cut(S, k) /\ Q[k + 1] = S[k + 1]
        <3>1. Cut(S, k + 1) \in [1..(k + 1) -> Digit]
            BY DEF Cut
        <3>2. Cut(Cut(S, k + 1), k) = Cut(S, k)
            BY DEF Cut
        <3>3. k + 1 \in 1..(k + 1)
            OBVIOUS
        <3>4. Cut(S, k + 1)[k + 1] = S[k + 1]
            BY <3>3 DEF Cut
        <3> QED BY <3>1, <3>2, <3>4
    <2>2. PICK R \in [1..(k + 1) -> Digit] : R = Cut(T, k + 1) /\ Cut(R, k) = Cut(T, k) /\ R[k + 1] = T[k + 1]
        <3>1. Cut(T, k + 1) \in [1..(k + 1) -> Digit]
            BY DEF Cut
        <3>2. Cut(Cut(T, k + 1), k) = Cut(T, k)
            BY DEF Cut
        <3>3. k + 1 \in 1..(k + 1)
            OBVIOUS
        <3>4. Cut(T, k + 1)[k + 1] = T[k + 1]
            BY <3>3 DEF Cut
        <3> QED BY <3>1, <3>2, <3>4
    <2>3. PICK m, x \in Nat : /\ m = Number(Cut(S, k)) /\ x = S[k + 1] /\ Number(Q) = Base * m + x
        <3>1. /\ Number(Cut(Q, k)) \in Nat /\ Q[k + 1] \in Digit
              /\ Number(Q) = Base * Number(Cut(Q, k)) + Q[k + 1]
            BY NextDigit
        <3> QED BY <2>1, <3>1 DEF Digit
    <2>4. PICK n, y \in Nat : /\ n = Number(Cut(T, k)) /\ y = T[k + 1] /\ Number(R) = Base * n + y
        <3>1. /\ Number(Cut(R, k)) \in Nat /\ R[k + 1] \in Digit
              /\ Number(R) = Base * Number(Cut(R, k)) + R[k + 1]
            BY NextDigit
        <3> QED BY <2>2, <3>1 DEF Digit
    <2>5. m <= n /\ x <= y
        <3>1. k + 1 \in 1..L
            OBVIOUS
        <3> QED BY <1>2, <2>3, <2>4, <3>1
    <2>6. Base * m <= Base * n /\ Base \in Nat
        BY <2>5, BaseIs, LargerProduct
    <2>7. PICK u, v \in Nat : u = Base * m /\ v = Base * n
        BY BaseIs
    <2>8. u + x <= v + y
        BY <2>5, <2>6, <2>7
    <2> QED BY <2>1, <2>2, <2>3, <2>4, <2>7, <2>8
<1>3. L \in Good
    <2> HIDE DEF Good
    <2> QED BY <1>1, <1>2, Inductive
<1>4. Cut(S, L) = S /\ Cut(T, L) = T
    BY DEF Cut
<1> QED BY <1>3, <1>4

(* The numbers of so many digits are bounded.                              *)
LEMMA NumbersBounded ==
    ASSUME NEW L \in Nat
    PROVE  \E M \in Nat : \A S \in [1..L -> Digit] : Number(S) <= M
<1>1. PICK S9 \in [1..L -> Digit] : \A i \in 1..L : S9[i] = Base - 1
    <2>1. Base - 1 \in Digit
        BY BaseIs DEF Digit
    <2>2. [i \in 1..L |-> Base - 1] \in [1..L -> Digit]
        BY <2>1
    <2> QED BY <2>2
<1>2. ASSUME NEW S \in [1..L -> Digit] PROVE Number(S) <= Number(S9)
    <2>1. \A i \in 1..L : S[i] <= S9[i]
        BY <1>1, BaseIs DEF Digit
    <2> QED BY <2>1, NoGreater
<1>3. Number(S9) \in Nat
    BY NumberIsNat
<1> QED BY <1>2, <1>3

(* A serial number begins with S when so does its number.                  *)
LEMMA PrefixIs ==
    ASSUME NEW k \in Nat, NEW S \in [1..k -> Digit], k <= SerialDigits, NEW T \in Serial_
    PROVE  IsPrefix(S, T) <=> Shifted(Number(T), SerialDigits - k) = Number(S)
<1>1. PICK L \in Nat : L = SerialDigits
    BY BaseIs
<1>2. T \in [1..L -> Digit] /\ Len(T) = L /\ Len(S) = k /\ T \in Seq(Digit) /\ S \in Seq(Digit)
    BY <1>1 DEF Serial_
<1>3. IsPrefix(S, T) <=> S = Cut(T, k)
    <2>1. SubSeq(S, 1, k) = S
        BY <1>2
    <2>2. SubSeq(T, 1, k) = Cut(T, k)
        BY <1>1, <1>2 DEF Cut
    <2> QED BY <1>1, <1>2, <2>1, <2>2 DEF IsPrefix
<1>4. Cut(T, k) \in [1..k -> Digit]
    BY <1>1, <1>2 DEF Cut
<1>5. Shifted(Number(T), L - k) = Number(Cut(T, k))
    <2>1. L - k \in 0..L /\ L - (L - k) = k
        BY <1>1
    <2> QED BY <1>2, <2>1, ShiftedNumber
<1>6. Number(S) = Number(Cut(T, k)) => S = Cut(T, k)
    BY <1>4, NumbersDiffer
<1> QED BY <1>1, <1>3, <1>5, <1>6

-----------------------------------------------------------------------------
(* The store: sorted numbers. *)

(* Sorted without repetition.                                              *)
Rising(A) == A \in Seq(Nat) /\ \A i, j \in 1..Len(A) : i < j => A[i] < A[j]

LEMMA InitialSegment ==
    ASSUME NEW L \in Nat, NEW X \in SUBSET (1..L), \A i \in X : \A j \in 1..L : j < i => j \in X
    PROVE  Cardinality(X) \in 0..L /\ X = 1..Cardinality(X)
<1> DEFINE T == {n \in Nat : n + 1 \notin X}
<1>1. T \in SUBSET Nat /\ T # {}
    <2>1. L \in T
        OBVIOUS
    <2> QED BY <2>1
<1>2. PICK m \in T : \A n \in T : m <= n
    <2> HIDE DEF T
    <2> QED BY <1>1, LeastNumber
<1>3. ASSUME NEW i \in 1..m PROVE i \in X
    <2>1. i - 1 \in Nat /\ ~(m <= i - 1) /\ (i - 1) + 1 = i
        BY <1>2
    <2> QED BY <1>2, <2>1
<1>4. ASSUME NEW i \in X PROVE i \in 1..m
    <2>1. i \in 1..L /\ m + 1 \notin X /\ m \in Nat
        BY <1>2
    <2>2. ~(m + 1 < i)
        <3> SUFFICES ASSUME m + 1 < i PROVE FALSE
            OBVIOUS
        <3>1. m + 1 \in 1..L
            BY <2>1
        <3> QED BY <2>1, <3>1
    <2>3. i # m + 1
        BY <2>1
    <2> QED BY <2>1, <2>2, <2>3
<1>5. X = 1..m /\ m \in Nat
    BY <1>2, <1>3, <1>4
<1>6. Cardinality(X) = m
    BY <1>5, FS_Interval
<1>7. m <= L
    BY <1>5
<1> QED BY <1>5, <1>6, <1>7

LEMMA LowerBoundIs ==
    ASSUME NEW A, Rising(A), NEW n \in Nat
    PROVE  /\ LowerBound(A, n) \in 1..(Len(A) + 1)
           /\ \A i \in 1..Len(A) : A[i] < n <=> i < LowerBound(A, n)
<1>1. PICK L \in Nat : L = Len(A) /\ A \in [1..L -> Nat] /\ DOMAIN A = 1..L
    BY DEF Rising
<1>2. PICK X \in SUBSET (1..L) : X = {i \in 1..L : A[i] < n}
    OBVIOUS
<1>3. \A i \in X : \A j \in 1..L : j < i => j \in X
    <2> SUFFICES ASSUME NEW i \in X, NEW j \in 1..L, j < i PROVE A[j] < n
        BY <1>2
    <2>1. A[j] < A[i] /\ A[i] < n
        BY <1>1, <1>2 DEF Rising
    <2>2. A[j] \in Nat /\ A[i] \in Nat
        BY <1>1
    <2> QED BY <2>1, <2>2
<1>4. PICK m \in 0..L : m = Cardinality(X) /\ X = 1..m
    BY <1>3, InitialSegment
<1>5. LowerBound(A, n) = m + 1
    BY <1>1, <1>2, <1>4 DEF LowerBound
<1>6. \A i \in 1..L : A[i] < n <=> i < m + 1
    <2> SUFFICES ASSUME NEW i \in 1..L PROVE A[i] < n <=> i < m + 1
        OBVIOUS
    <2>1. A[i] < n <=> i \in X
        BY <1>2
    <2>2. i \in X <=> i \in 1..m
        BY <1>4
    <2>3. i \in 1..m <=> i < m + 1
        OBVIOUS
    <2> QED BY <2>1, <2>2, <2>3
<1> QED BY <1>1, <1>5, <1>6

LEMMA InsertKeepsRising ==
    ASSUME NEW A, Rising(A), NEW n \in Nat, n \notin ToSet(A)
    PROVE  Rising(Insert_(A, n)) /\ ToSet(Insert_(A, n)) = ToSet(A) \cup {n}
<1>1. PICK L \in Nat : L = Len(A) /\ A \in [1..L -> Nat] /\ DOMAIN A = 1..L /\ A \in Seq(Nat)
    BY DEF Rising
<1>2. PICK p \in 1..(L + 1) : p = LowerBound(A, n) /\ \A i \in 1..L : A[i] < n <=> i < p
    BY <1>1, LowerBoundIs
<1>3. PICK q : q = Insert_(A, n)
    OBVIOUS
<1>4. q = (SubSeq(A, 1, p - 1) \o <<n>>) \o SubSeq(A, p, L)
    BY <1>1, <1>2, <1>3 DEF Insert_, InsertAt
<1>5. PICK a : /\ a = SubSeq(A, 1, p - 1) /\ a \in Seq(Nat) /\ Len(a) = p - 1
               /\ \A i \in 1..(p - 1) : a[i] = A[i]
    <2>1. \A i \in 1..(p - 1) : A[i] \in Nat
        BY <1>1
    <2>2. PICK a : a = SubSeq(A, 1, p - 1)
        OBVIOUS
    <2>3. /\ a \in Seq(Nat) /\ Len(a) = IF 1 <= p - 1 THEN (p - 1) - 1 + 1 ELSE 0
          /\ \A i \in 1..((p - 1) - 1 + 1) : a[i] = A[1 + i - 1]
        <3>1. 1 \in Int /\ p - 1 \in Int
            OBVIOUS
        <3> QED BY <2>1, <2>2, <3>1, SubSeqProperties
    <2>4. Len(a) = p - 1
        BY <2>3
    <2>5. ASSUME NEW i \in 1..(p - 1) PROVE a[i] = A[i]
        <3>1. i \in 1..((p - 1) - 1 + 1) /\ 1 + i - 1 = i
            OBVIOUS
        <3> QED BY <2>3, <3>1
    <2> QED BY <2>2, <2>3, <2>4, <2>5
<1>6. PICK b : /\ b = SubSeq(A, p, L) /\ b \in Seq(Nat) /\ Len(b) = L - p + 1
               /\ \A i \in 1..(L - p + 1) : b[i] = A[p + i - 1]
    <2>1. \A i \in p..L : A[i] \in Nat
        BY <1>1
    <2>2. PICK b : b = SubSeq(A, p, L)
        OBVIOUS
    <2>3. /\ b \in Seq(Nat) /\ Len(b) = IF p <= L THEN L - p + 1 ELSE 0
          /\ \A i \in 1..(L - p + 1) : b[i] = A[p + i - 1]
        <3>1. p \in Int /\ L \in Int
            OBVIOUS
        <3> QED BY <2>1, <2>2, <3>1, SubSeqProperties
    <2>4. Len(b) = L - p + 1
        BY <2>3
    <2> QED BY <2>2, <2>3, <2>4
<1>7. PICK c : /\ c = a \o <<n>> /\ c \in Seq(Nat) /\ Len(c) = p
               /\ \A i \in 1..p : c[i] = IF i <= p - 1 THEN A[i] ELSE n
    <2>1. <<n>> \in Seq(Nat) /\ Len(<<n>>) = 1 /\ <<n>>[1] = n
        OBVIOUS
    <2>2. /\ a \o <<n>> \in Seq(Nat) /\ Len(a \o <<n>>) = (p - 1) + 1
          /\ \A i \in 1..((p - 1) + 1) : (a \o <<n>>)[i] = IF i <= p - 1 THEN a[i] ELSE <<n>>[i - (p - 1)]
        BY <1>5, <2>1, ConcatProperties
    <2>3. PICK c : c = a \o <<n>>
        OBVIOUS
    <2>4. (p - 1) + 1 = p
        OBVIOUS
    <2>5. ASSUME NEW i \in 1..p PROVE c[i] = IF i <= p - 1 THEN A[i] ELSE n
        <3>1. c[i] = IF i <= p - 1 THEN a[i] ELSE <<n>>[i - (p - 1)]
            BY <2>2, <2>3, <2>4
        <3>2. CASE i <= p - 1
            BY <1>5, <3>1, <3>2
        <3>3. CASE ~(i <= p - 1)
            <4>1. i - (p - 1) = 1
                BY <3>3
            <4> QED BY <2>1, <3>1, <3>3, <4>1
        <3> QED BY <3>2, <3>3
    <2> QED BY <2>2, <2>3, <2>4, <2>5
<1>8. /\ q \in Seq(Nat) /\ Len(q) = L + 1
      /\ \A i \in 1..(L + 1) : q[i] = IF i < p THEN A[i] ELSE IF i = p THEN n ELSE A[i - 1]
    <2>1. /\ q \in Seq(Nat) /\ Len(q) = p + (L - p + 1)
          /\ \A i \in 1..(p + (L - p + 1)) : q[i] = IF i <= p THEN c[i] ELSE b[i - p]
        <3>1. c \in Seq(Nat) /\ Len(c) = p /\ b \in Seq(Nat) /\ Len(b) = L - p + 1 /\ q = c \o b
            BY <1>4, <1>5, <1>6, <1>7
        <3>2. /\ c \o b \in Seq(Nat) /\ Len(c \o b) = Len(c) + Len(b)
              /\ \A i \in 1..(Len(c) + Len(b)) :
                   (c \o b)[i] = IF i <= Len(c) THEN c[i] ELSE b[i - Len(c)]
            BY ONLY <3>1, ConcatProperties
        <3> QED BY ONLY <3>1, <3>2
    <2>2. p + (L - p + 1) = L + 1
        OBVIOUS
    <2>3. ASSUME NEW i \in 1..(L + 1) PROVE q[i] = IF i < p THEN A[i] ELSE IF i = p THEN n ELSE A[i - 1]
        <3>1. CASE i <= p
            <4>1. q[i] = c[i] /\ i \in 1..p
                BY <2>1, <2>2, <3>1
            <4>2. c[i] = IF i <= p - 1 THEN A[i] ELSE n
                BY <1>7, <4>1
            <4>3. i <= p - 1 <=> i < p
                OBVIOUS
            <4> QED BY <3>1, <4>1, <4>2, <4>3
        <3>2. CASE i > p
            <4>1. i - p \in 1..(L - p + 1) /\ p + (i - p) - 1 = i - 1
                BY <3>2
            <4> QED BY <1>6, <2>1, <2>2, <3>2, <4>1
        <3> QED BY <3>1, <3>2
    <2> QED BY <2>1, <2>2, <2>3
<1>9. \A i \in 1..L : A[i] \in Nat /\ A[i] # n /\ (i < p => A[i] < n) /\ (i >= p => n < A[i])
    <2>1. \A i \in 1..L : A[i] \in ToSet(A)
        BY <1>1 DEF ToSet
    <2> QED BY <1>1, <1>2, <2>1
<1>10. ASSUME NEW i \in 1..(L + 1), NEW j \in 1..(L + 1), i < j PROVE q[i] < q[j]
    <2>1. \A x, y \in 1..L : x < y => A[x] < A[y]
        BY <1>1 DEF Rising
    <2>2. /\ q[i] = IF i < p THEN A[i] ELSE IF i = p THEN n ELSE A[i - 1]
          /\ q[j] = IF j < p THEN A[j] ELSE IF j = p THEN n ELSE A[j - 1]
        BY <1>8
    <2>3. CASE j < p
        <3>1. i \in 1..L /\ j \in 1..L /\ i < p /\ A[i] < A[j]
            BY <1>10, <2>1, <2>3
        <3> QED BY <2>2, <2>3, <3>1
    <2>4. CASE j = p
        <3>1. i \in 1..L /\ i < p /\ A[i] < n
            BY <1>9, <1>10, <2>4
        <3> QED BY <2>2, <2>4, <3>1
    <2>5. CASE j > p /\ i < p
        <3>1. i \in 1..L /\ j - 1 \in 1..L /\ i < j - 1
            BY <2>5
        <3>2. A[i] < A[j - 1]
            BY <2>1, <3>1
        <3> QED BY <2>2, <2>5, <3>2
    <2>6. CASE j > p /\ i = p
        <3>1. j - 1 \in 1..L /\ j - 1 >= p
            BY <2>6
        <3>2. n < A[j - 1]
            BY <1>9, <3>1
        <3> QED BY <2>2, <2>6, <3>2
    <2>7. CASE j > p /\ i > p
        <3>1. i - 1 \in 1..L /\ j - 1 \in 1..L /\ i - 1 < j - 1
            BY <1>10, <2>7
        <3>2. A[i - 1] < A[j - 1]
            BY <2>1, <3>1
        <3> QED BY <2>2, <2>7, <3>2
    <2> QED BY <1>10, <2>3, <2>4, <2>5, <2>6, <2>7
<1>11. ToSet(q) = ToSet(A) \cup {n}
    <2>1. DOMAIN q = 1..(L + 1)
        BY <1>8
    <2>2. ASSUME NEW i \in 1..(L + 1) PROVE q[i] \in ToSet(A) \cup {n}
        <3>1. \A k \in 1..L : A[k] \in ToSet(A)
            BY <1>1 DEF ToSet
        <3>2. CASE i < p
            <4>1. i \in 1..L /\ q[i] = A[i]
                BY <1>8, <3>2
            <4> QED BY <3>1, <4>1
        <3>3. CASE i = p
            BY <1>8, <3>3
        <3>4. CASE i > p
            <4>1. i - 1 \in 1..L /\ q[i] = A[i - 1]
                BY <1>8, <3>4
            <4> QED BY <3>1, <4>1
        <3> QED BY <3>2, <3>3, <3>4
    <2>3. ASSUME NEW i \in 1..L PROVE A[i] \in ToSet(q)
        <3>1. CASE i < p
            <4>1. i \in 1..(L + 1) /\ q[i] = A[i]
                BY <1>8, <3>1
            <4> QED BY <2>1, <4>1 DEF ToSet
        <3>2. CASE i >= p
            <4>1. i + 1 \in 1..(L + 1) /\ i + 1 > p /\ (i + 1) - 1 = i
                BY <3>2
            <4>2. q[i + 1] = A[i]
                BY <1>8, <4>1
            <4> QED BY <2>1, <4>1, <4>2 DEF ToSet
        <3> QED BY <3>1, <3>2
    <2>4. n \in ToSet(q)
        <3>1. p \in 1..(L + 1) /\ q[p] = n
            BY <1>8
        <3> QED BY <2>1, <3>1 DEF ToSet
    <2>5. ToSet(q) \subseteq ToSet(A) \cup {n}
        BY <2>1, <2>2 DEF ToSet
    <2>6. ToSet(A) \subseteq ToSet(q)
        BY <1>1, <2>3 DEF ToSet
    <2> QED BY <2>4, <2>5, <2>6
<1>12. Rising(q)
    BY <1>8, <1>10 DEF Rising
<1> QED BY <1>3, <1>11, <1>12

LEMMA EraseKeepsRising ==
    ASSUME NEW A, Rising(A), NEW n \in Nat
    PROVE  Rising(Erase(A, n)) /\ ToSet(Erase(A, n)) = ToSet(A) \ {n}
<1>1. PICK L \in Nat : L = Len(A) /\ A \in [1..L -> Nat] /\ DOMAIN A = 1..L /\ A \in Seq(Nat)
    BY DEF Rising
<1>2. CASE n \notin ToSet(A)
    BY <1>2 DEF Erase
<1>3. CASE n \in ToSet(A)
    <2>1. PICK p : p = CHOOSE i \in DOMAIN A : A[i] = n
        OBVIOUS
    <2>2. p \in 1..L /\ A[p] = n
        <3>1. \E i \in DOMAIN A : A[i] = n
            BY <1>3 DEF ToSet
        <3> QED BY <1>1, <2>1, <3>1
    <2>3. PICK q : q = SubSeq(A, 1, p - 1) \o SubSeq(A, p + 1, L)
        OBVIOUS
    <2>4. Erase(A, n) = q
        BY <1>1, <1>3, <2>1, <2>3 DEF Erase, RemoveAt
    <2>5. PICK a : /\ a = SubSeq(A, 1, p - 1) /\ a \in Seq(Nat) /\ Len(a) = p - 1
                   /\ \A i \in 1..(p - 1) : a[i] = A[i]
        <3>1. \A i \in 1..(p - 1) : A[i] \in Nat
            BY <1>1, <2>2
        <3>2. PICK a : a = SubSeq(A, 1, p - 1)
            OBVIOUS
        <3>3. /\ a \in Seq(Nat) /\ Len(a) = IF 1 <= p - 1 THEN (p - 1) - 1 + 1 ELSE 0
              /\ \A i \in 1..((p - 1) - 1 + 1) : a[i] = A[1 + i - 1]
            <4>1. 1 \in Int /\ p - 1 \in Int
                BY <2>2
            <4> QED BY <3>1, <3>2, <4>1, SubSeqProperties
        <3>4. Len(a) = p - 1
            BY <2>2, <3>3
        <3>5. ASSUME NEW i \in 1..(p - 1) PROVE a[i] = A[i]
            <4>1. i \in 1..((p - 1) - 1 + 1) /\ 1 + i - 1 = i
                BY <2>2
            <4> QED BY <3>3, <4>1
        <3> QED BY <3>2, <3>3, <3>4, <3>5
    <2>6. PICK b : /\ b = SubSeq(A, p + 1, L) /\ b \in Seq(Nat) /\ Len(b) = L - p
                   /\ \A i \in 1..(L - p) : b[i] = A[p + i]
        <3>1. \A i \in (p + 1)..L : A[i] \in Nat
            BY <1>1, <2>2
        <3>2. PICK b : b = SubSeq(A, p + 1, L)
            OBVIOUS
        <3>3. /\ b \in Seq(Nat) /\ Len(b) = IF p + 1 <= L THEN L - (p + 1) + 1 ELSE 0
              /\ \A i \in 1..(L - (p + 1) + 1) : b[i] = A[p + 1 + i - 1]
            <4>1. p + 1 \in Int /\ L \in Int
                BY <2>2
            <4> QED BY <3>1, <3>2, <4>1, SubSeqProperties
        <3>4. Len(b) = L - p
            BY <2>2, <3>3
        <3>5. ASSUME NEW i \in 1..(L - p) PROVE b[i] = A[p + i]
            <4>1. i \in 1..(L - (p + 1) + 1) /\ p + 1 + i - 1 = p + i
                BY <2>2
            <4> QED BY <3>3, <4>1
        <3> QED BY <3>2, <3>3, <3>4, <3>5
    <2>7. PICK M \in Nat : M = L - 1 /\ (p - 1) + (L - p) = M
        BY <2>2
    <2>8. /\ q \in Seq(Nat) /\ Len(q) = M
          /\ \A i \in 1..M : q[i] = IF i < p THEN A[i] ELSE A[i + 1]
        <3>1. /\ q \in Seq(Nat) /\ Len(q) = (p - 1) + (L - p)
              /\ \A i \in 1..((p - 1) + (L - p)) : q[i] = IF i <= p - 1 THEN a[i] ELSE b[i - (p - 1)]
            <4>1. a \in Seq(Nat) /\ b \in Seq(Nat)
                BY <2>5, <2>6
            <4>2. /\ a \o b \in Seq(Nat) /\ Len(a \o b) = Len(a) + Len(b)
                  /\ \A i \in 1..(Len(a) + Len(b)) :
                       (a \o b)[i] = IF i <= Len(a) THEN a[i] ELSE b[i - Len(a)]
                BY ONLY <4>1, ConcatProperties
            <4>3. q = a \o b /\ Len(a) = p - 1 /\ Len(b) = L - p
                BY <2>3, <2>5, <2>6
            <4> QED BY ONLY <4>2, <4>3
        <3>2. ASSUME NEW i \in 1..M PROVE q[i] = IF i < p THEN A[i] ELSE A[i + 1]
            <4>1. q[i] = IF i <= p - 1 THEN a[i] ELSE b[i - (p - 1)]
                BY <2>7, <3>1
            <4>2. CASE i < p
                <5>1. i <= p - 1 /\ i \in 1..(p - 1)
                    BY <2>2, <4>2
                <5> QED BY <2>5, <4>1, <4>2, <5>1
            <4>3. CASE ~(i < p)
                <5>1. ~(i <= p - 1) /\ i - (p - 1) \in 1..(L - p) /\ p + (i - (p - 1)) = i + 1
                    BY <2>2, <2>7, <4>3
                <5>2. b[i - (p - 1)] = A[p + (i - (p - 1))]
                    BY <2>6, <5>1
                <5> QED BY <4>1, <4>3, <5>1, <5>2
            <4> QED BY <4>2, <4>3
        <3> QED BY <2>7, <3>1, <3>2
    <2>9. \A x, y \in 1..L : x < y => A[x] < A[y]
        BY <1>1 DEF Rising
    <2>10. ASSUME NEW i \in 1..M, NEW j \in 1..M, i < j PROVE q[i] < q[j]
        <3>1. PICK x, y \in 1..L : /\ x = IF i < p THEN i ELSE i + 1
                                   /\ y = IF j < p THEN j ELSE j + 1
            BY <2>7
        <3>2. x < y
            BY <2>2, <2>10, <3>1
        <3>3. q[i] = A[x] /\ q[j] = A[y]
            BY <2>8, <3>1
        <3> QED BY <2>9, <3>2, <3>3
    <2>11. Rising(q)
        BY <2>8, <2>10 DEF Rising
    <2>12. \A x \in 1..L : x # p => A[x] # n
        <3> SUFFICES ASSUME NEW x \in 1..L, x # p PROVE A[x] # A[p]
            BY <2>2
        <3>1. A[x] < A[p] \/ A[p] < A[x]
            <4>1. x < p \/ p < x
                BY <2>2
            <4> QED BY <2>2, <2>9, <4>1
        <3>2. A[x] \in Nat /\ A[p] \in Nat
            BY <1>1, <2>2
        <3> QED BY <3>1, <3>2
    <2>13. ToSet(q) = ToSet(A) \ {n}
        <3>1. DOMAIN q = 1..M
            BY <2>8
        <3>2. ASSUME NEW i \in 1..M PROVE q[i] \in ToSet(A) \ {n}
            <4>1. PICK x \in 1..L : x = (IF i < p THEN i ELSE i + 1) /\ x # p
                BY <2>2, <2>7
            <4>2. q[i] = A[x]
                BY <2>8, <4>1
            <4> QED BY <1>1, <2>12, <4>1, <4>2 DEF ToSet
        <3>3. ASSUME NEW x \in 1..L, A[x] # n PROVE A[x] \in ToSet(q)
            <4>1. x # p
                BY <2>2, <3>3
            <4>2. PICK i \in 1..M : x = IF i < p THEN i ELSE i + 1
                <5>1. CASE x < p
                    <6>1. x \in 1..M
                        BY <2>2, <2>7, <5>1
                    <6> QED BY <5>1, <6>1
                <5>2. CASE x > p
                    <6>1. x - 1 \in 1..M /\ ~(x - 1 < p) /\ (x - 1) + 1 = x
                        BY <2>2, <2>7, <5>2
                    <6> QED BY <6>1
                <5> QED BY <2>2, <4>1, <5>1, <5>2
            <4>3. q[i] = A[x]
                BY <2>8, <4>2
            <4> QED BY <3>1, <4>3 DEF ToSet
        <3>4. ToSet(q) \subseteq ToSet(A) \ {n}
            BY <3>1, <3>2 DEF ToSet
        <3>5. ToSet(A) \ {n} \subseteq ToSet(q)
            BY <1>1, <3>3 DEF ToSet
        <3> QED BY <3>4, <3>5
    <2> QED BY <2>4, <2>11, <2>13
<1> QED BY <1>2, <1>3

(* There is one such sequence of given members.                            *)
LEMMA RisingBelow ==
    ASSUME NEW A, Rising(A), NEW B, Rising(B), ToSet(A) = ToSet(B),
           NEW k \in 1..Len(A), k \in 1..Len(B), \A j \in 1..(k - 1) : A[j] = B[j]
    PROVE  ~(A[k] < B[k])
<1> SUFFICES ASSUME A[k] < B[k] PROVE FALSE
    OBVIOUS
<1>0. PICK L \in Nat : L = Len(A) /\ A \in [1..L -> Nat] /\ DOMAIN A = 1..L
    BY DEF Rising
<1>1. PICK M \in Nat : /\ M = Len(B) /\ B \in [1..M -> Nat] /\ DOMAIN B = 1..M
                       /\ L = Len(A) /\ A \in [1..L -> Nat] /\ DOMAIN A = 1..L
    BY <1>0 DEF Rising
<1>2. PICK j \in 1..M : B[j] = A[k]
    <2>1. A[k] \in ToSet(B)
        BY <1>1 DEF ToSet
    <2> QED BY <1>1, <2>1 DEF ToSet
<1>3. CASE j < k
    <2>1. A[j] = B[j] /\ A[j] < A[k] /\ A[k] \in Nat
        BY <1>1, <1>3 DEF Rising
    <2> QED BY <1>2, <2>1
<1>4. CASE j = k
    <2>1. A[k] \in Nat
        BY <1>1
    <2> QED BY <1>2, <1>4, <2>1
<1>5. CASE k < j
    <2>1. B[k] < B[j] /\ B[k] \in Nat /\ A[k] \in Nat
        BY <1>1, <1>5 DEF Rising
    <2> QED BY <1>2, <2>1
<1> QED BY <1>1, <1>3, <1>4, <1>5

LEMMA RisingLength ==
    ASSUME NEW A, Rising(A)
    PROVE  /\ IsFiniteSet(ToSet(A)) /\ Cardinality(ToSet(A)) = Len(A) /\ ToSet(A) \subseteq Nat
           /\ \A i, j \in 1..Len(A) : A[i] = A[j] => i = j
<1>1. PICK L \in Nat : L = Len(A) /\ A \in [1..L -> Nat] /\ DOMAIN A = 1..L
    BY DEF Rising
<1>2. \A i, j \in 1..L : A[i] = A[j] => i = j
    <2> SUFFICES ASSUME NEW i \in 1..L, NEW j \in 1..L, A[i] = A[j], i # j PROVE FALSE
        OBVIOUS
    <2>1. A[i] < A[j] \/ A[j] < A[i]
        <3>1. i < j \/ j < i
            OBVIOUS
        <3> QED BY <1>1, <3>1 DEF Rising
    <2>2. A[i] \in Nat /\ A[j] \in Nat
        BY <1>1
    <2> QED BY <2>1, <2>2
<1>3. A \in [1..L -> ToSet(A)]
    BY <1>1 DEF ToSet
<1>4. A \in Injection(1..L, ToSet(A)) /\ A \in Surjection(1..L, ToSet(A))
    BY <1>1, <1>2, <1>3 DEF Injection, Surjection, IsInjective, ToSet
<1>5. IsFiniteSet(ToSet(A)) /\ Cardinality(ToSet(A)) = Cardinality(1..L)
    BY <1>4, FS_Interval, FS_Surjection
<1>6. Cardinality(1..L) = L
    BY FS_Interval
<1>7. ToSet(A) \subseteq Nat
    BY <1>1 DEF ToSet
<1> QED BY <1>1, <1>2, <1>5, <1>6, <1>7

LEMMA RisingIsOne ==
    ASSUME NEW A, Rising(A), NEW B, Rising(B), ToSet(A) = ToSet(B)
    PROVE  A = B
<1>1. PICK L \in Nat : /\ L = Len(A) /\ A \in [1..L -> Nat]
                       /\ L = Len(B) /\ B \in [1..L -> Nat]
    <2>1. Cardinality(ToSet(A)) = Len(A) /\ Cardinality(ToSet(B)) = Len(B)
        BY RisingLength
    <2>2. Len(A) = Len(B)
        BY <2>1
    <2>3. A \in [1..Len(A) -> Nat] /\ B \in [1..Len(B) -> Nat] /\ Len(A) \in Nat
        BY DEF Rising
    <2> QED BY ONLY <2>2, <2>3, Zenon
<1>2. \A i \in 1..L : A[i] = B[i]
    <2> DEFINE T == {i \in 1..L : A[i] # B[i]}
    <2> SUFFICES ASSUME T # {} PROVE FALSE
        OBVIOUS
    <2>1. PICK k \in T : \A j \in T : k <= j
        <3>1. T \in SUBSET Nat
            OBVIOUS
        <3> HIDE DEF T
        <3> QED BY <3>1, LeastNumber
    <2>2. k \in 1..L /\ A[k] # B[k] /\ \A j \in 1..(k - 1) : A[j] = B[j]
        <3>1. k \in 1..L /\ A[k] # B[k]
            OBVIOUS
        <3>2. ASSUME NEW j \in 1..(k - 1) PROVE A[j] = B[j]
            <4>1. j \in 1..L /\ ~(k <= j)
                BY <3>1
            <4> QED BY <2>1, <4>1
        <3> QED BY <3>1, <3>2
    <2>3. ~(A[k] < B[k]) /\ ~(B[k] < A[k])
        BY <1>1, <2>2, RisingBelow
    <2>4. A[k] \in Nat /\ B[k] \in Nat
        BY <1>1, <2>2
    <2> QED BY <2>2, <2>3, <2>4
<1> QED BY <1>1, <1>2

LEMMA AscendingIs ==
    ASSUME NEW N \in SUBSET Nat, IsFiniteSet(N)
    PROVE  Rising(Ascending(N)) /\ ToSet(Ascending(N)) = N
<1>1. PICK L \in Nat : L = Cardinality(N)
    BY FS_CardinalityType
<1> DEFINE below(n) == {m \in N : m < n}
<1>2. ASSUME NEW n \in N
      PROVE  /\ IsFiniteSet(below(n)) /\ Cardinality(below(n)) \in 0..(L - 1)
    <2>1. PICK X : X = N \ {n}
        OBVIOUS
    <2>2. IsFiniteSet(X) /\ Cardinality(X) = L - 1
        BY <1>1, <2>1, FS_RemoveElement
    <2>3. below(n) \in SUBSET X
        BY <2>1
    <2>4. IsFiniteSet(below(n)) /\ Cardinality(below(n)) <= L - 1
        BY <2>2, <2>3, FS_Subset
    <2>5. Cardinality(below(n)) \in Nat
        BY <2>4, FS_CardinalityType
    <2> QED BY <1>1, <2>4, <2>5
<1>3. ASSUME NEW n \in N, NEW m \in N, n < m
      PROVE  Cardinality(below(n)) < Cardinality(below(m))
    <2>1. below(n) \in SUBSET below(m) /\ n \in below(m) /\ n \notin below(n)
        <3>1. \A k \in N : k < n => k < m
            BY <1>3
        <3>2. n \in Nat /\ ~(n < n)
            OBVIOUS
        <3> QED BY <1>3, <3>1, <3>2
    <2>2. Cardinality(below(n)) <= Cardinality(below(m)) /\ Cardinality(below(n)) # Cardinality(below(m))
        <3> HIDE DEF below
        <3> QED BY <1>2, <2>1, FS_Subset
    <2>3. Cardinality(below(n)) \in Int /\ Cardinality(below(m)) \in Int
        BY <1>2
    <2> QED BY <2>2, <2>3
<1>4. PICK rank \in [N -> 0..(L - 1)] : \A n \in N : rank[n] = Cardinality(below(n))
    <2>1. [n \in N |-> Cardinality(below(n))] \in [N -> 0..(L - 1)]
        BY <1>2
    <2> QED BY <2>1
<1>5. \A n, m \in N : n < m => rank[n] < rank[m]
    BY <1>3, <1>4
<1>6. \A n, m \in N : rank[n] = rank[m] => n = m
    <2> SUFFICES ASSUME NEW n \in N, NEW m \in N, rank[n] = rank[m], n # m PROVE FALSE
        OBVIOUS
    <2>1. n < m \/ m < n
        OBVIOUS
    <2> QED BY <1>4, <1>5, <2>1
<1>7. rank \in Surjection(N, 0..(L - 1))
    <2>1. rank \in Injection(N, 0..(L - 1))
        BY <1>6 DEF Injection, IsInjective
    <2>2. IsFiniteSet(0..(L - 1)) /\ Cardinality(0..(L - 1)) = L
        BY FS_Interval
    <2> QED BY <1>1, <2>1, <2>2, FS_Injection
<1>8. PICK A : A = Ascending(N)
    OBVIOUS
<1>9. DOMAIN A = 1..L /\ \A i \in 1..L : A[i] \in N /\ rank[A[i]] = i - 1
    <2>1. A = [i \in 1..L |-> CHOOSE n \in N : Cardinality(below(n)) = i - 1]
        BY <1>1, <1>8, Zenon DEF Ascending
    <2>2. ASSUME NEW i \in 1..L PROVE A[i] \in N /\ Cardinality(below(A[i])) = i - 1
        <3>1. \E n \in N : Cardinality(below(n)) = i - 1
            <4>1. i - 1 \in 0..(L - 1)
                OBVIOUS
            <4>2. PICK n \in N : rank[n] = i - 1
                BY <1>7, <4>1 DEF Surjection
            <4> QED BY <1>4, <4>2
        <3>2. A[i] = CHOOSE n \in N : Cardinality(below(n)) = i - 1
            BY <2>1
        <3> HIDE DEF below
        <3> QED BY <3>1, <3>2
    <2>3. DOMAIN A = 1..L
        BY <2>1
    <2> QED BY <1>4, <2>2, <2>3
<1>10. A \in [1..L -> N]
    <2>1. A = [i \in 1..L |-> CHOOSE n \in N : Cardinality(below(n)) = i - 1]
        BY <1>1, <1>8, Zenon DEF Ascending
    <2> DEFINE nth(i) == CHOOSE n \in N : Cardinality(below(n)) = i - 1
    <2>2. \A i \in 1..L : nth(i) \in N
        <3>1. \A i \in 1..L : A[i] = nth(i)
            BY <2>1
        <3> HIDE DEF nth
        <3> QED BY <1>9, <3>1
    <2>3. A = [i \in 1..L |-> nth(i)]
        BY <2>1
    <2> HIDE DEF nth
    <2> QED BY <2>2, <2>3
<1>11. A \in Seq(Nat) /\ Len(A) = L
    BY <1>10
<1>12. ASSUME NEW i \in 1..L, NEW j \in 1..L, i < j PROVE A[i] < A[j]
    <2>1. A[i] \in N /\ A[j] \in N /\ rank[A[i]] = i - 1 /\ rank[A[j]] = j - 1
        BY <1>9
    <2>2. A[i] \in Nat /\ A[j] \in Nat
        BY <2>1
    <2>3. CASE A[i] = A[j]
        BY <1>12, <2>1, <2>3
    <2>4. CASE A[j] < A[i]
        <3>1. rank[A[j]] < rank[A[i]]
            BY <1>5, <2>1, <2>4
        <3> QED BY <1>12, <2>1, <3>1
    <2> QED BY <2>2, <2>3, <2>4
<1>13. Rising(A)
    BY <1>11, <1>12 DEF Rising
<1>14. ToSet(A) = N
    <2>1. ToSet(A) \subseteq N
        BY <1>9 DEF ToSet
    <2>2. ASSUME NEW n \in N PROVE n \in ToSet(A)
        <3>1. PICK i \in 1..L : rank[n] = i - 1
            <4>1. rank[n] \in 0..(L - 1)
                BY <1>4
            <4>2. rank[n] + 1 \in 1..L /\ rank[n] = (rank[n] + 1) - 1
                BY <4>1
            <4> QED BY <4>2
        <3>2. A[i] = n
            BY <1>6, <1>9, <3>1
        <3> QED BY <1>9, <3>2 DEF ToSet
    <2> QED BY <2>1, <2>2
<1> QED BY <1>8, <1>13, <1>14

LEMMA RisingIsAscending ==
    ASSUME NEW A, Rising(A)
    PROVE  A = Ascending(ToSet(A))
<1>1. ToSet(A) \in SUBSET Nat /\ IsFiniteSet(ToSet(A))
    BY RisingLength
<1>2. PICK B : B = Ascending(ToSet(A)) /\ Rising(B) /\ ToSet(B) = ToSet(A)
    BY <1>1, AscendingIs
<1> QED BY <1>2, RisingIsOne

-----------------------------------------------------------------------------
(* The store: what a search of the cache walks over and returns. *)

LEMMA LeastOf ==
    ASSUME NEW T \in SUBSET Nat, T # {}
    PROVE  Min(T) \in T /\ \A n \in T : Min(T) <= n
BY LeastNumber, Zenon DEF Min

LEMMA LeastOfTwo ==
    ASSUME NEW a \in Nat, NEW b \in Nat
    PROVE  Min({a, b}) = IF a <= b THEN a ELSE b
<1>1. PICK m : m = Min({a, b})
    OBVIOUS
<1>2. m \in {a, b} /\ \A n \in {a, b} : m <= n
    BY <1>1, LeastOf
<1> QED BY <1>1, <1>2

(* Where a walk from LB over X may end.                                     *)
StopsOf(L, X, LB, H) == {i \in LB..(L + 1) : i = L + 1 \/ i = LB + H \/ i \notin X}

(* X lies above LB, with no gap.                                           *)
NoGap(X, LB) == (\A i \in X : LB <= i) /\ \A i \in X : \A j \in LB..i : j \in X

(* A walk from LB over X ends at stop: H elements, or all there are.        *)
Walked(L, X, LB, H, stop) ==
  /\ stop \in LB..(L + 1) /\ \A i \in LB..(stop - 1) : i \in X
  /\ IsFiniteSet(X) /\ Cardinality(X) \in Nat
  /\ stop - LB = Min({H, Cardinality(X)})

(* The walk from the lower bound to the first element that does not match. *)
LEMMA WalkIs ==
    ASSUME NEW L \in Nat, NEW X \in SUBSET (1..L), NEW LB \in 1..(L + 1), NEW H \in Nat,
           NoGap(X, LB)
    PROVE  Walked(L, X, LB, H, Min(StopsOf(L, X, LB, H)))
<1>0. PICK stop : stop = Min(StopsOf(L, X, LB, H))
    OBVIOUS
<1> DEFINE T == {i \in LB..(L + 1) : i = L + 1 \/ i = LB + H \/ i \notin X}
<1>1. T \in SUBSET Nat /\ T # {}
    <2>1. L + 1 \in T
        OBVIOUS
    <2> QED BY <2>1
<1>2. stop \in T /\ \A i \in T : stop <= i
    <2>1. stop = Min(T)
        BY <1>0 DEF StopsOf
    <2> HIDE DEF T
    <2> QED BY ONLY <1>1, <2>1, LeastOf
<1>3. stop \in LB..(L + 1) /\ (stop = L + 1 \/ stop = LB + H \/ stop \notin X)
    BY <1>2
<1>4. \A i \in LB..(stop - 1) : i \in X /\ i # LB + H
    <2> SUFFICES ASSUME NEW i \in LB..(stop - 1) PROVE i \in X /\ i # LB + H
        OBVIOUS
    <2>1. i \in LB..(L + 1) /\ ~(stop <= i)
        BY <1>3
    <2>2. i \notin T
        BY <1>2, <2>1
    <2> QED BY <2>1, <2>2
<1>5. IsFiniteSet(X) /\ Cardinality(X) \in Nat
    <2>1. IsFiniteSet(1..L)
        BY FS_Interval
    <2> QED BY <2>1, FS_Subset, FS_CardinalityType
<1>6. PICK Y : Y = LB..(stop - 1)
    OBVIOUS
<1>7. Y \in SUBSET X /\ Cardinality(Y) = stop - LB
    <2>1. LB \in Int /\ stop - 1 \in Int /\ (IF LB > stop - 1 THEN 0 ELSE (stop - 1) - LB + 1) = stop - LB
        BY <1>3
    <2>2. Cardinality(LB..(stop - 1)) = stop - LB
        BY <2>1, FS_Interval
    <2> QED BY <1>4, <1>6, <2>2
<1>8. stop - LB <= Cardinality(X)
    BY <1>5, <1>7, FS_Subset
<1>9. stop - LB <= H
    <2> SUFFICES ASSUME ~(stop - LB <= H) PROVE FALSE
        OBVIOUS
    <2>1. LB + H \in LB..(stop - 1)
        BY <1>3
    <2> QED BY <1>4, <2>1
<1>10. stop - LB # H => Cardinality(X) = stop - LB
    <2> SUFFICES ASSUME stop - LB # H PROVE X = Y
        BY <1>7
    <2> SUFFICES ASSUME NEW i \in X PROVE i \in Y
        BY <1>7
    <2>1. LB <= i /\ i \in 1..L
        BY DEF NoGap
    <2>2. ~(stop <= i)
        <3> SUFFICES ASSUME stop <= i PROVE FALSE
            OBVIOUS
        <3>1. stop \in LB..i /\ stop # L + 1 /\ stop # LB + H
            BY <1>3, <2>1
        <3> QED BY <1>3, <3>1 DEF NoGap
    <2> QED BY <1>3, <1>6, <2>1, <2>2
<1>11. stop - LB = IF H <= Cardinality(X) THEN H ELSE Cardinality(X)
    <2>1. PICK c \in Nat : c = Cardinality(X)
        BY <1>5
    <2>2. stop - LB \in Int
        BY <1>3
    <2> QED BY <1>8, <1>9, <1>10, <2>1, <2>2
<1>12. Walked(L, X, LB, H, stop)
    BY <1>3, <1>4, <1>5, <1>11, LeastOfTwo DEF Walked
<1> QED BY <1>0, <1>12

Padded(S) == S \o [i \in 1..(SerialDigits - Len(S)) |-> 0]

(* The prefix with zeros behind it is the least number that begins so.     *)
LEMMA PaddedIs ==
    ASSUME NEW k \in Nat, NEW S \in [1..k -> Digit], k <= SerialDigits,
           NEW P, P = Padded(S)
    PROVE  /\ P \in Serial_ /\ IsPrefix(S, P)
           /\ \A T \in Serial_ : IsPrefix(S, T) => Number(P) <= Number(T)
<1>1. PICK L \in Nat : L = SerialDigits
    BY BaseIs
<1>2. PICK Z : Z = [i \in 1..(L - k) |-> 0]
    OBVIOUS
<1>3. /\ Z \in Seq(Digit) /\ Len(Z) = L - k /\ (\A i \in 1..(L - k) : Z[i] = 0)
      /\ S \in Seq(Digit) /\ Len(S) = k
    <2>1. PICK m \in Nat : m = L - k
        BY <1>1
    <2>2. Z = [i \in 1..m |-> 0] /\ 0 \in Digit
        BY <1>2, <2>1, BaseIs
    <2>3. Z \in [1..m -> Digit]
        BY <2>2
    <2>4. Z \in Seq(Digit) /\ Len(Z) = m /\ \A i \in 1..m : Z[i] = 0
        BY <2>2, <2>3
    <2>5. S \in Seq(Digit) /\ Len(S) = k
        OBVIOUS
    <2> QED BY <2>1, <2>4, <2>5
<1>4. P = S \o Z
    BY <1>1, <1>2, <1>3 DEF Padded
<1>5. /\ S \o Z \in Seq(Digit) /\ Len(S \o Z) = Len(S) + Len(Z)
      /\ \A i \in 1..(Len(S) + Len(Z)) : (S \o Z)[i] = IF i <= Len(S) THEN S[i] ELSE Z[i - Len(S)]
    BY ONLY <1>3, ConcatProperties
<1>6. k + (L - k) = L
    OBVIOUS
<1>7. P \in Seq(Digit) /\ Len(P) = L /\ \A i \in 1..L : P[i] = IF i <= k THEN S[i] ELSE Z[i - k]
    BY ONLY <1>3, <1>4, <1>5, <1>6
<1>8. P \in [1..L -> Digit]
    BY ONLY <1>7, LenProperties
<1>9. \A i \in 1..L : P[i] = IF i <= k THEN S[i] ELSE 0
    <2> SUFFICES ASSUME NEW i \in 1..L PROVE P[i] = IF i <= k THEN S[i] ELSE 0
        OBVIOUS
    <2>1. P[i] = IF i <= k THEN S[i] ELSE Z[i - k]
        BY <1>7
    <2>2. CASE ~(i <= k)
        <3>1. i - k \in 1..(L - k)
            BY <2>2
        <3>2. Z[i - k] = 0
            BY <1>3, <3>1
        <3> QED BY <2>1, <2>2, <3>2
    <2> QED BY <2>1, <2>2
<1>10. ASSUME NEW T \in [1..L -> Digit]
       PROVE  IsPrefix(S, T) <=> \A i \in 1..k : S[i] = T[i]
    <2>1. T \in Seq(Digit) /\ Len(T) = L
        OBVIOUS
    <2>2. SubSeq(S, 1, k) = [i \in 1..k |-> S[i]] /\ SubSeq(T, 1, k) = [i \in 1..k |-> T[i]]
        BY <1>1, <1>3, <2>1
    <2> QED BY <1>1, <1>3, <2>1, <2>2 DEF IsPrefix
<1>11. IsPrefix(S, P)
    <2>1. \A i \in 1..k : S[i] = P[i]
        BY <1>1, <1>9
    <2> QED BY <1>8, <1>10, <2>1
<1>12. ASSUME NEW T \in [1..L -> Digit], IsPrefix(S, T)
       PROVE  Number(P) <= Number(T)
    <2>1. \A i \in 1..L : P[i] <= T[i]
        <3> SUFFICES ASSUME NEW i \in 1..L PROVE P[i] <= T[i]
            OBVIOUS
        <3>1. T[i] \in Nat
            BY BaseIs DEF Digit
        <3>2. CASE i <= k
            BY <1>9, <1>10, <1>12, <3>1, <3>2
        <3>3. CASE ~(i <= k)
            <4>1. P[i] = 0
                BY <1>9, <3>3
            <4>2. PICK t \in Nat : t = T[i]
                BY ONLY <3>1
            <4> QED BY ONLY <4>1, <4>2
        <3> QED BY <3>2, <3>3
    <2> QED BY <1>8, <2>1, NoGreater
<1> QED BY <1>1, <1>8, <1>11, <1>12 DEF Serial_

(* The sorted numbers of serial numbers.                                   *)
Holds(A, serial) ==
  /\ Rising(A)
  /\ serial \in [1..Len(A) -> Serial_]
  /\ \A i \in 1..Len(A) : A[i] = Number(serial[i])

LEMMA HoldsIs ==
    ASSUME NEW A, NEW serial, Holds(A, serial)
    PROVE  \E L \in Nat : /\ L = Len(A) /\ A \in [1..L -> Nat] /\ serial \in [1..L -> Serial_]
                         /\ \A i \in 1..L : A[i] = Number(serial[i])
<1>1. A \in Seq(Nat)
    BY DEF Holds, Rising
<1>2. Len(A) \in Nat /\ A \in [1..Len(A) -> Nat]
    BY <1>1
<1>3. serial \in [1..Len(A) -> Serial_] /\ \A i \in 1..Len(A) : A[i] = Number(serial[i])
    BY DEF Holds
<1> QED BY ONLY <1>2, <1>3, Zenon

(* The positions of the serial numbers that begin with S.                  *)
Beginning(serial, L, S) == {i \in 1..L : IsPrefix(S, serial[i])}

LEMMA MatchesAreTogether ==
    ASSUME NEW A, NEW serial, Holds(A, serial), NEW k \in Nat, NEW S \in [1..k -> Digit],
           k <= SerialDigits, NEW P, P = Padded(S),
           NEW LB, LB = LowerBound(A, Number(P)), NEW X, X = Beginning(serial, Len(A), S)
    PROVE  /\ Number(P) \in Nat /\ LB \in 1..(Len(A) + 1)
           /\ NoGap(X, LB)
<1>1. P \in Serial_ /\ IsPrefix(S, P) /\ \A T \in Serial_ : IsPrefix(S, T) => Number(P) <= Number(T)
    BY PaddedIs
<1>2. PICK p \in Nat : p = Number(P)
    BY <1>1, BaseIs, NumberIsNat DEF Serial_
<1>3. PICK L \in Nat : /\ L = Len(A) /\ A \in [1..L -> Nat] /\ serial \in [1..L -> Serial_]
                       /\ \A i \in 1..L : A[i] = Number(serial[i])
    <2>1. Holds(A, serial)
        OBVIOUS
    <2> QED BY ONLY <2>1, HoldsIs
<1>4. LB \in 1..(L + 1) /\ \A i \in 1..L : A[i] < p <=> i < LB
    BY <1>2, <1>3, LowerBoundIs DEF Holds
<1>5. X = {i \in 1..L : IsPrefix(S, serial[i])}
    BY <1>3 DEF Beginning
<1>6. ASSUME NEW i \in X PROVE LB <= i
    <2>1. i \in 1..L /\ IsPrefix(S, serial[i]) /\ serial[i] \in Serial_ /\ A[i] \in Nat /\ LB \in Int
        BY <1>3, <1>4, <1>5
    <2>2. p <= A[i]
        BY <1>1, <1>2, <1>3, <2>1
    <2>3. ~(A[i] < p)
        BY <2>1, <2>2
    <2>4. ~(i < LB)
        BY <1>4, <2>1, <2>3
    <2>5. i \in Int
        BY <2>1
    <2> QED BY ONLY <2>1, <2>4, <2>5
<1>7. ASSUME NEW i \in X, NEW j \in LB..i PROVE j \in X
    <2>1. i \in 1..L /\ j \in 1..L /\ ~(j < LB) /\ j <= i
        BY <1>4, <1>5
    <2>2. PICK a \in Nat, b \in Nat : a = A[j] /\ b = A[i] /\ a = Number(serial[j]) /\ b = Number(serial[i])
        BY <1>3, <2>1
    <2>3. p <= a /\ a <= b
        <3>1. ~(a < p)
            BY <1>4, <2>1, <2>2
        <3>2. j = i \/ A[j] < A[i]
            BY <1>3, <2>1 DEF Holds, Rising
        <3> QED BY <2>2, <3>1, <3>2
    <2>4. PICK m \in Nat : m = SerialDigits - k
        BY BaseIs
    <2>5. Shifted(p, m) <= Shifted(a, m) /\ Shifted(a, m) <= Shifted(b, m)
        BY <2>3, ShiftedGrows
    <2>6. /\ Shifted(p, m) \in Nat /\ Shifted(a, m) \in Nat /\ Shifted(b, m) \in Nat
        BY ShiftedIs
    <2>7. Shifted(p, m) = Number(S) /\ Shifted(b, m) = Number(S)
        <3>1. IsPrefix(S, serial[i]) /\ serial[i] \in Serial_
            BY <1>3, <1>5, <2>1
        <3>2. Shifted(Number(P), SerialDigits - k) = Number(S)
            BY <1>1, PrefixIs
        <3>3. Shifted(Number(serial[i]), SerialDigits - k) = Number(S)
            BY <3>1, PrefixIs
        <3> QED BY <1>2, <2>2, <2>4, <3>2, <3>3
    <2>8. Shifted(a, m) = Number(S)
        BY <2>5, <2>6, <2>7
    <2>9. IsPrefix(S, serial[j])
        BY <1>3, <2>1, <2>2, <2>4, <2>8, PrefixIs
    <2> QED BY <1>5, <2>1, <2>9
<1> QED BY <1>2, <1>3, <1>4, <1>6, <1>7 DEF NoGap

(* The serial number a stored number stands for, and what is returned.     *)
LEMMA ResultIs ==
    ASSUME NEW T \in Serial_
    PROVE  /\ IntToSerialNumber(Number(T)) = T
           /\ ReverseNumber(Number(T)) = Number(Reverse(T))
           /\ ReverseSerialNumber(IntToSerialNumber(ReverseNumber(Number(T)))) = T
<1>1. PICK L \in Nat : L = SerialDigits
    BY BaseIs
<1>2. Reverse(T) \in Serial_ /\ Reverse(Reverse(T)) = T
    BY <1>1, ReverseIs DEF Serial_
<1>3. ReverseNumber(Number(T)) = Number(Reverse(T))
    BY ReverseOfNumber
<1>4. IntToSerialNumber(Number(T)) = T /\ IntToSerialNumber(Number(Reverse(T))) = Reverse(T)
    BY <1>2, SerialOfNumber
<1> QED BY <1>2, <1>3, <1>4 DEF ReverseSerialNumber

(* found lists the results at H positions of X in a row, or at all of X.    *)
Located(found, res, X, L, H) ==
  \E LB \in 1..(L + 1), c \in Nat :
    /\ found = [i \in 1..c |-> res[LB + i - 1]]
    /\ \A i \in 1..c : LB + i - 1 \in X
    /\ IsFiniteSet(X) /\ c = Min({H, Cardinality(X)})

LEMMA PartialSearch ==
    ASSUME NEW A, NEW serial, Holds(A, serial), NEW k \in Nat, NEW S \in [1..k -> Digit],
           k < SerialDigits, NEW H \in Nat \ {0}, NEW R \in BOOLEAN,
           NEW X, X = Beginning(serial, Len(A), S),
           NEW res, res = [i \in 1..Len(A) |-> IF R THEN ReverseNumber(A[i]) ELSE A[i]]
    PROVE  Located(ReturnNumbers(S, H, A, R), res, X, Len(A), H)
<1>1. PICK P : P = Padded(S)
    OBVIOUS
<1>2. PICK LB : LB = LowerBound(A, Number(P))
    OBVIOUS
<1>3. k <= SerialDigits /\ Len(S) = k /\ Len(S) # SerialDigits
    BY BaseIs
<1>4. /\ Number(P) \in Nat /\ LB \in 1..(Len(A) + 1)
      /\ NoGap(X, LB)
    <2>1. /\ Holds(A, serial) /\ k \in Nat /\ S \in [1..k -> Digit] /\ k <= SerialDigits
          /\ X = Beginning(serial, Len(A), S)
        BY <1>3
    <2> QED BY ONLY <2>1, <1>1, <1>2, MatchesAreTogether
<1>5. PICK L \in Nat : /\ L = Len(A) /\ A \in [1..L -> Nat] /\ serial \in [1..L -> Serial_]
                       /\ \A i \in 1..L : A[i] = Number(serial[i])
    <2>1. Holds(A, serial)
        OBVIOUS
    <2> QED BY ONLY <2>1, HoldsIs
<1> DEFINE TSN(n) == IF R THEN ReverseSerialNumber(IntToSerialNumber(ReverseNumber(n)))
                          ELSE IntToSerialNumber(n)
           Result(n) == IF R THEN ReverseNumber(n) ELSE n
           Q == {i \in LB..(L + 1) : i = L + 1 \/ i = LB + H \/ ~IsPrefix(S, TSN(A[i]))}
<1>6. PICK stop : stop = Min(Q)
    OBVIOUS
<1>7. ReturnNumbers(S, H, A, R) = [i \in 1..(stop - LB) |-> Result(A[LB + i - 1])]
    <2>1. ReturnNumbers(S, H, A, R) = [i \in 1..(Min(Q) - LB) |-> Result(A[LB + i - 1])]
        BY <1>1, <1>2, <1>3, <1>5, Zenon DEF ReturnNumbers, Padded
    <2> QED BY <1>6, <2>1
<1>8. \A i \in 1..L : TSN(A[i]) = serial[i]
    BY <1>5, ResultIs
<1>9. Q = {i \in LB..(L + 1) : i = L + 1 \/ i = LB + H \/ i \notin X}
    <2>1. ASSUME NEW i \in LB..(L + 1), i # L + 1
          PROVE  ~IsPrefix(S, TSN(A[i])) <=> i \notin X
        <3>1. i \in 1..L
            BY <1>4, <1>5, <2>1
        <3>2. i \in X <=> IsPrefix(S, serial[i])
            BY <1>5, <3>1 DEF Beginning
        <3>3. TSN(A[i]) = serial[i]
            BY <1>8, <3>1
        <3> HIDE DEF TSN
        <3> QED BY <3>2, <3>3
    <2> HIDE DEF TSN
    <2> QED BY <2>1
<1>10. X \in SUBSET (1..L)
    BY <1>5 DEF Beginning
<1>11. /\ stop \in LB..(L + 1) /\ \A i \in LB..(stop - 1) : i \in X
       /\ IsFiniteSet(X) /\ Cardinality(X) \in Nat
       /\ stop - LB = Min({H, Cardinality(X)})
    <2>1. stop = Min(StopsOf(L, X, LB, H))
        BY <1>6, <1>9 DEF StopsOf
    <2>2. L \in Nat /\ H \in Nat /\ LB \in 1..(L + 1) /\ NoGap(X, LB)
        BY <1>4, <1>5
    <2>3. Walked(L, X, LB, H, stop)
        BY ONLY <1>10, <2>1, <2>2, WalkIs
    <2> QED BY <2>3 DEF Walked
<1>12. PICK c \in Nat : c = stop - LB /\ \A i \in 1..c : LB + i - 1 \in X
    <2>1. stop - LB \in Nat
        BY <1>4, <1>5, <1>11
    <2>2. ASSUME NEW i \in 1..(stop - LB) PROVE LB + i - 1 \in LB..(stop - 1)
        BY <1>4, <1>5, <1>11
    <2> QED BY <1>11, <2>1, <2>2
<1>13. ASSUME NEW i \in 1..c PROVE Result(A[LB + i - 1]) = res[LB + i - 1]
    <2>1. LB + i - 1 \in 1..L
        BY <1>10, <1>12
    <2> QED BY <1>5, <2>1
<1>14. ReturnNumbers(S, H, A, R) = [i \in 1..c |-> res[LB + i - 1]]
    <2> HIDE DEF Result
    <2> QED BY <1>7, <1>12, <1>13
<1> QED BY <1>4, <1>11, <1>12, <1>14 DEF Located

LEMMA FullSearch ==
    ASSUME NEW A, NEW serial, Holds(A, serial), NEW S \in Serial_,
           NEW H \in Nat \ {0}, NEW R \in BOOLEAN,
           NEW X, X = Beginning(serial, Len(A), S),
           NEW res, res = [i \in 1..Len(A) |-> IF R THEN ReverseNumber(A[i]) ELSE A[i]]
    PROVE  Located(ReturnNumbers(S, H, A, R), res, X, Len(A), H)
<1>1. PICK L \in Nat : /\ L = Len(A) /\ A \in [1..L -> Nat] /\ serial \in [1..L -> Serial_]
                       /\ \A i \in 1..L : A[i] = Number(serial[i])
    <2>1. Holds(A, serial)
        OBVIOUS
    <2> QED BY ONLY <2>1, HoldsIs
<1>2. PICK D \in Nat : D = SerialDigits /\ S \in [1..D -> Digit] /\ Len(S) = D
    BY BaseIs DEF Serial_
<1>3. ASSUME NEW T \in Serial_
      PROVE  /\ IsPrefix(S, T) <=> T = S
             /\ Number(T) = Number(S) <=> T = S
    <2>1. T \in [1..D -> Digit] /\ Len(T) = D /\ T \in Seq(Digit) /\ S \in Seq(Digit)
        BY <1>2 DEF Serial_
    <2>2. SubSeq(S, 1, D) = S /\ SubSeq(T, 1, D) = T
        BY <1>2, <2>1
    <2>3. IsPrefix(S, T) <=> T = S
        BY <1>2, <2>1, <2>2 DEF IsPrefix
    <2>4. Number(T) = Number(S) => T = S
        BY <1>2, <2>1, NumbersDiffer
    <2> QED BY <2>3, <2>4
<1>4. X = {i \in 1..L : serial[i] = S}
    BY <1>1, <1>3 DEF Beginning
<1>5. ReturnNumbers(S, H, A, R) =
        IF Number(S) \in ToSet(A)
        THEN <<IF R THEN ReverseNumber(Number(S)) ELSE Number(S)>> ELSE <<>>
    BY <1>2, Zenon DEF ReturnNumbers
<1>6. CASE Number(S) \in ToSet(A)
    <2>1. PICK p \in 1..L : A[p] = Number(S)
        BY <1>1, <1>6 DEF ToSet
    <2>2. X = {p}
        <3>1. serial[p] = S
            BY <1>1, <1>3, <2>1
        <3>2. ASSUME NEW i \in 1..L, serial[i] = S PROVE i = p
            <4>1. A[i] = A[p] /\ Rising(A)
                BY <1>1, <2>1, <3>2 DEF Holds
            <4> QED BY <1>1, <4>1, RisingLength
        <3> QED BY <1>4, <3>1, <3>2
    <2>3. IsFiniteSet(X) /\ Cardinality(X) = 1
        <3>1. IsFiniteSet({p}) /\ Cardinality({p}) = 1
            BY ONLY FS_Singleton
        <3> QED BY <2>2, <3>1
    <2>4. Min({H, Cardinality(X)}) = 1
        BY <2>3, LeastOfTwo
    <2>5. res[p] = IF R THEN ReverseNumber(Number(S)) ELSE Number(S)
        BY <1>1, <2>1
    <2>6. ReturnNumbers(S, H, A, R) = <<res[p]>>
        BY <1>5, <1>6, <2>5
    <2>7. <<res[p]>> = [i \in 1..1 |-> res[p + i - 1]]
        <3>1. \A i \in 1..1 : p + i - 1 = p
            OBVIOUS
        <3>2. [i \in 1..1 |-> res[p + i - 1]] = [i \in 1..1 |-> res[p]]
            BY <3>1
        <3>3. PICK x : x = res[p]
            OBVIOUS
        <3>4. <<x>> = [i \in 1..1 |-> x]
            BY ONLY TRUE
        <3> QED BY <3>2, <3>3, <3>4
    <2>8. \A i \in 1..1 : p + i - 1 \in X
        BY <2>2
    <2>9. p \in 1..(Len(A) + 1) /\ 1 \in Nat
        BY <1>1
    <2> QED BY ONLY <2>3, <2>4, <2>6, <2>7, <2>8, <2>9 DEF Located
<1>7. CASE Number(S) \notin ToSet(A)
    <2>1. X = {}
        <3> SUFFICES ASSUME NEW i \in 1..L, serial[i] = S PROVE FALSE
            BY <1>4
        <3>1. A[i] = Number(S) /\ A[i] \in ToSet(A)
            BY <1>1 DEF ToSet
        <3> QED BY <1>7, <3>1
    <2>2. IsFiniteSet(X) /\ Cardinality(X) = 0
        BY <2>1, FS_EmptySet
    <2>3. Min({H, Cardinality(X)}) = 0
        BY <2>2, LeastOfTwo
    <2>4. ReturnNumbers(S, H, A, R) = <<>>
        BY <1>5, <1>7
    <2>5. <<>> = [i \in 1..0 |-> res[1 + i - 1]] /\ \A i \in 1..0 : 1 + i - 1 \in X
        OBVIOUS
    <2>6. 1 \in 1..(Len(A) + 1) /\ 0 \in Nat
        BY <1>1
    <2> QED BY ONLY <2>2, <2>3, <2>4, <2>5, <2>6 DEF Located
<1> QED BY <1>6, <1>7

(* What SearchIsExact asks of one search.                                  *)
Exact(found, matches, H) ==
  /\ ToSet(found) \subseteq matches
  /\ Cardinality(ToSet(found)) = Len(found)
  /\ Len(found) = Min({H, Cardinality(matches)})

LEMMA LocatedIsExact ==
    ASSUME NEW L \in Nat, NEW X \in SUBSET (1..L), NEW res, DOMAIN res = 1..L,
           \A i, j \in 1..L : res[i] = res[j] => i = j,
           NEW found, NEW H, Located(found, res, X, L, H),
           NEW matches, matches = {res[i] : i \in X}
    PROVE  Exact(found, matches, H)
<1>1. PICK LB \in 1..(L + 1), c \in Nat :
        /\ found = [i \in 1..c |-> res[LB + i - 1]]
        /\ \A i \in 1..c : LB + i - 1 \in X
        /\ IsFiniteSet(X) /\ c = Min({H, Cardinality(X)})
    BY DEF Located
<1>2. DOMAIN found = 1..c /\ \A i \in 1..c : found[i] = res[LB + i - 1]
    BY <1>1
<1>3. \A i \in 1..c : found[i] \in matches
    BY <1>1, <1>2
<1>4. ToSet(found) \subseteq matches
    BY <1>2, <1>3 DEF ToSet
<1>5. found \in [1..c -> ToSet(found)]
    BY <1>1, <1>2 DEF ToSet
<1>6. Len(found) = c
    BY <1>5
<1>7. \A i, j \in 1..c : found[i] = found[j] => i = j
    <2> SUFFICES ASSUME NEW i \in 1..c, NEW j \in 1..c, found[i] = found[j] PROVE i = j
        OBVIOUS
    <2>1. LB + i - 1 \in 1..L /\ LB + j - 1 \in 1..L
        BY <1>1
    <2>2. LB + i - 1 = LB + j - 1
        BY <1>2, <2>1
    <2> QED BY <2>2
<1>8. Cardinality(ToSet(found)) = c
    <2>1. found \in Injection(1..c, ToSet(found)) /\ found \in Surjection(1..c, ToSet(found))
        BY <1>2, <1>5, <1>7 DEF Injection, Surjection, IsInjective, ToSet
    <2>2. IsFiniteSet(1..c) /\ Cardinality(1..c) = c
        <3>1. 1 \in Int /\ c \in Int /\ (IF 1 > c THEN 0 ELSE c - 1 + 1) = c
            BY <1>1
        <3> QED BY ONLY <3>1, FS_Interval, Zenon
    <2> QED BY <2>1, <2>2, FS_Surjection
<1>9. Cardinality(matches) = Cardinality(X)
    <2>1. PICK g : g = [i \in X |-> res[i]]
        OBVIOUS
    <2>2. g \in [X -> matches]
        BY <2>1
    <2>3. g \in Injection(X, matches) /\ g \in Surjection(X, matches)
        <3>1. \A i, j \in X : g[i] = g[j] => i = j
            BY <2>1
        <3>2. \A x \in matches : \E i \in X : g[i] = x
            BY <2>1
        <3>3. g \in Injection(X, matches)
            BY ONLY <2>2, <3>1 DEF Injection, IsInjective
        <3>4. g \in Surjection(X, matches)
            BY ONLY <2>2, <3>2 DEF Surjection
        <3> QED BY <3>3, <3>4
    <2> QED BY <1>1, <2>3, FS_Surjection
<1> QED BY <1>1, <1>4, <1>6, <1>8, <1>9 DEF Exact

(* Every search of the sorted numbers A of the serial numbers D.           *)
LEMMA SearchIs ==
    ASSUME NEW A, NEW serial, Holds(A, serial), NEW k \in 1..SerialDigits,
           NEW S \in [1..k -> Digit], NEW H \in Nat \ {0}, NEW R \in BOOLEAN,
           NEW matches,
           matches = {Number(IF R THEN Reverse(serial[i]) ELSE serial[i]) :
                        i \in Beginning(serial, Len(A), S)}
    PROVE  Exact(ReturnNumbers(S, H, A, R), matches, H)
<1>1. PICK L \in Nat : /\ L = Len(A) /\ A \in [1..L -> Nat] /\ serial \in [1..L -> Serial_]
                       /\ \A i \in 1..L : A[i] = Number(serial[i])
    <2>1. Holds(A, serial)
        OBVIOUS
    <2> QED BY ONLY <2>1, HoldsIs
<1>2. PICK X \in SUBSET (1..L) : X = Beginning(serial, Len(A), S)
    BY <1>1 DEF Beginning
<1>3. PICK res : res = [i \in 1..Len(A) |-> IF R THEN ReverseNumber(A[i]) ELSE A[i]]
    OBVIOUS
<1>4. DOMAIN res = 1..L
    BY <1>1, <1>3
<1>5. ASSUME NEW i \in 1..L
      PROVE  res[i] = Number(IF R THEN Reverse(serial[i]) ELSE serial[i])
    <2>1. res[i] = IF R THEN ReverseNumber(A[i]) ELSE A[i]
        BY <1>1, <1>3
    <2>2. serial[i] \in Serial_ /\ A[i] = Number(serial[i])
        BY <1>1
    <2>3. ReverseNumber(Number(serial[i])) = Number(Reverse(serial[i]))
        BY <2>2, ResultIs
    <2> QED BY <2>1, <2>2, <2>3
<1>6. \A i, j \in 1..L : res[i] = res[j] => i = j
    <2> SUFFICES ASSUME NEW i \in 1..L, NEW j \in 1..L, res[i] = res[j] PROVE i = j
        OBVIOUS
    <2>0. serial[i] = serial[j] => i = j
        <3> SUFFICES ASSUME serial[i] = serial[j] PROVE i = j
            OBVIOUS
        <3>1. A[i] = A[j] /\ Rising(A)
            BY <1>1 DEF Holds
        <3> QED BY <1>1, <3>1, RisingLength
    <2>1. PICK D \in Nat : D = SerialDigits
        BY BaseIs
    <2>2. PICK T \in [1..D -> Digit], U \in [1..D -> Digit] : T = serial[i] /\ U = serial[j]
        BY <1>1, <2>1 DEF Serial_
    <2>3. Number(IF R THEN Reverse(T) ELSE T) = Number(IF R THEN Reverse(U) ELSE U)
        BY <1>5, <2>2
    <2>4. /\ Reverse(T) \in [1..D -> Digit] /\ Reverse(U) \in [1..D -> Digit]
          /\ Reverse(Reverse(T)) = T /\ Reverse(Reverse(U)) = U
        BY ReverseIs
    <2>5. CASE R
        <3>1. Reverse(T) = Reverse(U)
            BY <2>3, <2>4, <2>5, NumbersDiffer
        <3>2. T = U
            BY <2>4, <3>1
        <3> QED BY <2>0, <2>2, <3>2
    <2>6. CASE ~R
        <3>1. T = U
            BY <2>3, <2>6, NumbersDiffer
        <3> QED BY <2>0, <2>2, <3>1
    <2> QED BY <2>5, <2>6
<1>7. Located(ReturnNumbers(S, H, A, R), res, X, Len(A), H)
    <2>1. CASE k = SerialDigits
        <3>1. S \in Serial_
            BY <2>1 DEF Serial_
        <3>2. Holds(A, serial) /\ H \in Nat \ {0} /\ R \in BOOLEAN
            OBVIOUS
        <3> QED BY ONLY <1>2, <1>3, <3>1, <3>2, FullSearch
    <2>2. CASE k # SerialDigits
        <3>1. k \in Nat /\ k < SerialDigits /\ S \in [1..k -> Digit]
            BY <2>2, BaseIs
        <3>2. Holds(A, serial) /\ H \in Nat \ {0} /\ R \in BOOLEAN
            OBVIOUS
        <3> QED BY ONLY <1>2, <1>3, <3>1, <3>2, PartialSearch
    <2> QED BY <2>1, <2>2
<1>8. matches = {res[i] : i \in X}
    <2>1. \A i \in X : res[i] = Number(IF R THEN Reverse(serial[i]) ELSE serial[i])
        BY <1>5
    <2> QED BY <1>2, <2>1
<1>9. L = Len(A)
    BY <1>1
<1> QED BY ONLY X \in SUBSET (1..L), L \in Nat, <1>4, <1>6, <1>7, <1>8, <1>9, LocatedIsExact

NumbersOf(D) == {Number(d) : d \in D}

(* The two arrays of the cache hold the serial numbers D.                  *)
AgreeOn(A, B, D) ==
  /\ Rising(A) /\ Rising(B)
  /\ ToSet(A) = {Number(d) : d \in D}
  /\ ToSet(B) = {Number(Reverse(d)) : d \in D}

LEMMA SerialReversed ==
    ASSUME NEW d \in Serial_
    PROVE  /\ Reverse(d) \in Serial_ /\ Reverse(Reverse(d)) = d
           /\ Number(d) \in Nat /\ Number(Reverse(d)) \in Nat
<1>1. PICK D \in Nat : D = SerialDigits /\ d \in [1..D -> Digit]
    BY BaseIs DEF Serial_
<1>2. Reverse(d) \in [1..D -> Digit] /\ Reverse(Reverse(d)) = d
    BY <1>1, ReverseIs
<1> QED BY <1>1, <1>2, NumberIsNat DEF Serial_

LEMMA SerialsHeld ==
    ASSUME NEW A, Rising(A), NEW D \in SUBSET Serial_, ToSet(A) = NumbersOf(D)
    PROVE  \E serial : /\ Holds(A, serial)
                       /\ serial = [i \in 1..Len(A) |-> IntToSerialNumber(A[i])]
                       /\ \A i \in 1..Len(A) : serial[i] \in D
                       /\ \A d \in D : \E i \in 1..Len(A) : serial[i] = d
<1>1. PICK L \in Nat : L = Len(A) /\ A \in [1..L -> Nat] /\ DOMAIN A = 1..L
    BY DEF Rising
<1>2. PICK serial : serial = [i \in 1..L |-> IntToSerialNumber(A[i])]
    OBVIOUS
<1>3. ASSUME NEW i \in 1..L
      PROVE  /\ serial[i] \in D /\ A[i] = Number(serial[i])
    <2>1. A[i] \in ToSet(A)
        BY <1>1 DEF ToSet
    <2>2. PICK d \in D : A[i] = Number(d)
        BY <2>1 DEF NumbersOf
    <2>3. serial[i] = d
        BY <1>2, <2>2, SerialOfNumber
    <2> QED BY <2>2, <2>3
<1>4. serial \in [1..L -> Serial_]
    BY <1>2, <1>3
<1>5. ASSUME NEW d \in D PROVE \E i \in 1..L : serial[i] = d
    <2>1. Number(d) \in ToSet(A)
        BY DEF NumbersOf
    <2>2. PICK i \in 1..L : A[i] = Number(d)
        BY <1>1, <2>1 DEF ToSet
    <2> QED BY <1>2, <2>2, SerialOfNumber
<1> QED BY <1>1, <1>2, <1>3, <1>4, <1>5 DEF Holds

LEMMA SearchByPrefix ==
    ASSUME NEW A, Rising(A), NEW D \in SUBSET Serial_, ToSet(A) = {Number(d) : d \in D},
           NEW k \in 1..SerialDigits, NEW S \in [1..k -> Digit], NEW H \in Nat \ {0}
    PROVE  Exact(ReturnNumbers(S, H, A, FALSE),
                 {n \in ToSet(A) : IsPrefix(S, IntToSerialNumber(n))}, H)
<1>1. PICK serial : /\ Holds(A, serial)
                    /\ \A i \in 1..Len(A) : serial[i] \in D
                    /\ \A d \in D : \E i \in 1..Len(A) : serial[i] = d
    <2>1. Rising(A) /\ D \in SUBSET Serial_ /\ ToSet(A) = NumbersOf(D)
        BY DEF NumbersOf
    <2> QED BY ONLY <2>1, SerialsHeld
<1>2. PICK X : X = Beginning(serial, Len(A), S)
    OBVIOUS
<1>3. PICK matches : matches = {Number(IF FALSE THEN Reverse(serial[i]) ELSE serial[i]) :
                                  i \in Beginning(serial, Len(A), S)}
    OBVIOUS
<1>4. Exact(ReturnNumbers(S, H, A, FALSE), matches, H)
    BY <1>1, <1>3, SearchIs
<1>5. matches = {Number(serial[i]) : i \in X}
    BY <1>2, <1>3
<1>6. matches = {n \in ToSet(A) : IsPrefix(S, IntToSerialNumber(n))}
    <2>1. ASSUME NEW i \in X
          PROVE  /\ Number(serial[i]) \in ToSet(A)
                 /\ IsPrefix(S, IntToSerialNumber(Number(serial[i])))
        <3>1. i \in 1..Len(A) /\ IsPrefix(S, serial[i])
            BY <1>2 DEF Beginning
        <3>2. serial[i] \in D
            BY <1>1, <3>1
        <3> QED BY <3>1, <3>2, SerialOfNumber
    <2>2. ASSUME NEW n \in ToSet(A), IsPrefix(S, IntToSerialNumber(n)) PROVE n \in matches
        <3>1. PICK d \in D : n = Number(d)
            OBVIOUS
        <3>2. PICK i \in 1..Len(A) : serial[i] = d
            BY <1>1
        <3>3. IsPrefix(S, d)
            BY <2>2, <3>1, SerialOfNumber
        <3>4. i \in X
            BY <1>2, <3>2, <3>3 DEF Beginning
        <3> QED BY <1>5, <3>1, <3>2, <3>4
    <2> QED BY <1>5, <2>1, <2>2
<1> QED BY <1>4, <1>6

LEMMA SearchBySuffix ==
    ASSUME NEW A, NEW B, NEW D \in SUBSET Serial_, AgreeOn(A, B, D),
           NEW k \in 1..SerialDigits, NEW S \in [1..k -> Digit], NEW H \in Nat \ {0}
    PROVE  Exact(ReturnNumbers(Reverse(S), H, B, TRUE),
                 {n \in ToSet(A) : IsSuffix(S, IntToSerialNumber(n))}, H)
<1>1. PICK E : E = {Reverse(d) : d \in D}
    OBVIOUS
<1>2. E \in SUBSET Serial_ /\ Rising(B) /\ ToSet(B) = {Number(e) : e \in E}
    BY <1>1, SerialReversed DEF AgreeOn
<1>3. PICK serial : /\ Holds(B, serial)
                    /\ \A i \in 1..Len(B) : serial[i] \in E
                    /\ \A e \in E : \E i \in 1..Len(B) : serial[i] = e
    <2>1. Rising(B) /\ E \in SUBSET Serial_ /\ ToSet(B) = NumbersOf(E)
        BY <1>2 DEF NumbersOf
    <2> QED BY ONLY <2>1, SerialsHeld
<1>4. PICK U : U = Reverse(S) /\ U \in [1..k -> Digit]
    BY BaseIs, ReverseIs
<1>5. PICK X : X = Beginning(serial, Len(B), U)
    OBVIOUS
<1>6. PICK matches : matches = {Number(IF TRUE THEN Reverse(serial[i]) ELSE serial[i]) :
                                  i \in Beginning(serial, Len(B), U)}
    OBVIOUS
<1>7. Exact(ReturnNumbers(U, H, B, TRUE), matches, H)
    BY <1>3, <1>4, <1>6, SearchIs
<1>8. matches = {Number(Reverse(serial[i])) : i \in X}
    BY <1>5, <1>6
<1>9. matches = {n \in ToSet(A) : IsSuffix(S, IntToSerialNumber(n))}
    <2>1. ASSUME NEW d \in D
          PROVE  /\ IsSuffix(S, IntToSerialNumber(Number(d))) <=> IsPrefix(U, Reverse(d))
                 /\ Number(d) \in ToSet(A)
                 /\ Reverse(Reverse(d)) = d /\ Reverse(d) \in E
        BY <1>1, <1>4, SerialOfNumber, SerialReversed DEF IsSuffix, AgreeOn
    <2>2. ASSUME NEW i \in X
          PROVE  /\ Number(Reverse(serial[i])) \in ToSet(A)
                 /\ IsSuffix(S, IntToSerialNumber(Number(Reverse(serial[i]))))
        <3>1. i \in 1..Len(B) /\ IsPrefix(U, serial[i])
            BY <1>5 DEF Beginning
        <3>2. PICK d \in D : serial[i] = Reverse(d)
            BY <1>1, <1>3, <3>1
        <3>3. Reverse(serial[i]) = d
            BY <2>1, <3>2
        <3> QED BY <2>1, <3>1, <3>2, <3>3
    <2>3. ASSUME NEW n \in ToSet(A), IsSuffix(S, IntToSerialNumber(n)) PROVE n \in matches
        <3>1. PICK d \in D : n = Number(d)
            BY DEF AgreeOn
        <3>2. PICK i \in 1..Len(B) : serial[i] = Reverse(d)
            BY <1>3, <2>1
        <3>3. IsPrefix(U, serial[i])
            BY <2>1, <2>3, <3>1, <3>2
        <3>4. i \in X
            BY <1>5, <3>2, <3>3 DEF Beginning
        <3>5. Reverse(serial[i]) = d
            BY <2>1, <3>2
        <3> QED BY <1>8, <3>1, <3>4, <3>5
    <2> QED BY <1>8, <2>2, <2>3
<1> QED BY <1>4, <1>7, <1>9

(* The searches of the cache are exact whatever serial numbers it holds.   *)
LEMMA SearchesAreExact ==
    ASSUME NEW D \in SUBSET Serial_, AgreeOn(SNs_, Reverse_SNs_, D)
    PROVE  SearchIsExact
<1> SUFFICES ASSUME NEW k \in 1..SerialDigits, NEW fromEnd \in BOOLEAN, NEW H \in 1..2,
                    NEW S \in [1..k -> Digit]
             PROVE  Exact(FindNumbers(S, fromEnd, H),
                          {n \in ToSet(SNs_) : IF fromEnd THEN IsSuffix(S, IntToSerialNumber(n))
                                                          ELSE IsPrefix(S, IntToSerialNumber(n))}, H)
    BY DEF SearchIsExact, Exact, Digit
<1>1. S # <<>> /\ H \in Nat \ {0}
    <2>1. 1 \in DOMAIN S
        BY BaseIs
    <2> QED BY <2>1
<1>2. CASE fromEnd
    <2>1. FindNumbers(S, fromEnd, H) = ReturnNumbers(Reverse(S), H, Reverse_SNs_, TRUE)
        BY <1>1, <1>2 DEF FindNumbers
    <2>2. Exact(ReturnNumbers(Reverse(S), H, Reverse_SNs_, TRUE),
                {n \in ToSet(SNs_) : IsSuffix(S, IntToSerialNumber(n))}, H)
        BY <1>1, SearchBySuffix
    <2> QED BY <1>2, <2>1, <2>2
<1>3. CASE ~fromEnd
    <2>1. FindNumbers(S, fromEnd, H) = ReturnNumbers(S, H, SNs_, FALSE)
        BY <1>1, <1>3 DEF FindNumbers
    <2>2. Exact(ReturnNumbers(S, H, SNs_, FALSE),
                {n \in ToSet(SNs_) : IsPrefix(S, IntToSerialNumber(n))}, H)
        BY <1>1, SearchByPrefix DEF AgreeOn
    <2> QED BY <1>3, <2>1, <2>2
<1> QED BY <1>2, <1>3

LEMMA SortedArraysAgree ==
    ASSUME NEW D \in SUBSET Serial_, AgreeOn(SNs_, Reverse_SNs_, D)
    PROVE  ArraysAgree
<1>1. SNs_ = Ascending(ToSet(SNs_)) /\ Reverse_SNs_ = Ascending(ToSet(Reverse_SNs_))
    BY RisingIsAscending DEF AgreeOn
<1>2. ToSet(Reverse_SNs_) = {Number(Reverse(IntToSerialNumber(n))) : n \in ToSet(SNs_)}
    <2>1. \A d \in D : IntToSerialNumber(Number(d)) = d
        BY SerialOfNumber
    <2> QED BY <2>1 DEF AgreeOn
<1> QED BY <1>1, <1>2 DEF ArraysAgree

-----------------------------------------------------------------------------
(* The arrays under the operations of the cache.                           *)
LEMMA AddKeepsArrays ==
    ASSUME NEW D \in SUBSET Serial_, AgreeOn(SNs_, Reverse_SNs_, D), NEW d \in Serial_,
           AddSerialNumber(d)
    PROVE  AgreeOn(SNs_', Reverse_SNs_', D \cup {d})
<1>1. Number(d) \in Nat /\ Number(Reverse(d)) \in Nat
    BY SerialReversed
<1>2. ASSUME NEW e \in D
      PROVE  /\ Number(e) = Number(d) => e = d
             /\ Number(Reverse(e)) = Number(Reverse(d)) => e = d
    <2>1. e \in Serial_
        OBVIOUS
    <2>2. /\ IntToSerialNumber(Number(e)) = e /\ IntToSerialNumber(Number(d)) = d
        BY <2>1, SerialOfNumber
    <2>3. Reverse(e) \in Serial_ /\ Reverse(Reverse(e)) = e /\ Reverse(d) \in Serial_ /\ Reverse(Reverse(d)) = d
        BY <2>1, SerialReversed
    <2>4. /\ IntToSerialNumber(Number(Reverse(e))) = Reverse(e)
          /\ IntToSerialNumber(Number(Reverse(d))) = Reverse(d)
        BY <2>3, SerialOfNumber
    <2> QED BY <2>2, <2>3, <2>4
<1>3. CASE Number(d) \in ToSet(SNs_)
    <2>1. d \in D
        BY <1>2, <1>3 DEF AgreeOn
    <2>2. D \cup {d} = D
        BY <2>1
    <2>3. SNs_' = SNs_ /\ Reverse_SNs_' = Reverse_SNs_
        BY <1>3 DEF AddSerialNumber
    <2> QED BY <2>2, <2>3
<1>4. CASE Number(d) \notin ToSet(SNs_)
    <2>1. /\ SNs_' = Insert_(SNs_, Number(d))
          /\ Reverse_SNs_' = Insert_(Reverse_SNs_, Number(Reverse(d)))
        BY <1>4 DEF AddSerialNumber, ReverseSerialNumber
    <2>2. d \notin D
        BY <1>4 DEF AgreeOn
    <2>3. Number(Reverse(d)) \notin ToSet(Reverse_SNs_)
        BY <1>2, <2>2 DEF AgreeOn
    <2>4. Rising(SNs_') /\ ToSet(SNs_') = ToSet(SNs_) \cup {Number(d)}
        BY <1>1, <1>4, <2>1, InsertKeepsRising DEF AgreeOn
    <2>5. Rising(Reverse_SNs_') /\ ToSet(Reverse_SNs_') = ToSet(Reverse_SNs_) \cup {Number(Reverse(d))}
        BY <1>1, <2>1, <2>3, InsertKeepsRising DEF AgreeOn
    <2>6. ToSet(SNs_') = {Number(e) : e \in D \cup {d}}
        BY <2>4 DEF AgreeOn
    <2>7. ToSet(Reverse_SNs_') = {Number(Reverse(e)) : e \in D \cup {d}}
        BY <2>5 DEF AgreeOn
    <2> QED BY <2>4, <2>5, <2>6, <2>7 DEF AgreeOn
<1> QED BY <1>3, <1>4

LEMMA DeleteKeepsArrays ==
    ASSUME NEW D \in SUBSET Serial_, AgreeOn(SNs_, Reverse_SNs_, D), NEW d \in Serial_,
           DeleteSerialNumber(d)
    PROVE  AgreeOn(SNs_', Reverse_SNs_', D \ {d})
<1>1. Number(d) \in Nat /\ Number(Reverse(d)) \in Nat
    BY SerialReversed
<1>2. ASSUME NEW e \in D
      PROVE  /\ Number(e) = Number(d) => e = d
             /\ Number(Reverse(e)) = Number(Reverse(d)) => e = d
    <2>1. e \in Serial_
        OBVIOUS
    <2>2. /\ IntToSerialNumber(Number(e)) = e /\ IntToSerialNumber(Number(d)) = d
        BY <2>1, SerialOfNumber
    <2>3. Reverse(e) \in Serial_ /\ Reverse(Reverse(e)) = e /\ Reverse(d) \in Serial_ /\ Reverse(Reverse(d)) = d
        BY <2>1, SerialReversed
    <2>4. /\ IntToSerialNumber(Number(Reverse(e))) = Reverse(e)
          /\ IntToSerialNumber(Number(Reverse(d))) = Reverse(d)
        BY <2>3, SerialOfNumber
    <2> QED BY <2>2, <2>3, <2>4
<1>3. CASE Number(d) \notin ToSet(SNs_)
    <2>1. d \notin D
        BY <1>3 DEF AgreeOn
    <2>2. D \ {d} = D
        BY <2>1
    <2>3. SNs_' = SNs_ /\ Reverse_SNs_' = Reverse_SNs_
        BY <1>3 DEF DeleteSerialNumber
    <2> QED BY <2>2, <2>3
<1>4. CASE Number(d) \in ToSet(SNs_)
    <2>1. /\ SNs_' = Erase(SNs_, Number(d))
          /\ Reverse_SNs_' = Erase(Reverse_SNs_, Number(Reverse(d)))
        BY <1>4 DEF DeleteSerialNumber, ReverseSerialNumber
    <2>4. Rising(SNs_') /\ ToSet(SNs_') = ToSet(SNs_) \ {Number(d)}
        BY <1>1, <2>1, EraseKeepsRising DEF AgreeOn
    <2>5. Rising(Reverse_SNs_') /\ ToSet(Reverse_SNs_') = ToSet(Reverse_SNs_) \ {Number(Reverse(d))}
        BY <1>1, <2>1, EraseKeepsRising DEF AgreeOn
    <2>6. ToSet(SNs_') = {Number(e) : e \in D \ {d}}
        BY <1>2, <2>4 DEF AgreeOn
    <2>7. ToSet(Reverse_SNs_') = {Number(Reverse(e)) : e \in D \ {d}}
        BY <1>2, <2>5 DEF AgreeOn
    <2> QED BY <2>4, <2>5, <2>6, <2>7 DEF AgreeOn
<1> QED BY <1>3, <1>4

LEMMA SerialsAreFinite == IsFiniteSet(Serial_)
<1>1. PICK D \in Nat : D = SerialDigits
    BY BaseIs
<1>2. PICK M \in Nat : \A S \in [1..D -> Digit] : Number(S) <= M
    BY NumbersBounded
<1>3. PICK f : f = [S \in Serial_ |-> Number(S)]
    OBVIOUS
<1>4. f \in [Serial_ -> 0..M]
    <2>1. \A S \in Serial_ : Number(S) \in 0..M
        BY <1>1, <1>2, NumberIsNat DEF Serial_
    <2> QED BY <1>3, <2>1
<1>5. f \in Injection(Serial_, 0..M)
    <2>1. \A S, T \in Serial_ : f[S] = f[T] => S = T
        BY <1>1, <1>3, NumbersDiffer DEF Serial_
    <2> QED BY <1>4, <2>1 DEF Injection, IsInjective
<1>6. IsFiniteSet(0..M)
    BY FS_Interval
<1> QED BY <1>5, <1>6, FS_Injection

LEMMA LoadedArrays ==
    ASSUME NEW D \in SUBSET Serial_
    PROVE  AgreeOn(Loaded(D), Loaded({ReverseSerialNumber(d) : d \in D}), D)
<1>1. ASSUME NEW E \in SUBSET Serial_
      PROVE  Rising(Loaded(E)) /\ ToSet(Loaded(E)) = {Number(d) : d \in E}
    <2>1. IsFiniteSet(E)
        BY SerialsAreFinite, FS_Subset
    <2>2. PICK N : N = {Number(d) : d \in E}
        OBVIOUS
    <2>3. N \in SUBSET Nat
        BY <2>2, SerialReversed
    <2>4. IsFiniteSet(N)
        <3>1. PICK f : f = [d \in E |-> Number(d)]
            OBVIOUS
        <3>2. f \in Surjection(E, N)
            BY <2>2, <3>1 DEF Surjection
        <3> QED BY <2>1, <3>2, FS_Surjection
    <2>5. Loaded(E) = Ascending(N)
        BY <2>2 DEF Loaded
    <2> QED BY <2>2, <2>3, <2>4, <2>5, AscendingIs
<1>2. PICK E : E = {ReverseSerialNumber(d) : d \in D}
    OBVIOUS
<1>3. E \in SUBSET Serial_ /\ {Number(e) : e \in E} = {Number(Reverse(d)) : d \in D}
    BY <1>2, SerialReversed DEF ReverseSerialNumber
<1> QED BY <1>1, <1>2, <1>3 DEF AgreeOn

-----------------------------------------------------------------------------
(* The store: what its jobs leave behind. *)

(* The store: what a REST thread may be at.                                *)
DeleteJob == [kind : {"delete"}, list : Seq(StoredDevice) \ {<<>>}, step : 1..8,
              close : BOOLEAN, clean : BOOLEAN]

SimulatedJob == [kind : {"simulated"}, step : 1..7, clean : BOOLEAN]

CreateJob == [kind : {"create"}, device : StoredDevice]

StoreJob == {Free} \cup DeleteJob \cup SimulatedJob \cup CreateJob

DsTypes ==
  /\ deviceRows \in [Table -> SUBSET StoredDevice]
  /\ conn \in [StoredDevice -> {"none", "known", "unknown", "insert", "list", "on"}]
  /\ job \in [Caller -> StoreJob]

(* A deletion and the tables it has passed; the row of Devices it has left *)
(* behind is known to be raced.                                            *)
DeletionKept(j, rows, sns, r) ==
  j.kind = "delete" =>
    /\ j.clean = TRUE => \A i \in 1..6 : i < j.step => Current(j) \notin rows[TableNames[i]]
    /\ j.clean = TRUE /\ j.step = 8 => Number(Current(j)) \notin ToSet(sns)
    /\ j.step \in 2..7 => Current(j) \notin rows["Devices"] \/ Current(j) \in r

SimulationKept(j, rows) ==
  j.kind = "simulated" /\ j.clean = TRUE =>
    \A i \in 1..6 : i < j.step => rows[Statements[i]] \cap Simulated = {}

JobKept(j, rows, sns, r) == DeletionKept(j, rows, sns, r) /\ SimulationKept(j, rows)

Creating(j, d) == j.kind = "create" /\ j.device = d

AllListed(rows, sns, cn, r, jobs) ==
  \A d \in rows["Devices"] :
    Number(d) \in ToSet(sns) \/ cn[d] = "list" \/ d \in r \/ \E c \in Caller : Creating(jobs[c], d)

Arrays(sns, rsns) == \E D \in SUBSET StoredDevice : AgreeOn(sns, rsns, D)

StoreInv ==
  /\ DsTypes
  /\ Arrays(SNs_, Reverse_SNs_)
  /\ \A c \in Caller : JobKept(job[c], deviceRows, SNs_, raced)
  /\ AllListed(deviceRows, SNs_, conn, raced, job)

LEMMA TablesAre ==
  /\ "Devices" \in Table /\ "Capabilities" \in Table /\ EventTable \subseteq Table
  /\ \A i \in 1..6 : TableNames[i] \in Table /\ Statements[i] \in Table
  /\ \A t \in Table : /\ Position(TableNames, t) \in 1..6 /\ TableNames[Position(TableNames, t)] = t
                      /\ Position(Statements, t) \in 1..6 /\ Statements[Position(Statements, t)] = t
  /\ \A i, j \in 1..6 : /\ TableNames[i] = TableNames[j] => i = j
                        /\ Statements[i] = Statements[j] => i = j
  /\ DOMAIN TableNames = 1..6 /\ DOMAIN Statements = 1..6
  /\ TableNames[1] = "Devices" /\ Statements[6] = "Devices"
<1>1. DOMAIN TableNames = 1..6 /\ DOMAIN Statements = 1..6
    BY DEF TableNames, Statements
<1>2. /\ TableNames[1] = "Devices" /\ TableNames[2] = "Statistics" /\ TableNames[3] = "CommandList"
      /\ TableNames[4] = "HealthChecks" /\ TableNames[5] = "Capabilities" /\ TableNames[6] = "DeviceLogs"
    BY DEF TableNames
<1>3. /\ Statements[1] = "CommandList" /\ Statements[2] = "HealthChecks" /\ Statements[3] = "Statistics"
      /\ Statements[4] = "DeviceLogs" /\ Statements[5] = "Capabilities" /\ Statements[6] = "Devices"
    BY DEF Statements
<1>4. Table = {"Devices", "Statistics", "CommandList", "HealthChecks", "Capabilities", "DeviceLogs"}
    <2>1. Table = {TableNames[i] : i \in 1..6}
        BY <1>1 DEF Table, ToSet
    <2>2. \A i \in 1..6 : i = 1 \/ i = 2 \/ i = 3 \/ i = 4 \/ i = 5 \/ i = 6
        OBVIOUS
    <2>3. 1 \in 1..6 /\ 2 \in 1..6 /\ 3 \in 1..6 /\ 4 \in 1..6 /\ 5 \in 1..6 /\ 6 \in 1..6
        OBVIOUS
    <2> QED BY <1>2, <2>1, <2>2, <2>3
<1>5. \A i, j \in 1..6 : /\ TableNames[i] = TableNames[j] => i = j
                         /\ Statements[i] = Statements[j] => i = j
    BY <1>2, <1>3
<1>6. \A i \in 1..6 : TableNames[i] \in Table /\ Statements[i] \in Table
    BY <1>2, <1>3, <1>4
<1>7. ASSUME NEW t \in Table
      PROVE  /\ Position(TableNames, t) \in 1..6 /\ TableNames[Position(TableNames, t)] = t
             /\ Position(Statements, t) \in 1..6 /\ Statements[Position(Statements, t)] = t
    <2>1. \E i \in 1..6 : TableNames[i] = t
        BY <1>2, <1>4
    <2>2. \E i \in 1..6 : Statements[i] = t
        BY <1>3, <1>4
    <2> QED BY <1>1, <2>1, <2>2 DEF Position
<1> QED BY <1>1, <1>2, <1>3, <1>4, <1>5, <1>6, <1>7, StoreAssumption

(* The serial numbers of the model, as numbers.                            *)
LEMMA DevicesAreSerials ==
  /\ StoredDevice \subseteq Serial_
  /\ \A d, e \in StoredDevice : Number(d) = Number(e) => d = e
  /\ Simulated \subseteq StoredDevice /\ Connecting \subseteq StoredDevice
<1>1. StoredDevice \subseteq Serial_
    BY StoreAssumption DEF Serial_, Digit
<1>2. \A d, e \in StoredDevice : Number(d) = Number(e) => d = e
    BY <1>1, SerialOfNumber
<1> QED BY <1>1, <1>2, StoreAssumption

LEMMA JobIs ==
    ASSUME NEW j \in StoreJob
    PROVE  /\ j.kind \in {"free", "delete", "simulated", "create"}
           /\ j.kind = "free" <=> j = Free
           /\ j.kind = "delete" <=> j \in DeleteJob
           /\ j.kind = "simulated" <=> j \in SimulatedJob
           /\ j.kind = "create" <=> j \in CreateJob
           /\ j.kind = "delete" => /\ Current(j) \in StoredDevice /\ j.step \in 1..8
                                   /\ j.list \in Seq(StoredDevice) /\ j.list # <<>>
                                   /\ j.close \in BOOLEAN /\ j.clean \in BOOLEAN
           /\ j.kind = "simulated" => j.step \in 1..7 /\ j.clean \in BOOLEAN
           /\ j.kind = "create" => j.device \in StoredDevice
<1>1. CASE j = Free
    BY <1>1 DEF Free, DeleteJob, SimulatedJob, CreateJob
<1>2. CASE j \in DeleteJob
    <2>1. /\ j.kind = "delete" /\ j.step \in 1..8 /\ j.list \in Seq(StoredDevice) /\ j.list # <<>>
          /\ j.close \in BOOLEAN /\ j.clean \in BOOLEAN
        BY <1>2 DEF DeleteJob
    <2>2. Current(j) \in StoredDevice
        BY <2>1, HeadTailProperties DEF Current
    <2>3. j # Free /\ j \notin SimulatedJob /\ j \notin CreateJob
        BY <2>1 DEF Free, SimulatedJob, CreateJob
    <2> QED BY <1>2, <2>1, <2>2, <2>3
<1>3. CASE j \in SimulatedJob
    BY <1>3 DEF Free, DeleteJob, SimulatedJob, CreateJob
<1>4. CASE j \in CreateJob
    BY <1>4 DEF Free, DeleteJob, SimulatedJob, CreateJob
<1> QED BY <1>1, <1>2, <1>3, <1>4 DEF StoreJob

(* Only the ghost of a job changed, and it was not made clean.             *)
Softer(j, k) ==
  /\ k \in StoreJob /\ k.kind = j.kind
  /\ j.kind = "delete" => Current(k) = Current(j) /\ k.step = j.step /\ (k.clean = TRUE => j.clean = TRUE)
  /\ j.kind = "simulated" => k.step = j.step /\ (k.clean = TRUE => j.clean = TRUE)
  /\ j.kind = "create" => k.device = j.device

LEMMA SoftenedJob ==
    ASSUME NEW j \in StoreJob, NEW b \in BOOLEAN, NEW k,
           b => j.kind \in {"delete", "simulated"},
           k = IF b THEN [j EXCEPT !.clean = FALSE] ELSE j
    PROVE  Softer(j, k) /\ (b => k.clean = FALSE)
<1>1. CASE ~b
    BY <1>1 DEF Softer
<1>2. CASE b /\ j.kind = "delete"
    <2>1. j \in DeleteJob /\ k = [j EXCEPT !.clean = FALSE]
        BY <1>2, JobIs
    <2>2. /\ k \in DeleteJob /\ k.kind = "delete" /\ k.list = j.list /\ k.step = j.step
          /\ k.clean = FALSE
        BY <2>1 DEF DeleteJob
    <2> QED BY <1>2, <2>2 DEF Softer, StoreJob, Current
<1>3. CASE b /\ j.kind = "simulated"
    <2>1. j \in SimulatedJob /\ k = [j EXCEPT !.clean = FALSE]
        BY <1>3, JobIs
    <2>2. /\ k \in SimulatedJob /\ k.kind = "simulated" /\ k.step = j.step
          /\ k.clean = FALSE
        BY <2>1 DEF SimulatedJob
    <2> QED BY <1>3, <2>2 DEF Softer, StoreJob
<1> QED BY <1>1, <1>2, <1>3

(* Fewer rows, fewer numbers, more races.                                  *)
LEMMA FewerRows ==
    ASSUME NEW j \in StoreJob, NEW rows, NEW sns, NEW r, JobKept(j, rows, sns, r),
           NEW rows2, \A t \in Table : rows2[t] \subseteq rows[t],
           NEW sns2, ToSet(sns2) \subseteq ToSet(sns), NEW r2, r \subseteq r2
    PROVE  JobKept(j, rows2, sns2, r2)
<1>1. DeletionKept(j, rows2, sns2, r2)
    <2> SUFFICES ASSUME j.kind = "delete"
                 PROVE  /\ j.clean = TRUE => \A i \in 1..6 : i < j.step => Current(j) \notin rows2[TableNames[i]]
                        /\ j.clean = TRUE /\ j.step = 8 => Number(Current(j)) \notin ToSet(sns2)
                        /\ j.step \in 2..7 => Current(j) \notin rows2["Devices"] \/ Current(j) \in r2
        BY DEF DeletionKept
    <2>1. /\ j.clean = TRUE => \A i \in 1..6 : i < j.step => Current(j) \notin rows[TableNames[i]]
          /\ j.clean = TRUE /\ j.step = 8 => Number(Current(j)) \notin ToSet(sns)
          /\ j.step \in 2..7 => Current(j) \notin rows["Devices"] \/ Current(j) \in r
        BY DEF JobKept, DeletionKept
    <2>2. \A i \in 1..6 : rows2[TableNames[i]] \subseteq rows[TableNames[i]]
        BY TablesAre
    <2>3. rows2["Devices"] \subseteq rows["Devices"]
        BY TablesAre
    <2> QED BY <2>1, <2>2, <2>3
<1>2. SimulationKept(j, rows2)
    <2> SUFFICES ASSUME j.kind = "simulated", j.clean = TRUE, NEW i \in 1..6, i < j.step
                 PROVE  rows2[Statements[i]] \cap Simulated = {}
        BY DEF SimulationKept
    <2>1. rows[Statements[i]] \cap Simulated = {}
        BY DEF JobKept, SimulationKept
    <2>2. rows2[Statements[i]] \subseteq rows[Statements[i]]
        BY TablesAre
    <2> QED BY <2>1, <2>2
<1> QED BY <1>1, <1>2 DEF JobKept

(* A row of d was written to t.                                            *)
LEMMA MoreRows ==
    ASSUME NEW j \in StoreJob, NEW rows, NEW sns, NEW r, JobKept(j, rows, sns, r),
           NEW t \in Table, NEW d,
           NEW rows2, rows2[t] = rows[t] \cup {d}, \A u \in Table : u # t => rows2[u] = rows[u],
           NEW r2, r \subseteq r2, NEW k, Softer(j, k),
           k.kind = "delete" /\ Current(k) = d /\ k.clean = TRUE => k.step <= Position(TableNames, t),
           k.kind = "simulated" /\ d \in Simulated /\ k.clean = TRUE => k.step <= Position(Statements, t),
           t = "Devices" /\ k.kind = "delete" /\ Current(k) = d /\ k.step \in 2..7 => d \in r2
    PROVE  JobKept(k, rows2, sns, r2)
<1>1. DeletionKept(k, rows2, sns, r2)
    <2> SUFFICES ASSUME k.kind = "delete"
                 PROVE  /\ k.clean = TRUE => \A i \in 1..6 : i < k.step => Current(k) \notin rows2[TableNames[i]]
                        /\ k.clean = TRUE /\ k.step = 8 => Number(Current(k)) \notin ToSet(sns)
                        /\ k.step \in 2..7 => Current(k) \notin rows2["Devices"] \/ Current(k) \in r2
        BY DEF DeletionKept
    <2>1. /\ Current(k) = Current(j) /\ k.step = j.step /\ (k.clean = TRUE => j.clean = TRUE)
          /\ k.step \in 1..8
        BY JobIs DEF Softer
    <2>2. /\ j.clean = TRUE => \A i \in 1..6 : i < j.step => Current(j) \notin rows[TableNames[i]]
          /\ j.clean = TRUE /\ j.step = 8 => Number(Current(j)) \notin ToSet(sns)
          /\ j.step \in 2..7 => Current(j) \notin rows["Devices"] \/ Current(j) \in r
        BY DEF JobKept, DeletionKept, Softer
    <2>3. ASSUME k.clean = TRUE, NEW i \in 1..6, i < k.step PROVE Current(k) \notin rows2[TableNames[i]]
        <3>1. Current(k) \notin rows[TableNames[i]]
            BY <2>1, <2>2, <2>3
        <3>2. CASE TableNames[i] # t
            BY <3>1, <3>2, TablesAre
        <3>3. CASE TableNames[i] = t /\ Current(k) # d
            BY <3>1, <3>3
        <3>4. CASE TableNames[i] = t /\ Current(k) = d
            <4>1. Position(TableNames, t) = i
                BY <3>4, TablesAre
            <4>2. k.step <= i
                BY <2>3, <3>4, <4>1
            <4> QED BY <2>1, <2>3, <4>2
        <3> QED BY <3>2, <3>3, <3>4
    <2>4. ASSUME k.step \in 2..7 PROVE Current(k) \notin rows2["Devices"] \/ Current(k) \in r2
        <3>1. Current(k) \notin rows["Devices"] \/ Current(k) \in r2
            BY <2>1, <2>2, <2>4
        <3>2. CASE t # "Devices"
            BY <3>1, <3>2, TablesAre
        <3>3. CASE t = "Devices" /\ Current(k) # d
            BY <3>1, <3>3
        <3>4. CASE t = "Devices" /\ Current(k) = d
            BY <2>4, <3>4
        <3> QED BY <3>2, <3>3, <3>4
    <2> QED BY <2>1, <2>2, <2>3, <2>4
<1>2. SimulationKept(k, rows2)
    <2> SUFFICES ASSUME k.kind = "simulated", k.clean = TRUE, NEW i \in 1..6, i < k.step
                 PROVE  rows2[Statements[i]] \cap Simulated = {}
        BY DEF SimulationKept
    <2>1. k.step = j.step /\ j.clean = TRUE /\ j.kind = "simulated" /\ k.step \in 1..7
        BY JobIs DEF Softer
    <2>2. rows[Statements[i]] \cap Simulated = {}
        BY <2>1 DEF JobKept, SimulationKept
    <2>3. CASE Statements[i] # t
        BY <2>2, <2>3, TablesAre
    <2>4. CASE Statements[i] = t /\ d \notin Simulated
        BY <2>2, <2>4
    <2>5. CASE Statements[i] = t /\ d \in Simulated
        <3>1. Position(Statements, t) = i
            BY <2>5, TablesAre
        <3>2. k.step <= i
            BY <2>5, <3>1
        <3> QED BY <2>1, <3>2
    <2> QED BY <2>3, <2>4, <2>5
<1> QED BY <1>1, <1>2 DEF JobKept

(* d was added to the cache.                                               *)
LEMMA MoreNumbers ==
    ASSUME NEW j \in StoreJob, NEW rows, NEW sns, NEW r, JobKept(j, rows, sns, r),
           NEW d \in StoredDevice, NEW sns2, ToSet(sns2) \subseteq ToSet(sns) \cup {Number(d)},
           NEW k, Softer(j, k),
           k.kind = "delete" /\ Current(k) = d /\ k.clean = TRUE => k.step <= 7
    PROVE  JobKept(k, rows, sns2, r)
<1>1. DeletionKept(k, rows, sns2, r)
    <2> SUFFICES ASSUME k.kind = "delete"
                 PROVE  /\ k.clean = TRUE => \A i \in 1..6 : i < k.step => Current(k) \notin rows[TableNames[i]]
                        /\ k.clean = TRUE /\ k.step = 8 => Number(Current(k)) \notin ToSet(sns2)
                        /\ k.step \in 2..7 => Current(k) \notin rows["Devices"] \/ Current(k) \in r
        BY DEF DeletionKept
    <2>1. /\ Current(k) = Current(j) /\ k.step = j.step /\ (k.clean = TRUE => j.clean = TRUE)
          /\ k.step \in 1..8 /\ Current(k) \in StoredDevice
        BY JobIs DEF Softer
    <2>2. /\ j.clean = TRUE => \A i \in 1..6 : i < j.step => Current(j) \notin rows[TableNames[i]]
          /\ j.clean = TRUE /\ j.step = 8 => Number(Current(j)) \notin ToSet(sns)
          /\ j.step \in 2..7 => Current(j) \notin rows["Devices"] \/ Current(j) \in r
        BY DEF JobKept, DeletionKept, Softer
    <2>3. ASSUME k.clean = TRUE, k.step = 8 PROVE Number(Current(k)) \notin ToSet(sns2)
        <3>1. Number(Current(k)) \notin ToSet(sns)
            BY <2>1, <2>2, <2>3
        <3>2. Current(k) # d
            BY <2>1, <2>3
        <3>3. Number(Current(k)) # Number(d)
            BY <2>1, <3>2, DevicesAreSerials
        <3> QED BY <3>1, <3>3
    <2> QED BY <2>1, <2>2, <2>3
<1>2. SimulationKept(k, rows)
    BY DEF JobKept, SimulationKept, Softer
<1> QED BY <1>1, <1>2 DEF JobKept

(* A job after a row of d was written to t.                                *)
Warned(k, d, t) ==
  /\ k.kind = "delete" /\ Current(k) = d /\ k.clean = TRUE => k.step <= Position(TableNames, t)
  /\ k.kind = "simulated" /\ d \in Simulated /\ k.clean = TRUE => k.step <= Position(Statements, t)

LEMMA WriteIs ==
    ASSUME StoreInv, NEW d \in StoredDevice, NEW t \in Table, Write(d, t)
    PROVE  /\ deviceRows' \in [Table -> SUBSET StoredDevice]
           /\ deviceRows'[t] = deviceRows[t] \cup {d} /\ \A u \in Table : u # t => deviceRows'[u] = deviceRows[u]
           /\ job' \in [Caller -> StoreJob]
           /\ \A c \in Caller : Softer(job[c], job'[c]) /\ Warned(job'[c], d, t)
<1>1. deviceRows \in [Table -> SUBSET StoredDevice] /\ job \in [Caller -> StoreJob]
    BY DEF StoreInv, DsTypes
<1>2. deviceRows' = [deviceRows EXCEPT ![t] = @ \cup {d}]
    BY DEF Write
<1>3. /\ deviceRows' \in [Table -> SUBSET StoredDevice]
      /\ deviceRows'[t] = deviceRows[t] \cup {d} /\ \A u \in Table : u # t => deviceRows'[u] = deviceRows[u]
    BY <1>1, <1>2
<1> DEFINE hit(c) == \/ c \in Deleting(d) /\ job[c].step > Position(TableNames, t)
                     \/ /\ job[c].kind = "simulated" /\ d \in Simulated
                        /\ job[c].step > Position(Statements, t)
<1>4. job' = [c \in Caller |-> IF hit(c) THEN [job[c] EXCEPT !.clean = FALSE] ELSE job[c]]
    BY DEF Write
<1>5. ASSUME NEW c \in Caller
      PROVE  Softer(job[c], job'[c]) /\ Warned(job'[c], d, t)
    <2>1. PICK j \in StoreJob : j = job[c]
        BY <1>1
    <2>2. PICK b \in BOOLEAN : b = hit(c)
        OBVIOUS
    <2>3. PICK k : k = job'[c]
        OBVIOUS
    <2>4. k = IF b THEN [j EXCEPT !.clean = FALSE] ELSE j
        <3> HIDE DEF hit
        <3> QED BY <1>4, <2>1, <2>2, <2>3
    <2>5. b <=> \/ j.kind = "delete" /\ Current(j) = d /\ j.step > Position(TableNames, t)
                \/ j.kind = "simulated" /\ d \in Simulated /\ j.step > Position(Statements, t)
        BY <2>1, <2>2 DEF Deleting
    <2>6. Softer(j, k) /\ (b => k.clean = FALSE)
        BY <2>4, <2>5, SoftenedJob
    <2>7. Position(TableNames, t) \in Int /\ Position(Statements, t) \in Int
        BY TablesAre
    <2>8. k.kind = "delete" /\ Current(k) = d /\ k.clean = TRUE => k.step <= Position(TableNames, t)
        <3> SUFFICES ASSUME k.kind = "delete", Current(k) = d, k.clean = TRUE
                     PROVE  k.step <= Position(TableNames, t)
            OBVIOUS
        <3>1. j.kind = "delete" /\ Current(j) = d /\ k.step = j.step /\ j.step \in 1..8
            BY <2>6, JobIs DEF Softer
        <3>2. ~b
            BY <2>6
        <3> QED BY <2>5, <2>7, <3>1, <3>2
    <2>9. k.kind = "simulated" /\ d \in Simulated /\ k.clean = TRUE => k.step <= Position(Statements, t)
        <3> SUFFICES ASSUME k.kind = "simulated", d \in Simulated, k.clean = TRUE
                     PROVE  k.step <= Position(Statements, t)
            OBVIOUS
        <3>1. j.kind = "simulated" /\ k.step = j.step /\ j.step \in 1..7
            BY <2>6, JobIs DEF Softer
        <3>2. ~b
            BY <2>6
        <3> QED BY <2>5, <2>7, <3>1, <3>2
    <2> QED BY <2>1, <2>3, <2>6, <2>8, <2>9 DEF Warned
<1>6. job' \in [Caller -> StoreJob]
    <2>1. \A c \in Caller : job'[c] \in StoreJob
        BY <1>5 DEF Softer
    <2> HIDE DEF hit
    <2> QED BY <1>4, <2>1
<1> QED BY <1>3, <1>5, <1>6

LEMMA WriteKeeps ==
    ASSUME StoreInv, NEW d \in StoredDevice, NEW t \in Table, Write(d, t), UNCHANGED SNs_,
           raced \subseteq raced',
           t = "Devices" /\ (\E c \in Deleting(d) : job[c].step \in 2..7) => d \in raced'
    PROVE  \A c \in Caller : JobKept(job'[c], deviceRows', SNs_', raced')
<1> SUFFICES ASSUME NEW c \in Caller PROVE JobKept(job'[c], deviceRows', SNs_, raced')
    OBVIOUS
<1>1. /\ deviceRows'[t] = deviceRows[t] \cup {d} /\ \A u \in Table : u # t => deviceRows'[u] = deviceRows[u]
      /\ Softer(job[c], job'[c]) /\ Warned(job'[c], d, t)
    BY WriteIs
<1>2. PICK j, k, rows, rows2, r2 :
        j = job[c] /\ k = job'[c] /\ rows = deviceRows /\ rows2 = deviceRows' /\ r2 = raced'
    OBVIOUS
<1>3. j \in StoreJob /\ JobKept(j, rows, SNs_, raced)
    BY <1>2 DEF StoreInv, DsTypes
<1>4. t = "Devices" /\ k.kind = "delete" /\ Current(k) = d /\ k.step \in 2..7 => d \in r2
    <2> SUFFICES ASSUME t = "Devices", k.kind = "delete", Current(k) = d, k.step \in 2..7 PROVE d \in r2
        OBVIOUS
    <2>1. job[c].kind = "delete" /\ Current(job[c]) = d /\ job[c].step \in 2..7
        BY <1>1, <1>2 DEF Softer
    <2>2. c \in Deleting(d)
        BY <2>1 DEF Deleting
    <2> QED BY <1>2, <2>1, <2>2
<1>5. /\ k.kind = "delete" /\ Current(k) = d /\ k.clean = TRUE => k.step <= Position(TableNames, t)
      /\ k.kind = "simulated" /\ d \in Simulated /\ k.clean = TRUE => k.step <= Position(Statements, t)
    BY <1>1, <1>2 DEF Warned
<1>6. /\ rows2[t] = rows[t] \cup {d} /\ \A u \in Table : u # t => rows2[u] = rows[u]
      /\ Softer(j, k) /\ raced \subseteq r2
    BY <1>1, <1>2
<1>7. JobKept(k, rows2, SNs_, r2)
    BY <1>3, <1>4, <1>5, <1>6, MoreRows
<1> QED BY <1>2, <1>7

LEMMA SofterCreates ==
    ASSUME NEW j, NEW k, Softer(j, k), NEW d, Creating(j, d)
    PROVE  Creating(k, d)
BY DEF Softer, Creating

LEMMA ConnectKeeps ==
    ASSUME StoreInv, NEW d \in StoredDevice, Connect(d)
    PROVE  StoreInv'
<1>1. conn \in [StoredDevice -> {"none", "known", "unknown", "insert", "list", "on"}]
    BY DEF StoreInv, DsTypes
<1>2. PICK x \in {"none", "known", "unknown"} : conn' = [conn EXCEPT ![d] = x]
    BY DEF Connect
<1>3. conn' \in [StoredDevice -> {"none", "known", "unknown", "insert", "list", "on"}]
    BY <1>1, <1>2
<1>4. \A e \in StoredDevice : conn[e] = "list" => conn'[e] = "list"
    BY <1>1, <1>2 DEF Connect
<1>5. UNCHANGED <<deviceRows, SNs_, Reverse_SNs_, job, raced>>
    BY DEF Connect
<1>6. AllListed(deviceRows', SNs_', conn', raced', job')
    <2>1. deviceRows["Devices"] \subseteq StoredDevice
        BY TablesAre DEF StoreInv, DsTypes
    <2> QED BY <1>4, <1>5, <2>1 DEF StoreInv, AllListed
<1>7. \A c \in Caller : JobKept(job'[c], deviceRows', SNs_', raced')
    BY <1>5 DEF StoreInv
<1>8. Arrays(SNs_', Reverse_SNs_')
    BY <1>5 DEF StoreInv
<1>9. DsTypes'
    BY <1>3, <1>5 DEF StoreInv, DsTypes
<1> QED BY <1>6, <1>7, <1>8, <1>9 DEF StoreInv

ConnStates == {"none", "known", "unknown", "insert", "list", "on"}

(* A row was written to another table than Devices.                        *)
LEMMA RecordedKeeps ==
    ASSUME StoreInv, NEW d \in StoredDevice, NEW t \in Table, t # "Devices", Write(d, t),
           UNCHANGED <<SNs_, Reverse_SNs_, raced>>, conn' \in [StoredDevice -> ConnStates],
           \A e \in StoredDevice : conn[e] = "list" => conn'[e] = "list"
    PROVE  StoreInv'
<1>1. /\ deviceRows' \in [Table -> SUBSET StoredDevice]
      /\ \A u \in Table : u # t => deviceRows'[u] = deviceRows[u]
      /\ job' \in [Caller -> StoreJob]
      /\ \A c \in Caller : Softer(job[c], job'[c])
    BY WriteIs
<1>2. \A c \in Caller : JobKept(job'[c], deviceRows', SNs_', raced')
    BY WriteKeeps
<1>3. AllListed(deviceRows', SNs_', conn', raced', job')
    <2> SUFFICES ASSUME NEW e \in deviceRows'["Devices"]
                 PROVE  \/ Number(e) \in ToSet(SNs_') \/ conn'[e] = "list" \/ e \in raced'
                        \/ \E c \in Caller : Creating(job'[c], e)
        BY DEF AllListed
    <2>1. e \in deviceRows["Devices"] /\ e \in StoredDevice
        BY <1>1, TablesAre
    <2>2. \/ Number(e) \in ToSet(SNs_) \/ conn[e] = "list" \/ e \in raced
          \/ \E c \in Caller : Creating(job[c], e)
        BY <2>1 DEF StoreInv, AllListed
    <2> QED BY <1>1, <2>1, <2>2, SofterCreates
<1>4. Arrays(SNs_', Reverse_SNs_') /\ DsTypes'
    BY <1>1 DEF StoreInv, DsTypes, ConnStates
<1> QED BY <1>2, <1>3, <1>4 DEF StoreInv

LEMMA EventTables == \A t \in EventTable : t \in Table /\ t # "Devices"
BY TablesAre, StoreAssumption

LEMMA ConnIs == StoreInv => conn \in [StoredDevice -> ConnStates]
BY DEF StoreInv, DsTypes, ConnStates

LEMMA MeetKeeps ==
    ASSUME StoreInv, NEW d \in StoredDevice, conn[d] = "unknown", Write(d, "Capabilities"),
           conn' = [conn EXCEPT ![d] = "insert"], UNCHANGED <<contact, SNs_, Reverse_SNs_, raced>>
    PROVE  StoreInv'
<1>1. conn' \in [StoredDevice -> ConnStates] /\ \A e \in StoredDevice : conn[e] = "list" => conn'[e] = "list"
    BY ConnIs DEF ConnStates
<1> QED BY <1>1, TablesAre, RecordedKeeps

LEMMA CapabilitiesKeep ==
    ASSUME StoreInv, NEW d \in StoredDevice, UpdateDeviceCapabilities(d)
    PROVE  StoreInv'
<1>1. conn' \in [StoredDevice -> ConnStates] /\ \A e \in StoredDevice : conn[e] = "list" => conn'[e] = "list"
    BY ConnIs DEF ConnStates, UpdateDeviceCapabilities
<1> QED BY <1>1, TablesAre, RecordedKeeps DEF UpdateDeviceCapabilities

LEMMA RecordKeeps ==
    ASSUME StoreInv, NEW d \in StoredDevice, NEW t \in EventTable, Record(d, t)
    PROVE  StoreInv'
<1>1. conn' \in [StoredDevice -> ConnStates] /\ \A e \in StoredDevice : conn[e] = "list" => conn'[e] = "list"
    BY ConnIs DEF Record
<1>2. t \in Table /\ t # "Devices"
    BY EventTables
<1> QED BY <1>1, <1>2, RecordedKeeps DEF Record

LEMMA HangupKeeps ==
    ASSUME StoreInv, NEW d \in StoredDevice, Hangup(d)
    PROVE  StoreInv'
<1>1. conn' \in [StoredDevice -> ConnStates] /\ \A e \in StoredDevice : conn[e] = "list" => conn'[e] = "list"
    BY ConnIs DEF ConnStates, Hangup, SetDeviceLastRecordedContact
<1>2. UNCHANGED <<deviceRows, SNs_, Reverse_SNs_, job, raced>>
    BY DEF Hangup
<1>3. deviceRows["Devices"] \subseteq StoredDevice
    BY TablesAre DEF StoreInv, DsTypes
<1>4. AllListed(deviceRows', SNs_', conn', raced', job')
    BY <1>1, <1>2, <1>3 DEF StoreInv, AllListed
<1>5. \A c \in Caller : JobKept(job'[c], deviceRows', SNs_', raced')
    BY <1>2 DEF StoreInv
<1>6. Arrays(SNs_', Reverse_SNs_') /\ DsTypes'
    BY <1>1, <1>2 DEF StoreInv, DsTypes, ConnStates
<1> QED BY <1>4, <1>5, <1>6 DEF StoreInv

LEMMA InsertKeeps ==
    ASSUME StoreInv, NEW d \in StoredDevice, conn[d] = "insert", InsertDevice(d),
           conn' = [conn EXCEPT ![d] = "list"], UNCHANGED <<SNs_, Reverse_SNs_>>
    PROVE  StoreInv'
<1>1. /\ deviceRows' \in [Table -> SUBSET StoredDevice]
      /\ deviceRows'["Devices"] = deviceRows["Devices"] \cup {d}
      /\ job' \in [Caller -> StoreJob]
      /\ \A c \in Caller : Softer(job[c], job'[c])
    BY WriteIs, TablesAre DEF InsertDevice
<1>2. raced \subseteq raced' /\ ((\E c \in Deleting(d) : job[c].step \in 2..7) => d \in raced')
    BY DEF InsertDevice
<1>3. \A c \in Caller : JobKept(job'[c], deviceRows', SNs_', raced')
    BY <1>2, TablesAre, WriteKeeps DEF InsertDevice
<1>4. conn' \in [StoredDevice -> ConnStates] /\ conn'[d] = "list" /\ \A e \in StoredDevice : conn[e] = "list" => conn'[e] = "list"
    BY ConnIs DEF ConnStates
<1>5. AllListed(deviceRows', SNs_', conn', raced', job')
    <2> SUFFICES ASSUME NEW e \in deviceRows'["Devices"]
                 PROVE  \/ Number(e) \in ToSet(SNs_') \/ conn'[e] = "list" \/ e \in raced'
                        \/ \E c \in Caller : Creating(job'[c], e)
        BY DEF AllListed
    <2>1. CASE e = d
        BY <1>4, <2>1
    <2>2. CASE e # d
        <3>1. e \in deviceRows["Devices"] /\ e \in StoredDevice
            BY <1>1, <2>2, TablesAre
        <3>2. \/ Number(e) \in ToSet(SNs_) \/ conn[e] = "list" \/ e \in raced
              \/ \E c \in Caller : Creating(job[c], e)
            BY <3>1 DEF StoreInv, AllListed
        <3> QED BY <1>1, <1>2, <1>4, <3>1, <3>2, SofterCreates
    <2> QED BY <2>1, <2>2
<1>6. Arrays(SNs_', Reverse_SNs_') /\ DsTypes'
    BY <1>1, <1>4 DEF StoreInv, DsTypes, ConnStates
<1> QED BY <1>3, <1>5, <1>6 DEF StoreInv

(* d was added to the cache.                                               *)
LEMMA AddedIs ==
    ASSUME StoreInv, NEW d \in StoredDevice, AddSerialNumber(d)
    PROVE  /\ Arrays(SNs_', Reverse_SNs_')
           /\ ToSet(SNs_') = ToSet(SNs_) \cup {Number(d)}
<1>1. PICK D \in SUBSET StoredDevice : AgreeOn(SNs_, Reverse_SNs_, D)
    BY DEF StoreInv, Arrays
<1>2. AgreeOn(SNs_', Reverse_SNs_', D \cup {d})
    BY <1>1, DevicesAreSerials, AddKeepsArrays
<1>3. D \cup {d} \in SUBSET StoredDevice
    OBVIOUS
<1> QED BY <1>1, <1>2, <1>3 DEF Arrays, AgreeOn

LEMMA DeletedIs ==
    ASSUME StoreInv, NEW d \in StoredDevice, DeleteSerialNumber(d)
    PROVE  /\ Arrays(SNs_', Reverse_SNs_')
           /\ ToSet(SNs_') = ToSet(SNs_) \ {Number(d)}
<1>1. PICK D \in SUBSET StoredDevice : AgreeOn(SNs_, Reverse_SNs_, D)
    BY DEF StoreInv, Arrays
<1>2. AgreeOn(SNs_', Reverse_SNs_', D \ {d})
    BY <1>1, DevicesAreSerials, DeleteKeepsArrays
<1>3. D \ {d} \in SUBSET StoredDevice
    OBVIOUS
<1>4. ToSet(SNs_) = {Number(e) : e \in D} /\ ToSet(SNs_') = {Number(e) : e \in D \ {d}}
    BY <1>1, <1>2 DEF AgreeOn
<1>5. \A e \in D : Number(e) = Number(d) => e = d
    BY DevicesAreSerials
<1> QED BY <1>2, <1>3, <1>4, <1>5 DEF Arrays

LEMMA ListingSoftens ==
    ASSUME StoreInv, NEW d \in StoredDevice, AddSerialNumber(d), NEW c \in Caller, NEW k,
           k = IF c \in Deleting(d) /\ job[c].step > 7 THEN [job[c] EXCEPT !.clean = FALSE] ELSE job[c]
    PROVE  Softer(job[c], k) /\ JobKept(k, deviceRows, SNs_', raced)
<1>1. PICK j \in StoreJob : j = job[c]
    BY DEF StoreInv, DsTypes
<1>2. PICK b \in BOOLEAN : b <=> c \in Deleting(d) /\ job[c].step > 7
    OBVIOUS
<1>3. k = IF b THEN [j EXCEPT !.clean = FALSE] ELSE j
    BY <1>1, <1>2
<1>4. b <=> j.kind = "delete" /\ Current(j) = d /\ j.step > 7
    BY <1>1, <1>2 DEF Deleting
<1>5. Softer(j, k) /\ (b => k.clean = FALSE)
    BY <1>3, <1>4, SoftenedJob
<1>6. ASSUME k.kind = "delete", Current(k) = d, k.clean = TRUE PROVE k.step <= 7
    <2>1. j.kind = "delete" /\ Current(j) = d /\ k.step = j.step /\ j.step \in 1..8
        BY <1>5, <1>6, JobIs DEF Softer
    <2>2. ~b
        BY <1>5, <1>6
    <2> QED BY <1>4, <2>1, <2>2
<1>7. PICK sns, sns2 : sns = SNs_ /\ sns2 = SNs_' /\ ToSet(sns2) \subseteq ToSet(sns) \cup {Number(d)}
    BY AddedIs
<1>8. JobKept(j, deviceRows, sns, raced)
    BY <1>1, <1>7 DEF StoreInv
<1>9. JobKept(k, deviceRows, sns2, raced)
    BY <1>5, <1>6, <1>7, <1>8, MoreNumbers
<1> QED BY <1>1, <1>5, <1>7, <1>9

LEMMA ListKeeps ==
    ASSUME StoreInv, NEW d \in StoredDevice, conn[d] = "list", ListDevice(d),
           conn' = [conn EXCEPT ![d] = "on"],
           job' = [c \in Caller |-> IF c \in Deleting(d) /\ job[c].step > 7
                                    THEN [job[c] EXCEPT !.clean = FALSE] ELSE job[c]],
           UNCHANGED raced
    PROVE  StoreInv'
<1>1. AddSerialNumber(d) /\ UNCHANGED deviceRows
    BY DEF ListDevice
<1>2. ASSUME NEW c \in Caller
      PROVE  Softer(job[c], job'[c]) /\ JobKept(job'[c], deviceRows', SNs_', raced')
    <2>1. PICK k : k = job'[c]
        OBVIOUS
    <2>2. k = IF c \in Deleting(d) /\ job[c].step > 7 THEN [job[c] EXCEPT !.clean = FALSE] ELSE job[c]
        BY <2>1
    <2>3. Softer(job[c], k) /\ JobKept(k, deviceRows, SNs_', raced)
        BY <1>1, <2>2, ListingSoftens
    <2> QED BY <1>1, <2>1, <2>3
<1>3. job' \in [Caller -> StoreJob]
    <2>1. \A c \in Caller : job'[c] \in StoreJob
        BY <1>2 DEF Softer
    <2> QED BY <2>1
<1>4. Arrays(SNs_', Reverse_SNs_') /\ ToSet(SNs_') = ToSet(SNs_) \cup {Number(d)}
    BY <1>1, AddedIs
<1>5. conn' \in [StoredDevice -> ConnStates] /\ \A e \in StoredDevice : e # d => conn'[e] = conn[e]
    BY ConnIs DEF ConnStates
<1>6. AllListed(deviceRows', SNs_', conn', raced', job')
    <2> SUFFICES ASSUME NEW e \in deviceRows["Devices"]
                 PROVE  \/ Number(e) \in ToSet(SNs_') \/ conn'[e] = "list" \/ e \in raced'
                        \/ \E c \in Caller : Creating(job'[c], e)
        BY <1>1 DEF AllListed
    <2>1. CASE e = d
        BY <1>4, <2>1
    <2>2. CASE e # d
        <3>1. e \in StoredDevice
            BY TablesAre DEF StoreInv, DsTypes
        <3>2. \/ Number(e) \in ToSet(SNs_) \/ conn[e] = "list" \/ e \in raced
              \/ \E c \in Caller : Creating(job[c], e)
            BY DEF StoreInv, AllListed
        <3> QED BY <1>2, <1>4, <1>5, <2>2, <3>1, <3>2, SofterCreates
    <2> QED BY <2>1, <2>2
<1>7. DsTypes'
    BY <1>1, <1>3, <1>5 DEF StoreInv, DsTypes, ConnStates
<1> QED BY <1>2, <1>4, <1>6, <1>7 DEF StoreInv

LEMMA DefaultKeeps ==
    ASSUME StoreInv, NEW d \in StoredDevice, CreateDefaultDevice(d)
    PROVE  StoreInv'
BY MeetKeeps, InsertKeeps, ListKeeps DEF CreateDefaultDevice

(* Only the job of c changed, and it neither created a device nor does it  *)
(* owe anything yet.                                                       *)
LEMMA JobChanged ==
    ASSUME StoreInv, NEW c \in Caller, NEW k \in StoreJob, job' = [job EXCEPT ![c] = k],
           job[c].kind # "create", JobKept(k, deviceRows, SNs_, raced),
           UNCHANGED <<deviceRows, SNs_, Reverse_SNs_, raced>>,
           conn' \in [StoredDevice -> ConnStates],
           \A e \in StoredDevice : conn[e] = "list" => conn'[e] = "list"
    PROVE  StoreInv'
<1>1. job \in [Caller -> StoreJob]
    BY DEF StoreInv, DsTypes
<1>2. job' \in [Caller -> StoreJob] /\ job'[c] = k /\ \A b \in Caller : b # c => job'[b] = job[b]
    BY <1>1
<1>3. \A b \in Caller : JobKept(job'[b], deviceRows', SNs_', raced')
    BY <1>2 DEF StoreInv
<1>4. \A b \in Caller : \A e : Creating(job[b], e) => Creating(job'[b], e)
    BY <1>2 DEF Creating
<1>5. AllListed(deviceRows', SNs_', conn', raced', job')
    <2>1. deviceRows["Devices"] \subseteq StoredDevice
        BY TablesAre DEF StoreInv, DsTypes
    <2> QED BY <1>4, <2>1 DEF StoreInv, AllListed
<1>6. Arrays(SNs_', Reverse_SNs_') /\ DsTypes'
    BY <1>2 DEF StoreInv, DsTypes, ConnStates
<1> QED BY <1>3, <1>5, <1>6 DEF StoreInv

LEMMA FreeKept == \A rows, sns, r : Free \in StoreJob /\ JobKept(Free, rows, sns, r) /\ Free.kind = "free"
BY DEF Free, StoreJob, JobKept, DeletionKept, SimulationKept

LEMMA NewDeletion ==
    ASSUME NEW k \in DeleteJob, k.step = 1, NEW rows, NEW sns, NEW r
    PROVE  k \in StoreJob /\ JobKept(k, rows, sns, r)
<1>1. k.kind = "delete"
    BY DEF DeleteJob
<1> QED BY <1>1 DEF StoreJob, JobKept, DeletionKept, SimulationKept

LEMMA StartKeeps ==
    ASSUME StoreInv, NEW c \in Caller, NEW list \in Seq(StoredDevice), NEW close \in BOOLEAN,
           Start(c, list, close)
    PROVE  StoreInv'
<1>1. PICK k : k = IF list = <<>> THEN Free
                   ELSE [kind |-> "delete", list |-> list, step |-> 1, close |-> close, clean |-> TRUE]
    OBVIOUS
<1>2. k \in StoreJob /\ JobKept(k, deviceRows, SNs_, raced)
    <2>1. CASE list = <<>>
        BY <1>1, <2>1, FreeKept
    <2>2. CASE list # <<>>
        <3>1. k \in DeleteJob /\ k.step = 1
            BY <1>1, <2>2 DEF DeleteJob
        <3> QED BY <3>1, NewDeletion
    <2> QED BY <2>1, <2>2
<1>3. job' = [job EXCEPT ![c] = k]
    BY <1>1 DEF Start
<1>4. job[c].kind # "create" /\ UNCHANGED <<deviceRows, SNs_, Reverse_SNs_, raced>> /\ conn' = conn
    BY FreeKept DEF Start
<1> QED BY <1>2, <1>3, <1>4, ConnIs, JobChanged

LEMMA ListOf ==
    ASSUME NEW D \in SUBSET StoredDevice
    PROVE  SetToSeq(D) \in Seq(StoredDevice)
<1>1. IsFiniteSet(D)
    BY SerialsAreFinite, DevicesAreSerials, FS_Subset
<1>2. PICK n \in Nat : n = Cardinality(D) /\ ExistsBijection(1..n, D)
    BY <1>1, FS_CardinalityType
<1>3. \E f \in [1..n -> D] : IsInjective(f)
    BY <1>2 DEF ExistsBijection, Bijection, Injection
<1>4. SetToSeq(D) \in [1..n -> D]
    BY <1>2, <1>3 DEF SetToSeq
<1>5. SetToSeq(D) \in Seq(D)
    BY <1>4
<1> QED BY <1>4

LEMMA StartsKeep ==
    ASSUME StoreInv, NEW c \in Caller,
           DoDeleteDevice(c) \/ DoDeleteSelect(c) \/ DeleteDevicesPattern(c) \/ DeleteDevicesOlder(c)
    PROVE  StoreInv'
<1>0. deviceRows["Devices"] \in SUBSET StoredDevice
    BY TablesAre DEF StoreInv, DsTypes
<1>1. CASE DoDeleteDevice(c)
    <2>1. PICK d \in StoredDevice : Start(c, <<d>>, TRUE)
        BY <1>1 DEF DoDeleteDevice
    <2>2. <<d>> \in Seq(StoredDevice) /\ TRUE \in BOOLEAN
        OBVIOUS
    <2>3. PICK list \in Seq(StoredDevice) : list = <<d>>
        BY <2>2
    <2>4. Start(c, list, TRUE)
        BY <2>1, <2>3
    <2> QED BY <2>2, <2>4, StartKeeps
<1>2. CASE DoDeleteSelect(c)
    <2>1. PICK D \in SUBSET StoredDevice : Start(c, SetToSeq(D), FALSE)
        BY <1>2 DEF DoDeleteSelect
    <2> QED BY <2>1, ListOf, StartKeeps
<1>3. CASE DeleteDevicesPattern(c)
    <2>1. PICK D \in SUBSET StoredDevice : Start(c, SetToSeq(D), FALSE)
        <3>1. PICK P \in SUBSET StoredDevice, SimulatedOnly \in BOOLEAN :
                Start(c, SetToSeq({d \in deviceRows["Devices"] \cap P :
                                     SimulatedOnly => d \in Simulated}), FALSE)
            BY <1>3 DEF DeleteDevicesPattern
        <3>2. {d \in deviceRows["Devices"] \cap P : SimulatedOnly => d \in Simulated} \in SUBSET StoredDevice
            BY <1>0
        <3> QED BY <3>1, <3>2
    <2> QED BY <2>1, ListOf, StartKeeps
<1>4. CASE DeleteDevicesOlder(c)
    <2>1. PICK D \in SUBSET StoredDevice : Start(c, SetToSeq(D), FALSE)
        <3>1. PICK OlderContact \in 1..(MaxContact + 1), SimulatedOnly \in BOOLEAN :
                Start(c, SetToSeq({d \in deviceRows["Devices"] :
                                     /\ SimulatedOnly /\ d \in Simulated
                                     /\ contact[d] # 0 /\ contact[d] < OlderContact}), FALSE)
            BY <1>4 DEF DeleteDevicesOlder
        <3>2. {d \in deviceRows["Devices"] : /\ SimulatedOnly /\ d \in Simulated
                                             /\ contact[d] # 0 /\ contact[d] < OlderContact} \in SUBSET StoredDevice
            BY <1>0
        <3> QED BY <3>1, <3>2
    <2> QED BY <2>1, ListOf, StartKeeps
<1> QED BY <1>1, <1>2, <1>3, <1>4

(* A deletion went on: rows or numbers are gone, or a race is known.       *)
LEMMA DeletionWentOn ==
    ASSUME StoreInv, NEW c \in Caller, NEW k \in StoreJob, job' = [job EXCEPT ![c] = k],
           job[c].kind # "create", conn' = conn,
           deviceRows' \in [Table -> SUBSET StoredDevice],
           \A t \in Table : deviceRows'[t] \subseteq deviceRows[t],
           raced \subseteq raced', Arrays(SNs_', Reverse_SNs_'), ToSet(SNs_') \subseteq ToSet(SNs_),
           JobKept(k, deviceRows', SNs_', raced'),
           \A e \in deviceRows'["Devices"] :
             Number(e) \in ToSet(SNs_) => Number(e) \in ToSet(SNs_') \/ e \in raced'
    PROVE  StoreInv'
<1>1. job \in [Caller -> StoreJob]
    BY DEF StoreInv, DsTypes
<1>2. job' \in [Caller -> StoreJob] /\ job'[c] = k /\ \A b \in Caller : b # c => job'[b] = job[b]
    BY <1>1
<1>3. ASSUME NEW b \in Caller, b # c PROVE JobKept(job'[b], deviceRows', SNs_', raced')
    <2>0. PICK j \in StoreJob : j = job[b]
        BY <1>1
    <2>1. PICK rows, sns, r : rows = deviceRows /\ sns = SNs_ /\ r = raced
        OBVIOUS
    <2>2. PICK rows2, sns2, r2 : rows2 = deviceRows' /\ sns2 = SNs_' /\ r2 = raced'
        OBVIOUS
    <2>3. JobKept(j, rows, sns, r) /\ r \subseteq r2 /\ ToSet(sns2) \subseteq ToSet(sns)
          /\ \A t \in Table : rows2[t] \subseteq rows[t]
        BY <2>0, <2>1, <2>2 DEF StoreInv
    <2>4. JobKept(j, rows2, sns2, r2)
        BY <2>3, FewerRows
    <2> QED BY <1>2, <1>3, <2>0, <2>1, <2>2, <2>4
<1>4. \A b \in Caller : \A e : Creating(job[b], e) => Creating(job'[b], e)
    BY <1>2 DEF Creating
<1>5. AllListed(deviceRows', SNs_', conn', raced', job')
    <2> SUFFICES ASSUME NEW e \in deviceRows'["Devices"]
                 PROVE  \/ Number(e) \in ToSet(SNs_') \/ conn'[e] = "list" \/ e \in raced'
                        \/ \E b \in Caller : Creating(job'[b], e)
        BY DEF AllListed
    <2>1. e \in deviceRows["Devices"]
        BY TablesAre
    <2>2. \/ Number(e) \in ToSet(SNs_) \/ conn[e] = "list" \/ e \in raced
          \/ \E b \in Caller : Creating(job[b], e)
        BY <2>1 DEF StoreInv, AllListed
    <2> QED BY <1>4, <2>2
<1>6. DsTypes'
    BY <1>2 DEF StoreInv, DsTypes
<1> QED BY <1>2, <1>3, <1>5, <1>6 DEF StoreInv

(* The next step of a deletion that has passed table i.                    *)
LEMMA PassedTable ==
    ASSUME NEW j \in StoreJob, NEW rows, NEW sns, NEW r, JobKept(j, rows, sns, r), j.kind = "delete",
           NEW i \in 1..6, j.step = i, NEW rows2, \A t \in Table : rows2[t] \subseteq rows[t],
           NEW r2, r \subseteq r2, NEW k \in StoreJob,
           k.kind = "delete", Current(k) = Current(j), k.step = i + 1, k.clean = TRUE => j.clean = TRUE,
           Current(j) \notin rows2[TableNames[i]] \/ (k.clean = FALSE /\ (i = 1 => Current(j) \in r2))
    PROVE  JobKept(k, rows2, sns, r2)
<1>1. JobKept(j, rows2, sns, r2)
    <2>1. ToSet(sns) \subseteq ToSet(sns)
        OBVIOUS
    <2> QED BY <2>1, FewerRows
<1>2. /\ j.clean = TRUE => \A n \in 1..6 : n < j.step => Current(j) \notin rows2[TableNames[n]]
      /\ j.step \in 2..7 => Current(j) \notin rows2["Devices"] \/ Current(j) \in r2
    BY <1>1 DEF JobKept, DeletionKept
<1>3. ASSUME k.clean = TRUE, NEW n \in 1..6, n < k.step PROVE Current(k) \notin rows2[TableNames[n]]
    <2>1. n = i \/ n < j.step
        BY <1>3
    <2> QED BY <1>2, <1>3, <2>1
<1>4. k.step \in 2..7 /\ k.step # 8
    OBVIOUS
<1>5. Current(k) \notin rows2["Devices"] \/ Current(k) \in r2
    <2>1. CASE i = 1
        BY <2>1, TablesAre
    <2>2. CASE i # 1
        <3>1. j.step \in 2..7
            BY <2>2
        <3> QED BY <1>2, <3>1
    <2> QED BY <2>1, <2>2
<1> QED BY <1>3, <1>4, <1>5 DEF JobKept, DeletionKept, SimulationKept

LEMMA DeletionKeeps ==
    ASSUME StoreInv, NEW c \in Caller, DeleteStatement(c)
    PROVE  StoreInv'
<1>1. PICK j \in StoreJob : j = job[c] /\ JobKept(j, deviceRows, SNs_, raced)
    BY DEF StoreInv, DsTypes
<1>2. j.kind = "delete" /\ j.step \in 1..6
    BY <1>1, TablesAre DEF DeleteStatement
<1>3. PICK i \in 1..6, d \in StoredDevice, t \in Table : i = j.step /\ d = Current(j) /\ t = TableNames[i]
    BY <1>2, JobIs, TablesAre
<1>4. UNCHANGED <<SNs_, Reverse_SNs_, conn>> /\ deviceRows \in [Table -> SUBSET StoredDevice]
    BY DEF DeleteStatement, StoreInv, DsTypes
<1>5. job \in [Caller -> StoreJob] /\ j \in DeleteJob
    BY <1>2, JobIs DEF StoreInv, DsTypes
<1>6. CASE /\ deviceRows' = [deviceRows EXCEPT ![t] = @ \ {d}]
           /\ job' = [job EXCEPT ![c].step = @ + 1]
           /\ UNCHANGED raced
    <2>1. PICK k : k = [j EXCEPT !.step = @ + 1]
        OBVIOUS
    <2>2. k \in StoreJob /\ k.kind = "delete" /\ Current(k) = d /\ k.step = i + 1 /\ k.clean = j.clean
        <3>1. k \in DeleteJob /\ k.kind = "delete" /\ k.list = j.list /\ k.step = i + 1 /\ k.clean = j.clean
            BY <1>3, <1>5, <2>1 DEF DeleteJob
        <3> QED BY <1>3, <3>1 DEF StoreJob, Current
    <2>3. job' = [job EXCEPT ![c] = k]
        BY <1>1, <1>5, <1>6, <2>1
    <2>4. /\ deviceRows' \in [Table -> SUBSET StoredDevice] /\ d \notin deviceRows'[t]
          /\ \A u \in Table : deviceRows'[u] \subseteq deviceRows[u]
        BY <1>4, <1>6
    <2>5. JobKept(k, deviceRows', SNs_, raced)
        <3>1. PICK rows, rows2 : rows = deviceRows /\ rows2 = deviceRows'
            OBVIOUS
        <3>2. d \notin rows2[TableNames[i]] /\ (\A u \in Table : rows2[u] \subseteq rows[u])
              /\ JobKept(j, rows, SNs_, raced) /\ raced \subseteq raced
            BY <1>1, <1>3, <2>4, <3>1
        <3>3. (k.clean = TRUE => j.clean = TRUE) /\ j.step = i /\ Current(k) = Current(j)
            BY <1>3, <2>2
        <3>4. j \in StoreJob /\ i \in 1..6 /\ k \in StoreJob /\ j.kind = "delete" /\ k.kind = "delete"
              /\ k.step = i + 1 /\ Current(j) \notin rows2[TableNames[i]]
            BY <1>2, <1>3, <2>2, <3>2
        <3>5. PICK r2 : r2 = raced
            OBVIOUS
        <3>6. raced \subseteq r2
            BY <3>5
        <3>7. JobKept(k, rows2, SNs_, r2)
            <4>1. Current(j) \notin rows2[TableNames[i]] \/ (k.clean = FALSE /\ (i = 1 => Current(j) \in r2))
                BY <3>4
            <4>2. JobKept(j, rows, SNs_, raced)
                BY <3>2
            <4>3. \A u \in Table : rows2[u] \subseteq rows[u]
                BY <3>2
            <4>4. i \in 1..6 /\ j.step = i /\ k.step = i + 1
                BY <3>3, <3>4
            <4> QED BY ONLY <3>3, <3>4, <3>6, <4>1, <4>2, <4>3, <4>4, PassedTable
        <3> QED BY <3>1, <3>5, <3>7
    <2> QED BY <1>1, <1>2, <1>4, <1>6, <2>2, <2>3, <2>4, <2>5, DeletionWentOn DEF StoreInv
<1>7. CASE /\ job' = [job EXCEPT ![c].step = @ + 1, ![c].clean = FALSE]
           /\ raced' = IF t = "Devices" THEN raced \cup {d} ELSE raced
           /\ UNCHANGED deviceRows
    <2>1. PICK k : k = [j EXCEPT !.step = @ + 1, !.clean = FALSE]
        OBVIOUS
    <2>2. k \in StoreJob /\ k.kind = "delete" /\ Current(k) = d /\ k.step = i + 1 /\ k.clean = FALSE
        <3>0. PICK m : m = [j EXCEPT !.step = @ + 1]
            OBVIOUS
        <3>2. m \in DeleteJob /\ m.kind = "delete" /\ m.list = j.list /\ m.step = i + 1
            BY <1>3, <1>5, <3>0 DEF DeleteJob
        <3>3. k = [m EXCEPT !.clean = FALSE]
            BY <2>1, <3>0
        <3>1. k \in DeleteJob /\ k.kind = "delete" /\ k.list = j.list /\ k.step = i + 1 /\ k.clean = FALSE
            BY <3>2, <3>3 DEF DeleteJob
        <3> QED BY <1>3, <3>1 DEF StoreJob, Current
    <2>3. job' = [job EXCEPT ![c] = k]
        BY <1>1, <1>5, <1>7, <2>1
    <2>4. /\ deviceRows' \in [Table -> SUBSET StoredDevice]
          /\ \A u \in Table : deviceRows'[u] \subseteq deviceRows[u]
        BY <1>4, <1>7
    <2>5. raced \subseteq raced' /\ (i = 1 => d \in raced')
        BY <1>3, <1>7, TablesAre
    <2>6. JobKept(k, deviceRows', SNs_, raced')
        <3>1. PICK rows, r2 : rows = deviceRows /\ r2 = raced'
            OBVIOUS
        <3>2. (\A u \in Table : rows[u] \subseteq rows[u])
              /\ JobKept(j, rows, SNs_, raced) /\ raced \subseteq r2 /\ (i = 1 => d \in r2)
            BY <1>1, <2>5, <3>1
        <3>3. JobKept(k, rows, SNs_, r2)
            BY <1>2, <1>3, <2>2, <3>2, PassedTable
        <3> QED BY <1>7, <3>1, <3>3
    <2> QED BY <1>1, <1>2, <1>4, <2>2, <2>3, <2>4, <2>5, <2>6, DeletionWentOn DEF StoreInv
<1> QED BY <1>1, <1>3, <1>6, <1>7 DEF DeleteStatement

LEMMA DeleteListedKeeps ==
    ASSUME StoreInv, NEW c \in Caller, DeleteListed(c)
    PROVE  StoreInv'
<1>1. PICK j \in StoreJob : j = job[c] /\ JobKept(j, deviceRows, SNs_, raced)
    BY DEF StoreInv, DsTypes
<1>2. j.kind = "delete" /\ j.step = 7 /\ UNCHANGED <<deviceRows, conn, raced>>
    BY <1>1 DEF DeleteListed
<1>3. PICK d \in StoredDevice : d = Current(j)
    BY <1>2, JobIs
<1>4. DeleteSerialNumber(d) /\ job' = [job EXCEPT ![c].step = 8]
    BY <1>1, <1>3 DEF DeleteListed
<1>5. Arrays(SNs_', Reverse_SNs_') /\ ToSet(SNs_') = ToSet(SNs_) \ {Number(d)}
    BY <1>4, DeletedIs
<1>6. job \in [Caller -> StoreJob] /\ j \in DeleteJob /\ deviceRows \in [Table -> SUBSET StoredDevice]
    BY <1>2, JobIs DEF StoreInv, DsTypes
<1>7. PICK k : k = [j EXCEPT !.step = 8]
    OBVIOUS
<1>8. k \in StoreJob /\ k.kind = "delete" /\ Current(k) = d /\ k.step = 8 /\ k.clean = j.clean
    <2>1. k \in DeleteJob /\ k.kind = "delete" /\ k.list = j.list /\ k.step = 8 /\ k.clean = j.clean
        BY <1>6, <1>7 DEF DeleteJob
    <2> QED BY <1>3, <2>1 DEF StoreJob, Current
<1>9. job' = [job EXCEPT ![c] = k]
    BY <1>1, <1>4, <1>6, <1>7
<1>10. JobKept(k, deviceRows, SNs_', raced)
    <2>1. PICK sns2 : sns2 = SNs_' /\ Number(d) \notin ToSet(sns2)
        BY <1>5
    <2>2. j.clean = TRUE => \A i \in 1..6 : i < 7 => d \notin deviceRows[TableNames[i]]
        BY <1>1, <1>2, <1>3 DEF JobKept, DeletionKept
    <2>3. \A i \in 1..6 : i < 7
        OBVIOUS
    <2>4. 8 \notin 2..7
        OBVIOUS
    <2>5. DeletionKept(k, deviceRows, sns2, raced)
        BY <1>8, <2>1, <2>2, <2>3, <2>4 DEF DeletionKept
    <2> QED BY <1>8, <2>1, <2>5 DEF JobKept, SimulationKept
<1>11. d \notin deviceRows["Devices"] \/ d \in raced
    <2>1. 7 \in 2..7
        OBVIOUS
    <2> QED BY <1>1, <1>2, <1>3, <2>1 DEF JobKept, DeletionKept
<1>12. \A e \in deviceRows'["Devices"] :
         Number(e) \in ToSet(SNs_) => Number(e) \in ToSet(SNs_') \/ e \in raced'
    <2>1. deviceRows["Devices"] \in SUBSET StoredDevice
        BY <1>6, TablesAre
    <2> QED BY <1>2, <1>5, <1>11, <2>1, DevicesAreSerials
<1>13. /\ deviceRows' \in [Table -> SUBSET StoredDevice] /\ conn' = conn /\ raced \subseteq raced'
       /\ \A t \in Table : deviceRows'[t] \subseteq deviceRows[t]
    BY <1>2, <1>6
<1>14. JobKept(k, deviceRows', SNs_', raced')
    BY <1>2, <1>10
<1> QED BY <1>1, <1>2, <1>5, <1>8, <1>9, <1>12, <1>13, <1>14, DeletionWentOn

LEMMA DoneKeeps ==
    ASSUME StoreInv, NEW c \in Caller, DeleteDone(c)
    PROVE  StoreInv'
<1>1. PICK j \in StoreJob : j = job[c]
    BY DEF StoreInv, DsTypes
<1>2. j.kind = "delete" /\ j.step = 8 /\ UNCHANGED <<deviceRows, SNs_, Reverse_SNs_, raced>>
    BY <1>1 DEF DeleteDone
<1>3. j \in DeleteJob /\ j.list \in Seq(StoredDevice) /\ j.list # <<>> /\ Current(j) \in StoredDevice
    BY <1>2, JobIs
<1>4. PICK k : k = IF Tail(j.list) = <<>> THEN Free
                   ELSE [j EXCEPT !.list = Tail(@), !.step = 1, !.clean = TRUE]
    OBVIOUS
<1>5. job' = [job EXCEPT ![c] = k]
    BY <1>1, <1>4 DEF DeleteDone
<1>6. k \in StoreJob /\ JobKept(k, deviceRows, SNs_, raced)
    <2>1. CASE Tail(j.list) = <<>>
        BY <1>4, <2>1, FreeKept
    <2>2. CASE Tail(j.list) # <<>>
        <3>1. PICK list \in Seq(StoredDevice), close \in BOOLEAN : list = Tail(j.list) /\ close = j.close
            BY <1>2, <1>3, HeadTailProperties, JobIs
        <3>2. PICK m : m = [j EXCEPT !.list = list]
            OBVIOUS
        <3>3. PICK n : n = [m EXCEPT !.step = 1]
            OBVIOUS
        <3>4. k = [n EXCEPT !.clean = TRUE]
            BY <1>4, <2>2, <3>1, <3>2, <3>3
        <3>5. m \in DeleteJob
            BY <1>3, <2>2, <3>1, <3>2 DEF DeleteJob
        <3>6. n \in DeleteJob /\ n.step = 1
            BY <3>3, <3>5 DEF DeleteJob
        <3>7. k \in DeleteJob /\ k.step = 1
            BY <3>4, <3>6 DEF DeleteJob
        <3> QED BY <3>7, NewDeletion
    <2> QED BY <2>1, <2>2
<1>7. conn' \in [StoredDevice -> ConnStates] /\ \A e \in StoredDevice : conn[e] = "list" => conn'[e] = "list"
    <2>1. conn \in [StoredDevice -> ConnStates]
        BY ConnIs
    <2>2. PICK d \in StoredDevice : d = Current(job[c])
        BY <1>1, <1>3
    <2>3. conn' = conn \/ (conn[d] = "on" /\ conn' = [conn EXCEPT ![d] = "none"])
        <3>1. \/ SetDeviceLastRecordedContact(Current(job[c])) /\ conn[Current(job[c])] = "on"
              \/ conn' = conn
            BY DEF DeleteDone
        <3>2. CASE SetDeviceLastRecordedContact(Current(job[c])) /\ conn[Current(job[c])] = "on"
            <4>1. SetDeviceLastRecordedContact(d) /\ conn[d] = "on"
                BY <2>2, <3>2
            <4> QED BY <4>1 DEF SetDeviceLastRecordedContact
        <3>3. CASE conn' = conn
            BY <3>3
        <3> QED BY <3>1, <3>2, <3>3
    <2> QED BY <2>1, <2>3 DEF ConnStates
<1> QED BY <1>1, <1>2, <1>5, <1>6, <1>7, JobChanged

LEMMA SimulatedStartKeeps ==
    ASSUME StoreInv, NEW c \in Caller, DoDeleteSimulated(c)
    PROVE  StoreInv'
<1>1. PICK k : k = [kind |-> "simulated", step |-> 1, clean |-> TRUE]
    OBVIOUS
<1>2. k \in SimulatedJob /\ k.kind = "simulated" /\ k.step = 1
    BY <1>1 DEF SimulatedJob
<1>3. k \in StoreJob /\ JobKept(k, deviceRows, SNs_, raced)
    BY <1>2 DEF StoreJob, JobKept, DeletionKept, SimulationKept
<1>4. /\ job' = [job EXCEPT ![c] = k] /\ job[c].kind # "create"
      /\ UNCHANGED <<deviceRows, SNs_, Reverse_SNs_, raced>> /\ conn' = conn
    BY <1>1, FreeKept DEF DoDeleteSimulated
<1> QED BY <1>3, <1>4, ConnIs, JobChanged

LEMMA SimulatedDoneKeeps ==
    ASSUME StoreInv, NEW c \in Caller, DeleteSimulatedDone(c)
    PROVE  StoreInv'
<1>1. /\ job' = [job EXCEPT ![c] = Free] /\ job[c].kind # "create"
      /\ UNCHANGED <<deviceRows, SNs_, Reverse_SNs_, raced>> /\ conn' = conn
    BY DEF DeleteSimulatedDone
<1> QED BY <1>1, FreeKept, ConnIs, JobChanged

LEMMA SimulatedStatementKeeps ==
    ASSUME StoreInv, NEW c \in Caller, DeleteSimulatedDevice(c)
    PROVE  StoreInv'
<1>1. PICK j \in StoreJob : j = job[c] /\ JobKept(j, deviceRows, SNs_, raced)
    BY DEF StoreInv, DsTypes
<1>2. j.kind = "simulated" /\ j.step \in 1..6
    BY <1>1, TablesAre DEF DeleteSimulatedDevice
<1>3. PICK i \in 1..6, t \in Table : i = j.step /\ t = Statements[i]
    BY <1>2, TablesAre
<1>4. UNCHANGED <<SNs_, Reverse_SNs_, conn, raced>> /\ deviceRows \in [Table -> SUBSET StoredDevice]
    BY DEF DeleteSimulatedDevice, StoreInv, DsTypes
<1>5. job \in [Caller -> StoreJob] /\ j \in SimulatedJob
    BY <1>2, JobIs DEF StoreInv, DsTypes
<1>6. PICK m : m = [j EXCEPT !.step = @ + 1]
    OBVIOUS
<1>61. m \in SimulatedJob /\ m.step = i + 1
    BY <1>3, <1>5, <1>6 DEF SimulatedJob
<1>62. PICK b \in BOOLEAN :
        /\ job' = [job EXCEPT ![c] = [m EXCEPT !.clean = b]]
        /\ deviceRows' \in [Table -> SUBSET StoredDevice]
        /\ \A u \in Table : deviceRows'[u] \subseteq deviceRows[u]
        /\ b => j.clean = TRUE /\ deviceRows'[t] \cap Simulated = {}
    <2>1. CASE /\ deviceRows' = [deviceRows EXCEPT ![t] = @ \ Joined(t)]
               /\ job' = [job EXCEPT ![c].step = @ + 1,
                    ![c].clean = @ /\ deviceRows[t] \cap Simulated \subseteq deviceRows["Devices"]]
        <3>1. PICK b \in BOOLEAN : b = (j.clean /\ deviceRows[t] \cap Simulated \subseteq deviceRows["Devices"])
            OBVIOUS
        <3>2. job' = [job EXCEPT ![c] = [m EXCEPT !.clean = b]]
            <4>1. job' = [job EXCEPT ![c] = [[j EXCEPT !.step = @ + 1] EXCEPT !.clean = b]]
                BY <1>1, <1>5, <2>1, <3>1
            <4> QED BY <1>6, <4>1
        <3>4. /\ deviceRows' \in [Table -> SUBSET StoredDevice] /\ deviceRows'[t] = deviceRows[t] \ Joined(t)
              /\ \A u \in Table : deviceRows'[u] \subseteq deviceRows[u]
            BY <1>4, <2>1
        <3>5. ASSUME b PROVE j.clean = TRUE /\ deviceRows'[t] \cap Simulated = {}
            <4>1. deviceRows[t] \cap Simulated \subseteq Joined(t)
                BY <3>1, <3>5 DEF Joined
            <4>2. j.clean \in BOOLEAN
                BY <1>5 DEF SimulatedJob
            <4>3. j.clean = TRUE
                BY <3>1, <3>5, <4>2
            <4> QED BY <3>4, <4>1, <4>3
        <3> QED BY <3>2, <3>4, <3>5
    <2>2. CASE /\ job' = [job EXCEPT ![c].step = @ + 1, ![c].clean = FALSE]
               /\ UNCHANGED deviceRows
        <3>1. job' = [job EXCEPT ![c] = [m EXCEPT !.clean = FALSE]]
            BY <1>1, <1>5, <1>6, <2>2
        <3> QED BY <1>4, <2>2, <3>1
    <2> QED BY <1>1, <1>3, <2>1, <2>2 DEF DeleteSimulatedDevice
<1>63. PICK k : k = [m EXCEPT !.clean = b]
    OBVIOUS
<1>7. k \in SimulatedJob /\ k.kind = "simulated" /\ k.step = i + 1 /\ k.clean = b
    BY <1>61, <1>63 DEF SimulatedJob
<1>8. JobKept(k, deviceRows', SNs_, raced)
    <2>1. SimulationKept(k, deviceRows')
        <3> SUFFICES ASSUME k.clean = TRUE, NEW n \in 1..6, n < i + 1
                     PROVE  deviceRows'[Statements[n]] \cap Simulated = {}
            BY <1>7 DEF SimulationKept
        <3>1. b
            BY <1>7
        <3>2. CASE n = i
            BY <1>3, <1>62, <3>1, <3>2
        <3>3. CASE n # i
            <4>1. n < j.step
                BY <1>3, <3>3
            <4>2. deviceRows[Statements[n]] \cap Simulated = {}
                BY <1>1, <1>2, <1>62, <3>1, <4>1 DEF JobKept, SimulationKept
            <4>3. deviceRows'[Statements[n]] \subseteq deviceRows[Statements[n]]
                BY <1>62, TablesAre
            <4> QED BY <4>2, <4>3
        <3> QED BY <3>2, <3>3
    <2> QED BY <1>7, <2>1 DEF JobKept, DeletionKept
<1>9. k \in StoreJob /\ job[c].kind # "create"
    BY <1>1, <1>2, <1>7 DEF StoreJob
<1>10. job' = [job EXCEPT ![c] = k]
    BY <1>62, <1>63
<1> QED BY <1>4, <1>62, <1>8, <1>9, <1>10, DeletionWentOn DEF StoreInv

(* The job of c after the row of d was posted.                             *)
PostedJob(c, d) ==
  IF \/ c \in Deleting(d) /\ job[c].step > 1
     \/ job[c].kind = "simulated" /\ d \in Simulated /\ job[c].step > 6
  THEN [job[c] EXCEPT !.clean = FALSE] ELSE job[c]

MidDeletion(d) == \E b \in Deleting(d) : job[b].step \in 2..7

LEMMA PostSoftens ==
    ASSUME StoreInv, NEW d \in StoredDevice, NEW c \in Caller, NEW k,
           k = PostedJob(c, d),
           NEW rows2, rows2 = [deviceRows EXCEPT !["Devices"] = @ \cup {d}],
           NEW r2, raced \subseteq r2, MidDeletion(d) => d \in r2
    PROVE  Softer(job[c], k) /\ JobKept(k, rows2, SNs_, r2)
<1>1. PICK j \in StoreJob : j = job[c] /\ JobKept(j, deviceRows, SNs_, raced)
    BY DEF StoreInv, DsTypes
<1>2. PICK b \in BOOLEAN :
        b <=> \/ j.kind = "delete" /\ Current(j) = d /\ j.step > 1
              \/ j.kind = "simulated" /\ d \in Simulated /\ j.step > 6
    OBVIOUS
<1>3. k = IF b THEN [j EXCEPT !.clean = FALSE] ELSE j
    BY <1>1, <1>2 DEF Deleting, PostedJob
<1>4. Softer(j, k) /\ (b => k.clean = FALSE)
    BY <1>2, <1>3, SoftenedJob
<1>5. Position(TableNames, "Devices") = 1 /\ Position(Statements, "Devices") = 6
    <2>1. 1 \in 1..6 /\ 6 \in 1..6
        OBVIOUS
    <2> QED BY <2>1, TablesAre
<1>6. k.kind = "delete" /\ Current(k) = d /\ k.clean = TRUE => k.step <= Position(TableNames, "Devices")
    <2> SUFFICES ASSUME k.kind = "delete", Current(k) = d, k.clean = TRUE PROVE k.step <= 1
        BY <1>5
    <2>1. j.kind = "delete" /\ Current(j) = d /\ k.step = j.step /\ j.step \in 1..8
        BY <1>4, JobIs DEF Softer
    <2>2. ~b
        BY <1>4
    <2> QED BY <1>2, <2>1, <2>2
<1>7. k.kind = "simulated" /\ d \in Simulated /\ k.clean = TRUE => k.step <= Position(Statements, "Devices")
    <2> SUFFICES ASSUME k.kind = "simulated", d \in Simulated, k.clean = TRUE PROVE k.step <= 6
        BY <1>5
    <2>1. j.kind = "simulated" /\ k.step = j.step /\ j.step \in 1..7
        BY <1>4, JobIs DEF Softer
    <2>2. ~b
        BY <1>4
    <2> QED BY <1>2, <2>1, <2>2
<1>8. k.kind = "delete" /\ Current(k) = d /\ k.step \in 2..7 => d \in r2
    <2> SUFFICES ASSUME k.kind = "delete", Current(k) = d, k.step \in 2..7 PROVE d \in r2
        OBVIOUS
    <2>1. job[c].kind = "delete" /\ Current(job[c]) = d /\ job[c].step \in 2..7
        BY <1>1, <1>4 DEF Softer
    <2> QED BY <2>1 DEF Deleting, MidDeletion
<1>9. PICK t \in Table : t = "Devices"
    BY TablesAre
<1>10. PICK rows, rows1, r1, m :
         rows = deviceRows /\ rows1 = rows2 /\ r1 = r2 /\ m = k
    OBVIOUS
<1>11. /\ rows1[t] = rows[t] \cup {d} /\ \A u \in Table : u # t => rows1[u] = rows[u]
       /\ Softer(j, m) /\ raced \subseteq r1
    BY <1>4, <1>9, <1>10 DEF StoreInv, DsTypes
<1>12. /\ m.kind = "delete" /\ Current(m) = d /\ m.clean = TRUE => m.step <= Position(TableNames, t)
       /\ m.kind = "simulated" /\ d \in Simulated /\ m.clean = TRUE => m.step <= Position(Statements, t)
    BY <1>6, <1>7, <1>9, <1>10
<1>13. t = "Devices" /\ m.kind = "delete" /\ Current(m) = d /\ m.step \in 2..7 => d \in r1
    BY <1>8, <1>10
<1>14. j \in StoreJob /\ JobKept(j, rows, SNs_, raced)
    BY <1>1, <1>10
<1>15. t \in Table
    OBVIOUS
<1>16. JobKept(m, rows1, SNs_, r1)
    BY ONLY <1>11, <1>12, <1>13, <1>14, <1>15, MoreRows
<1> QED BY <1>1, <1>4, <1>10, <1>16

LEMMA PostKeeps ==
    ASSUME StoreInv, NEW c \in Caller, NEW d \in StoredDevice, job[c] = Free,
           deviceRows' = [deviceRows EXCEPT !["Devices"] = @ \cup {d}],
           raced' = IF \E b \in Deleting(d) : job[b].step \in 2..7 THEN raced \cup {d} ELSE raced,
           job' = [b \in Caller |->
             IF b = c THEN [kind |-> "create", device |-> d]
             ELSE IF \/ b \in Deleting(d) /\ job[b].step > 1
                     \/ job[b].kind = "simulated" /\ d \in Simulated /\ job[b].step > 6
             THEN [job[b] EXCEPT !.clean = FALSE] ELSE job[b]],
           UNCHANGED <<SNs_, Reverse_SNs_, conn>>
    PROVE  StoreInv'
<1>1. /\ deviceRows' \in [Table -> SUBSET StoredDevice]
      /\ deviceRows'["Devices"] = deviceRows["Devices"] \cup {d}
    BY TablesAre DEF StoreInv, DsTypes
<1>2. raced \subseteq raced' /\ (MidDeletion(d) => d \in raced')
    BY DEF MidDeletion
<1>3. ASSUME NEW b \in Caller, b # c
      PROVE  Softer(job[b], job'[b]) /\ JobKept(job'[b], deviceRows', SNs_', raced')
    <2>1. PICK k, rows2, r2 : k = job'[b] /\ rows2 = deviceRows' /\ r2 = raced'
        OBVIOUS
    <2>2. k = PostedJob(b, d)
        BY <1>3, <2>1 DEF PostedJob
    <2>3. rows2 = [deviceRows EXCEPT !["Devices"] = @ \cup {d}] /\ raced \subseteq r2
          /\ (MidDeletion(d) => d \in r2)
        BY <1>2, <2>1
    <2>4. Softer(job[b], k) /\ JobKept(k, rows2, SNs_, r2)
        <3>1. StoreInv /\ d \in StoredDevice /\ b \in Caller
            OBVIOUS
        <3> QED BY ONLY <2>2, <2>3, <3>1, PostSoftens
    <2> QED BY <2>1, <2>4
<1>4. job'[c] \in CreateJob /\ Creating(job'[c], d)
    BY DEF CreateJob, Creating
<1>5. JobKept(job'[c], deviceRows', SNs_', raced')
    BY <1>4 DEF Creating, JobKept, DeletionKept, SimulationKept
<1>6. job' \in [Caller -> StoreJob]
    <2>1. \A b \in Caller : job'[b] \in StoreJob
        BY <1>3, <1>4 DEF Softer, StoreJob
    <2>2. DOMAIN job' = Caller
        OBVIOUS
    <2>3. job' = [b \in Caller |-> job'[b]]
        OBVIOUS
    <2> QED BY ONLY <2>1, <2>3
<1>7. AllListed(deviceRows', SNs_', conn', raced', job')
    <2> SUFFICES ASSUME NEW e \in deviceRows'["Devices"]
                 PROVE  \/ Number(e) \in ToSet(SNs_') \/ conn'[e] = "list" \/ e \in raced'
                        \/ \E b \in Caller : Creating(job'[b], e)
        BY DEF AllListed
    <2>1. CASE e = d
        BY <1>4, <2>1
    <2>2. CASE e # d
        <3>1. e \in deviceRows["Devices"]
            BY <1>1, <2>2
        <3>2. \/ Number(e) \in ToSet(SNs_) \/ conn[e] = "list" \/ e \in raced
              \/ \E b \in Caller : Creating(job[b], e)
            BY <3>1 DEF StoreInv, AllListed
        <3>3. ASSUME NEW b \in Caller, Creating(job[b], e) PROVE Creating(job'[b], e)
            <4>1. b # c
                BY <3>3, FreeKept DEF Creating, Free
            <4> QED BY <1>3, <3>3, <4>1, SofterCreates
        <3> QED BY <1>2, <3>2, <3>3
    <2> QED BY <2>1, <2>2
<1>8. Arrays(SNs_', Reverse_SNs_') /\ DsTypes'
    BY <1>1, <1>6 DEF StoreInv, DsTypes
<1> QED BY <1>3, <1>5, <1>7, <1>8 DEF StoreInv

LEMMA PostListKeeps ==
    ASSUME StoreInv, NEW c \in Caller, job[c].kind = "create", ListDevice(job[c].device),
           job' = [b \in Caller |->
             IF b = c THEN Free
             ELSE IF b \in Deleting(job[c].device) /\ job[b].step > 7
             THEN [job[b] EXCEPT !.clean = FALSE] ELSE job[b]],
           UNCHANGED <<conn, raced>>
    PROVE  StoreInv'
<1>1. PICK d \in StoredDevice : d = job[c].device
    BY JobIs DEF StoreInv, DsTypes
<1>2. AddSerialNumber(d) /\ UNCHANGED deviceRows
    BY <1>1 DEF ListDevice
<1>3. ASSUME NEW b \in Caller, b # c
      PROVE  Softer(job[b], job'[b]) /\ JobKept(job'[b], deviceRows', SNs_', raced')
    <2>1. PICK k : k = job'[b]
        OBVIOUS
    <2>2. k = IF b \in Deleting(d) /\ job[b].step > 7 THEN [job[b] EXCEPT !.clean = FALSE] ELSE job[b]
        BY <1>1, <1>3, <2>1
    <2>3. Softer(job[b], k) /\ JobKept(k, deviceRows, SNs_', raced)
        BY <1>2, <2>2, ListingSoftens
    <2> QED BY <1>2, <2>1, <2>3
<1>4. job'[c] = Free
    OBVIOUS
<1>5. job' \in [Caller -> StoreJob]
    <2>1. \A b \in Caller : job'[b] \in StoreJob
        BY <1>3, <1>4, FreeKept DEF Softer
    <2>2. job' = [b \in Caller |-> job'[b]]
        OBVIOUS
    <2> QED BY ONLY <2>1, <2>2
<1>6. Arrays(SNs_', Reverse_SNs_') /\ ToSet(SNs_') = ToSet(SNs_) \cup {Number(d)}
    BY <1>2, AddedIs
<1>7. AllListed(deviceRows', SNs_', conn', raced', job')
    <2> SUFFICES ASSUME NEW e \in deviceRows["Devices"]
                 PROVE  \/ Number(e) \in ToSet(SNs_') \/ conn'[e] = "list" \/ e \in raced'
                        \/ \E b \in Caller : Creating(job'[b], e)
        BY <1>2 DEF AllListed
    <2>1. CASE e = d
        BY <1>6, <2>1
    <2>2. CASE e # d
        <3>1. \/ Number(e) \in ToSet(SNs_) \/ conn[e] = "list" \/ e \in raced
              \/ \E b \in Caller : Creating(job[b], e)
            BY DEF StoreInv, AllListed
        <3>2. ASSUME NEW b \in Caller, Creating(job[b], e) PROVE Creating(job'[b], e)
            <4>1. b # c
                BY <1>1, <2>2, <3>2 DEF Creating
            <4> QED BY <1>3, <3>2, <4>1, SofterCreates
        <3> QED BY <1>6, <3>1, <3>2
    <2> QED BY <2>1, <2>2
<1>8. DsTypes'
    BY <1>2, <1>5 DEF StoreInv, DsTypes
<1>9. \A b \in Caller : JobKept(job'[b], deviceRows', SNs_', raced')
    <2>1. JobKept(job'[c], deviceRows', SNs_', raced')
        BY <1>4, FreeKept
    <2> QED BY <1>3, <2>1
<1> QED BY <1>6, <1>7, <1>8, <1>9 DEF StoreInv

LEMMA RestartKeeps ==
    ASSUME StoreInv, Restart_
    PROVE  StoreInv'
<1>1. PICK D \in SUBSET StoredDevice : D = deviceRows["Devices"]
    BY TablesAre DEF StoreInv, DsTypes
<1>2. AgreeOn(SNs_', Reverse_SNs_', D)
    <2>1. D \in SUBSET Serial_
        BY DevicesAreSerials
    <2>2. SNs_' = Loaded(D) /\ Reverse_SNs_' = Loaded({ReverseSerialNumber(d) : d \in D})
        BY <1>1 DEF Restart_
    <2> QED BY <2>1, <2>2, LoadedArrays
<1>3. Arrays(SNs_', Reverse_SNs_')
    BY <1>2 DEF Arrays
<1>4. \A c \in Caller : job'[c] = Free
    BY DEF Restart_
<1>5. \A c \in Caller : JobKept(job'[c], deviceRows', SNs_', raced')
    BY <1>4, FreeKept
<1>6. AllListed(deviceRows', SNs_', conn', raced', job')
    <2>1. \A e \in deviceRows'["Devices"] : Number(e) \in ToSet(SNs_')
        BY <1>1, <1>2 DEF Restart_, AgreeOn
    <2> QED BY <2>1 DEF AllListed
<1>7. DsTypes'
    BY FreeKept DEF StoreInv, DsTypes, Restart_
<1> QED BY <1>3, <1>5, <1>6, <1>7 DEF StoreInv

LEMMA StoreBegins ==
    ASSUME DsInit
    PROVE  StoreInv
<1>1. AgreeOn(SNs_, Reverse_SNs_, {})
    <2>1. SNs_ = <<>> /\ Reverse_SNs_ = <<>>
        BY DEF DsInit
    <2>2. Rising(<<>>) /\ ToSet(<<>>) = {}
        BY DEF Rising, ToSet
    <2> QED BY <2>1, <2>2 DEF AgreeOn
<1>2. Arrays(SNs_, Reverse_SNs_)
    BY <1>1 DEF Arrays
<1>3. DsTypes
    BY FreeKept DEF DsInit, DsTypes
<1>4. \A c \in Caller : JobKept(job[c], deviceRows, SNs_, raced)
    BY FreeKept DEF DsInit
<1>5. AllListed(deviceRows, SNs_, conn, raced, job)
    BY TablesAre DEF DsInit, AllListed
<1> QED BY <1>2, <1>3, <1>4, <1>5 DEF StoreInv

LEMMA StoreGoesOn ==
    ASSUME StoreInv, [DsNext]_dsVars
    PROVE  StoreInv'
<1>1. CASE UNCHANGED dsVars
    <2>1. UNCHANGED <<deviceRows, SNs_, Reverse_SNs_, conn, job, raced>>
        BY <1>1 DEF dsVars
    <2>2. DsTypes' /\ Arrays(SNs_', Reverse_SNs_') /\ AllListed(deviceRows', SNs_', conn', raced', job')
        BY <2>1 DEF StoreInv, DsTypes
    <2>3. \A c \in Caller : JobKept(job'[c], deviceRows', SNs_', raced')
        BY <2>1 DEF StoreInv
    <2> QED BY <2>2, <2>3 DEF StoreInv
<1>2. ASSUME NEW d \in Connecting,
             \/ Connect(d) \/ CreateDefaultDevice(d) \/ UpdateDeviceCapabilities(d) \/ Hangup(d)
             \/ \E t \in EventTable : Record(d, t)
      PROVE  StoreInv'
    <2>1. d \in StoredDevice
        BY DevicesAreSerials
    <2> QED BY <1>2, <2>1, ConnectKeeps, DefaultKeeps, CapabilitiesKeep, HangupKeeps, RecordKeeps
<1>3. ASSUME NEW c \in Caller,
             \/ DoDeleteDevice(c) \/ DoDeleteSelect(c) \/ DeleteDevicesPattern(c)
             \/ DeleteDevicesOlder(c)
      PROVE  StoreInv'
    BY <1>3, StartsKeep
<1>4. ASSUME NEW c \in Caller,
             \/ DeleteStatement(c) \/ DeleteListed(c) \/ DeleteDone(c)
             \/ DoDeleteSimulated(c) \/ DeleteSimulatedDevice(c) \/ DeleteSimulatedDone(c)
      PROVE  StoreInv'
    BY <1>4, DeletionKeeps, DeleteListedKeeps, DoneKeeps, SimulatedStartKeeps,
       SimulatedStatementKeeps, SimulatedDoneKeeps
<1>5. ASSUME NEW c \in Caller, DoPost_(c) PROVE StoreInv'
    BY <1>5, PostKeeps, PostListKeeps DEF DoPost_
<1> QED BY <1>1, <1>2, <1>3, <1>4, <1>5, RestartKeeps DEF DsNext

LEMMA StoreAgrees ==
    ASSUME StoreInv
    PROVE  ArraysAgree /\ SearchIsExact /\ DeletionIsComplete /\ ListedUnlessRaced
<1>1. PICK D \in SUBSET Serial_ : AgreeOn(SNs_, Reverse_SNs_, D)
    BY DevicesAreSerials DEF StoreInv, Arrays
<1>2. ArraysAgree /\ SearchIsExact
    BY <1>1, SortedArraysAgree, SearchesAreExact
<1>3. DeletionIsComplete
    <2> SUFFICES ASSUME NEW c \in Caller
                 PROVE  /\ job[c].kind = "delete" /\ job[c].step = 8 /\ job[c].clean =>
                             /\ \A t \in Table : Current(job[c]) \notin deviceRows[t]
                             /\ Number(Current(job[c])) \notin ToSet(SNs_)
                        /\ job[c].kind = "simulated" /\ job[c].step = 7 /\ job[c].clean =>
                             \A t \in Table : deviceRows[t] \cap Simulated = {}
        BY DEF DeletionIsComplete
    <2>1. PICK j \in StoreJob : j = job[c] /\ JobKept(j, deviceRows, SNs_, raced)
        BY DEF StoreInv, DsTypes
    <2>2. ASSUME j.kind = "delete", j.step = 8, j.clean
          PROVE  /\ \A t \in Table : Current(j) \notin deviceRows[t]
                 /\ Number(Current(j)) \notin ToSet(SNs_)
        <3>1. j.clean = TRUE
            BY <2>2, JobIs
        <3>2. /\ \A i \in 1..6 : i < 8 => Current(j) \notin deviceRows[TableNames[i]]
              /\ Number(Current(j)) \notin ToSet(SNs_)
            BY <2>1, <2>2, <3>1 DEF JobKept, DeletionKept
        <3>3. ASSUME NEW t \in Table PROVE Current(j) \notin deviceRows[t]
            <4>1. PICK i \in 1..6 : TableNames[i] = t
                BY TablesAre
            <4> QED BY <3>2, <4>1
        <3> QED BY <3>2, <3>3
    <2>3. ASSUME j.kind = "simulated", j.step = 7, j.clean, NEW t \in Table
          PROVE  deviceRows[t] \cap Simulated = {}
        <3>1. j.clean = TRUE
            BY <2>3, JobIs
        <3>2. PICK i \in 1..6 : Statements[i] = t /\ i < 7
            BY TablesAre
        <3> QED BY <2>1, <2>3, <3>1, <3>2 DEF JobKept, SimulationKept
    <2> QED BY <2>1, <2>2, <2>3
<1>4. ListedUnlessRaced
    <2> SUFFICES ASSUME \A c \in Caller : job[c].kind \in {"free", "simulated"},
                        NEW d \in deviceRows["Devices"]
                 PROVE  Number(d) \in ToSet(SNs_) \/ conn[d] = "list" \/ d \in raced
        BY DEF ListedUnlessRaced
    <2>1. \A c \in Caller : ~Creating(job[c], d)
        BY DEF Creating
    <2> QED BY <2>1 DEF StoreInv, AllListed
<1> QED BY <1>2, <1>3, <1>4

LEMMA StoreHolds ==
    DsSpec => [](ArraysAgree /\ SearchIsExact /\ DeletionIsComplete /\ ListedUnlessRaced)
<1>1. DsInit => StoreInv
    BY StoreBegins
<1>2. StoreInv /\ [DsNext]_dsVars => StoreInv'
    BY StoreGoesOn
<1>3. StoreInv => ArraysAgree /\ SearchIsExact /\ DeletionIsComplete /\ ListedUnlessRaced
    BY StoreAgrees
<1> QED BY <1>1, <1>2, <1>3, PTL DEF DsSpec

-----------------------------------------------------------------------------
(* The parts together. *)

(* What the gateway does is, for each part, a behaviour of that part.      *)
LEMMA PartsBehave ==
    GatewaySpec => /\ RecSpec /\ CatSpec /\ AuthSpec /\ VenueSpec
                   /\ OuiSpec /\ DashSpec /\ SigSpec /\ DsSpec
<1>1. GatewayInit => /\ RecInit /\ CatInit /\ AuthInit /\ VenueInit
                     /\ OuiInit /\ DashInit /\ SigInit /\ DsInit
  BY DEF GatewayInit
<1>2. [GatewayNext]_gatewayVars =>
        /\ [RecNext]_recVars /\ [CatNext]_catVars /\ [AuthNext]_authVars
        /\ [VenueNext]_venueVars /\ [OuiNext]_ouiVars /\ [DashNext]_dashVars
        /\ [SigNext]_sigVars /\ [DsNext]_dsVars
  BY DEF GatewayNext, gatewayVars
<1> QED
  BY <1>1, <1>2, PTL DEF GatewaySpec, RecSpec, CatSpec, AuthSpec, VenueSpec, OuiSpec,
     DashSpec, SigSpec, DsSpec

(* Files: for any number of downloads, crashes, vendors and models, the    *)
(* table of manufacturers comes from a whole file, a signature handed out  *)
(* is the vendor's own, and the platforms learnt are those on disk.        *)
THEOREM FilesAlwaysSurvive == GatewaySpec => []FilesSurvive
<1>1. GatewaySpec => [](TableIsComplete /\ InstalledSurvives)
  BY PartsBehave, OuiHolds, PTL
<1>2. GatewaySpec => []ToldIsOwn
  BY PartsBehave, SigHolds, PTL
<1>3. GatewaySpec => []PlatformsAreSaved
  BY PartsBehave, CatHolds, PTL
<1>4. TableIsComplete /\ InstalledSurvives /\ ToldIsOwn /\ PlatformsAreSaved => FilesSurvive
  BY DEF FilesSurvive
<1> QED
  BY <1>1, <1>2, <1>3, <1>4, PTL

(* Records: for any schedule, limits and numbers of rows, a request        *)
(* selects the rows it asks for, a client that reads page by page misses   *)
(* none, the archiver keeps none for too long, and every count of the      *)
(* dashboard adds up to the rows counted.                                  *)
THEOREM RecordsStayKept == GatewaySpec => []RecordsAreKept
<1>1. GatewaySpec => [](RequestsSelectTheirRows /\ PagingMissesNothing /\ ArchivedInTime)
  BY PartsBehave, RecordsHold, PTL
<1>2. GatewaySpec => []CountsAddUp
  BY PartsBehave, CountsHold, PTL
<1>3. RequestsSelectTheirRows /\ PagingMissesNothing /\ ArchivedInTime /\ CountsAddUp
        => RecordsAreKept
  BY DEF RecordsAreKept
<1> QED
  BY <1>1, <1>2, <1>3, PTL

(* Copies: for any devices, digits, tables and REST threads, the two       *)
(* arrays of SerialNumberCache are sorted and hold the same serial         *)
(* numbers, FindNumbers returns serial numbers that begin (or end) with    *)
(* what was typed, none twice, and all or as many as asked for, a deletion *)
(* that met no other write and no failure has left no row and no number,   *)
(* and every row of Devices is searchable unless a deletion raced with it. *)
THEOREM CopiesStayTrue == GatewaySpec => []CopiesAgree
<1>1. GatewaySpec => [](ArraysAgree /\ SearchIsExact /\ DeletionIsComplete /\ ListedUnlessRaced)
  BY PartsBehave, StoreHolds, PTL
<1>2. ArraysAgree /\ SearchIsExact /\ DeletionIsComplete /\ ListedUnlessRaced => CopiesAgree
  BY DEF CopiesAgree
<1> QED
  BY <1>1, <1>2, PTL

(* Answers: for any number of threads, credentials and keys, the dashboard *)
(* served is recent, a removed credential is forgotten, the configuration  *)
(* given fits the model, and the black list is what its table says.        *)
THEOREM AnswersStayCurrent == GatewaySpec => []AnswersAreCurrent
<1>1. GatewaySpec => []ServedIsRecent
  BY PartsBehave, DashHolds, PTL
<1>2. GatewaySpec => []RemovedIsForgotten
  BY PartsBehave, AuthHolds, PTL
<1>3. GatewaySpec => [](BlackListEnforced /\ ConfigurationFitsModel /\ PlatformsAreSaved)
  BY PartsBehave, CatHolds, PTL
<1>4. ServedIsRecent /\ RemovedIsForgotten /\ BlackListEnforced /\ ConfigurationFitsModel
        => AnswersAreCurrent
  BY DEF AnswersAreCurrent
<1> QED
  BY <1>1, <1>2, <1>3, <1>4, PTL

(* Steps: the archiver takes only old records, a creation overwrites       *)
(* nothing, no expired token is accepted, and a broadcast reaches only     *)
(* devices that were lately in the venue of its source.                    *)
THEOREM StepsStayAllowed == GatewaySpec => StepsAreAllowed
<1>1. GatewaySpec => ArchivesOnlyOld
  BY PartsBehave, RecHolds
<1>2. GatewaySpec => CreationNeverOverwrites
  BY PartsBehave, CatHolds
<1>3. GatewaySpec => AcceptedIsFresh
  BY PartsBehave, AuthHolds
<1>4. GatewaySpec => BroadcastIsRecent
  BY PartsBehave, VenueHolds
<1> QED
  BY <1>1, <1>2, <1>3, <1>4 DEF StepsAreAllowed
=============================================================================
