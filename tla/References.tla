----------------------------- MODULE References -----------------------------
(***************************************************************************)
(* One reference of one object, from the stanza that names another one to  *)
(* the finished declaration: the name is written by the entry of the       *)
(* custom map (CustomMaps), the stanzas that are named are placed in the   *)
(* declaration by the engine, before or after that, in the order of the    *)
(* configuration, and removeInvalidRefs takes out what leads nowhere.      *)
(*                                                                         *)
(* A path is the sequence of its segments: two for an object that stands   *)
(* in a partition, three for one in a folder of it, one for a word without *)
(* a slash.                                                                *)
(***************************************************************************)
EXTENDS Naturals, Sequences

CONSTANTS
    Rows,           \* the references of the custom maps
    Singles,        \* paths that a property of one value may name
    Words,          \* paths of one segment
    Lists,          \* sequences of paths that a property of many may name
    Homes,          \* <<tenant, application>> of the object that refers
    Defaults,       \* paths of objects every BIG-IP has
    IAppFolders,    \* folders whose name holds '.app'
    Stored,         \* the name a certificate's object gets from its file
    Bare            \* the name of a certificate without '.crt'

(* A path of names: of one to three segments.                              *)
IsPath(p) == p \in Seq(STRING) /\ Len(p) \in 1..3

ASSUME PathsAssumption ==
    /\ \A p \in Singles : IsPath(p)
    /\ \A p \in Words : IsPath(p) /\ Len(p) = 1
    /\ \A l \in Lists : \A j \in DOMAIN l : IsPath(l[j]) \/ l[j] = <<>>
    /\ \A h \in Homes : IsPath(h) /\ Len(h) = 2

(* Objects are referred to in these conventions; a word, and the objects   *)
(* an entry makes itself, only outside arrays; and names inside code are   *)
(* no properties.                                                          *)
ASSUME RowsAssumption ==
    \A r \in Rows :
        /\ r.at \in {"own", "list", "tail", "mixed", "inner"}
        /\ r.skips \subseteq {"none", "default"}
        /\ r.by \in {"use", "wrap", "bigip", "text", "bigipOrText", "trusted", "bare", "stored",
                     "serverCert", "clientCert", "irule", "code", "shared", "pool", "tls",
                     "persist", "inCommon", "domain", "generated"}
        /\ r.to = "object" =>
              r.by \notin {"trusted", "bare", "stored", "serverCert", "clientCert", "generated"}
        /\ r.by \in {"domain", "generated", "serverCert", "clientCert"} =>
              r.at \in {"own", "inner"}
        /\ r.by \in {"generated", "serverCert", "clientCert"} => r.skips = {}
        /\ r.by = "code" => r.at = "inner"

Common == "Common"
Shared == "Shared"
None == <<"none">>
Plain == <<>>                               \* an element that names nothing
DefaultCert == <<Common, "default.crt">>
TrustedBundle == <<Common, "ca-bundle.crt">>
BigipMonitor == <<Common, "bigip">>

LastOf(p) == p[Len(p)]
Renamed(p, name) == [p EXCEPT ![Len(p)] = name]

VARIABLES
    row,            \* the reference, one of Rows
    home,           \* where the object that refers stands
    values,         \* the paths its stanza names
    targets,        \* those of them that are stanzas of the configuration
    pending,        \* those of them that are still to be converted
    placed,         \* the objects: where they are, and what they are made from
    written,        \* the references as the custom map wrote them
    kept,           \* the places of those that removeInvalidRefs left
    cleaned         \* whether removeInvalidRefs is through

vars == <<row, home, values, targets, pending, placed, written, kept, cleaned>>
-----------------------------------------------------------------------------
(* What may be written.                                                    *)
Written(as, p) == [as |-> as, path |-> p]
Use(p) == Written("use", p)
Pointer(p) == Written("bigip", p)
Text(p) == Written("text", p)
Nothing == Written("nothing", None)

InShared(p) == <<p[1], Shared>> \o Tail(p)
-----------------------------------------------------------------------------
(* Slips one could make in the definitions below, for the mutation runs.   *)
RefWithoutShared(p) == IF p \in Defaults THEN Pointer(p) ELSE Use(p)

ClientCertRefWithExtension(p, h) ==
    IF Len(p) = 2 /\ p[1] = Common THEN Text(h \o <<LastOf(p)>>) ELSE Text(p)

StaysBehindPlain(w) == {j \in DOMAIN w : (\E i \in DOMAIN w : w[i].as # "use")}
-----------------------------------------------------------------------------
(* handleObjectRef (23-30).                                                *)
ObjectRef(p) == IF p \in Defaults THEN Pointer(p)
                ELSE IF Len(p) = 2 THEN Use(InShared(p)) ELSE Use(p)

(* handleSharedPath; a folder with '.app' in its name is that of an iApp.  *)
SharedPath(p) == IF Len(p) = 2 THEN InShared(p)
                 ELSE IF Len(p) = 3 /\ p[1] = Common /\ p[2] \in IAppFolders
                 THEN <<Common, Shared, p[3]>> ELSE p

(* A name inside iRule code: every '/Common' of the code is replaced.      *)
InCode(p) == IF Len(p) > 1 /\ p[1] = Common THEN <<Common, Shared>> \o Tail(p) ELSE p

(* iruleRef of the persistence profiles.                                   *)
IruleRef(p) == IF Len(p) > 1 /\ p[1] = Common /\ p[2] # Shared
               THEN <<Common, Shared, p[2]>> ELSE p

(* The pool of a virtual server, relative where it is taken for one of the *)
(* virtual server's own application.                                       *)
PoolRef(p, h) ==
    IF \/ h[2] = Shared /\ Len(p) = 2
       \/ Len(p) > 1 /\ SubSeq(p, 1, 2) = h
    THEN Text(<<LastOf(p)>>) ELSE Text(SharedPath(p))

(* The only TLS profile of a virtual server.                               *)
TlsRef(p) == LET q == SharedPath(p)
             IN  IF p \in Defaults THEN Pointer(p)
                 ELSE IF q[1] = Common THEN Text(q) ELSE Text(<<LastOf(q)>>)

(* The certificate of a server-ssl profile ...                             *)
ServerCertRef(p) == CASE p = None -> Nothing
                      [] p = DefaultCert -> Text(<<"certificate_default">>)
                      [] OTHER -> Text(<<Stored[LastOf(p)]>>)

BareName(p) == Bare[LastOf(p)]

(* ... and one of a client-ssl profile.                                    *)
ClientCertRef(p, h) ==
    IF LastOf(p) = "default.crt" THEN Text(<<"certificate_default">>)
    ELSE IF p \in Defaults THEN Text(p)
    ELSE IF Len(p) = 2 /\ p[1] = Common THEN Text(h \o <<BareName(p)>>)
    ELSE Text(Renamed(p, BareName(p)))

(* The publisher for the log of DoS protection: '/Common/' is put before   *)
(* names that do not hold 'Common', before paths too.                      *)
HoldsCommon(p) == \E i \in DOMAIN p : p[i] = Common

CommonRef(p) == IF HoldsCommon(p) THEN ObjectRef(p)
                ELSE IF Len(p) = 1 THEN ObjectRef(<<Common>> \o p)
                ELSE ObjectRef(<<Common, "">> \o p)

WrittenBy(by, p, h) ==
    CASE by = "use"        -> ObjectRef(p)
      [] by = "wrap"       -> Use(p)
      [] by = "bigip"      -> Pointer(p)
      [] by = "text"       -> Text(p)
      [] by = "bigipOrText" -> IF p = BigipMonitor THEN Pointer(p) ELSE Text(p)
      [] by = "trusted"    -> IF p = TrustedBundle THEN Text(<<"generic">>) ELSE Use(p)
      [] by = "bare"       -> Text(Renamed(p, BareName(p)))
      [] by = "stored"     -> Text(<<Stored[LastOf(p)]>>)
      [] by = "serverCert" -> ServerCertRef(p)
      [] by = "clientCert" -> ClientCertRef(p, h)
      [] by = "irule"      -> Text(IruleRef(p))
      [] by = "code"       -> Text(InCode(p))
      [] by = "shared"     -> Text(SharedPath(p))
      [] by = "pool"       -> PoolRef(p, h)
      [] by = "tls"        -> TlsRef(p)
      [] by = "persist"    -> IF p \in Defaults THEN Text(<<LastOf(p)>>) ELSE ObjectRef(p)
      [] by = "inCommon"   -> CommonRef(p)
      [] by = "domain"     -> ObjectRef(<<Common>> \o p)
      [] by = "generated"  -> Use(<<"autogen">>)

Skipped(r, p) == \/ "none" \in r.skips /\ p = None
                 \/ "default" \in r.skips /\ p \in Defaults

Reference(r, p, h) == IF p = Plain THEN Text(Plain)
                      ELSE IF Skipped(r, p) THEN Nothing
                      ELSE WrittenBy(r.by, p, h)

(* The objects an entry makes beside its own.                              *)
MadeBeside(by, p) ==
    CASE by = "generated" -> {"autogen"}
      [] by = "serverCert" /\ p = DefaultCert -> {"certificate_default"}
      [] by = "serverCert" /\ p # DefaultCert /\ Len(p) = 2 -> {BareName(p)}
      [] by = "clientCert" /\ LastOf(p) = "default.crt" -> {"certificate_default"}
      [] by = "clientCert" /\ LastOf(p) # "default.crt" /\ Len(p) = 2 /\ p \notin Defaults
            -> {BareName(p)}
      [] OTHER -> {}
-----------------------------------------------------------------------------
(* Where the engine places the object of a stanza (358-370, 461-465).      *)
Folder(p) == IF p[1] = Common \/ Len(p) = 2 THEN <<p[1], Shared>> ELSE <<p[1], p[2]>>

Placement(to, p) ==
    Folder(p) \o <<IF to = "cert" THEN Stored[LastOf(p)] ELSE LastOf(p)>>

(* Certificates that stand in the partition Common itself are left to the  *)
(* profiles that use them.                                                 *)
Convertible(to, p) ==
    /\ Len(p) > 1 /\ p \notin Defaults
    /\ \/ to = "object"
       \/ to = "cert" /\ ~ (p[1] = Common /\ Len(p) = 2)
-----------------------------------------------------------------------------
PlainBefore(l, j) == \A i \in 1..j : l[i] = Plain

(* What a stanza may name in the place of this reference.                  *)
ListsOf(at) ==
    CASE at = "list"  -> {l \in Lists : \A j \in DOMAIN l : l[j] # Plain}
      [] at = "tail"  -> {l \in Lists : \A j \in DOMAIN l : l[j] = Plain => PlainBefore(l, j)}
      [] at = "mixed" -> Lists

SinglesOf(by) == CASE by = "domain"   -> Words
                   [] by = "inCommon" -> Singles \cup Words
                   [] by = "tls"      -> Singles \ {None}
                   [] OTHER           -> Singles

Named(r) == IF r.at \in {"list", "tail", "mixed"} THEN ListsOf(r.at)
            ELSE {<<p>> : p \in SinglesOf(r.by)}

Init == /\ row \in Rows
        /\ home \in Homes
        /\ values \in Named(row)
        /\ targets \in SUBSET {j \in DOMAIN values : Convertible(row.to, values[j])}
        /\ pending = targets
        /\ placed = {}
        /\ written = <<>>
        /\ kept = {}
        /\ cleaned = FALSE

(* Object.assign: an object that has the name already is lost.             *)
Put(objects, places, source) ==
    {o \in objects : o.at \notin places} \cup {[at |-> x, from |-> source] : x \in places}

PlaceTarget(j) ==
    /\ j \in pending
    /\ pending' = pending \ {j}
    /\ placed' = Put(placed, {Placement(row.to, values[j])}, values[j])
    /\ UNCHANGED <<row, home, values, targets, written, kept, cleaned>>

ConvertReferrer ==
    /\ written = <<>>
    /\ written' = [j \in DOMAIN values |-> Reference(row, values[j], home)]
    /\ placed' = Put(placed, {home \o <<name>> : name \in MadeBeside(row.by, values[1])}, values[1])
    /\ UNCHANGED <<row, home, values, targets, pending, kept, cleaned>>
-----------------------------------------------------------------------------
(* getRefdObj: a word has the empty path, which leads to the declaration.  *)
Resolves(p) == CASE Len(p) = 1 -> TRUE
                 [] Len(p) = 2 -> p = home \/ \E o \in placed : SubSeq(o.at, 1, 2) = p
                 [] OTHER -> \E o \in placed : o.at = p

(* The elements behind the first one that is no reference are not visited. *)
Unvisited(w) == {j \in DOMAIN w : (\E i \in 1..j : w[i].as # "use")}

LookedAt(j) ==
    \/ row.at \in {"list", "tail", "mixed"} /\ j \notin Unvisited(written)
    \/ row.at = "own" /\ written[j].as = "use"
    \/ row.at = "own" /\ written[j].as = "text" /\ Len(written[j].path) = 3

Stays(j) == LookedAt(j) => Resolves(written[j].path)

Clean ==
    /\ written # <<>> /\ pending = {} /\ ~ cleaned
    /\ cleaned' = TRUE
    /\ kept' = {j \in DOMAIN written : written[j].as # "nothing" /\ Stays(j)}
    /\ UNCHANGED <<row, home, values, targets, pending, placed, written>>

Next == \/ \E j \in pending : PlaceTarget(j)
        \/ ConvertReferrer
        \/ Clean

Spec == Init /\ [][Next]_vars
-----------------------------------------------------------------------------
(* Where a reference leads in the declaration: words are looked up in the  *)
(* application of the object that refers.                                  *)
Target(w) == IF Len(w.path) = 1 THEN home \o w.path ELSE w.path

Leads(j) == \E o \in placed : o.at = Target(written[j])

InFolderOfCommon(p) == p[1] = Common /\ Len(p) = 3 /\ p[2] # Shared

(* The shapes of names that a convention does not carry over.              *)
Gap(by, p, h) ==
    \/ InFolderOfCommon(p)
    \/ by = "bigip"
    \/ by \in {"text", "wrap", "bigipOrText"} /\ Len(p) = 2
    \/ by \in {"irule", "code"} /\ Len(p) = 2 /\ p[1] # Common
    \/ by = "code" /\ Len(p) = 3 /\ p[1] = Common
    \/ by = "irule" /\ p = <<Common, Shared>>
    \/ by = "tls" /\ p[1] # Common /\ Folder(p) # h
    \/ by = "pool" /\ Len(p) = 2 /\ h[2] = Shared /\ h[1] # p[1]
    \/ by = "pool" /\ p = h /\ h[2] # Shared
    \/ by = "inCommon" /\ ~ HoldsCommon(p)

(* Whatever the order in which the objects are converted, a reference to a *)
(* stanza that becomes an object is kept and leads to that object's place, *)
(* but for the shapes listed as gaps: the folders of Common, which         *)
(* the engine flattens and handleObjectRef does not, the entries that copy *)
(* a name as it is or shorten it (service.js:247-252, 150-162,             *)
(* persist.js:22-28, gslb.js:176, security.js:610, and the iRules), a pool *)
(* with the name of the application of its virtual server, and an iRule    *)
(* called Shared.                                                          *)
ConvertedTargetsAreFound ==
    cleaned => \A j \in targets :
        row.to = "object" /\ ~ Gap(row.by, values[j], home) => j \in kept /\ Leads(j)

(* What is left of the references that lead nowhere is out of the reach of *)
(* removeInvalidRefs: below a property, behind an element of an array that *)
(* is no reference, a word, which resolves to the declaration, or a path   *)
(* of two segments, which is no string it looks at or leads to an          *)
(* application.                                                            *)
DanglingOnlyOutOfSight ==
    cleaned => \A j \in kept :
        written[j].as \in {"use", "text"} /\ ~ Leads(j) =>
            \/ row.at = "inner"
            \/ row.at # "own" /\ \E i \in 1..j : written[i].as # "use"
            \/ Len(written[j].path) < 3

(* The certificate that a TLS profile brings with it is the one the        *)
(* profile names (profile.js:733-761 and 813-841).  Not so for a           *)
(* server-ssl profile whose file has a '-' or a further '.' in its name,   *)
(* which loadCertsAndKeys changes in the reference alone; and not for the  *)
(* certificates of a client-ssl profile that stand in a partition other    *)
(* than Common, whose path is not rewritten.                               *)
OwnCertificatesAreFound ==
    cleaned => \A j \in DOMAIN values : MadeBeside(row.by, values[j]) # {} =>
        \/ j \in kept /\ Leads(j)
        \/ row.by = "serverCert" /\ Stored[LastOf(values[j])] # BareName(values[j])
        \/ row.by = "clientCert" /\ values[j][1] # Common
=============================================================================
