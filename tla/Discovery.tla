------------------------------ MODULE Discovery ------------------------------
(***************************************************************************)
(* How a directory becomes a list of services: at run time (resolveDir and *)
(* resolveServiceDir, internal/portable/resolve.go) and when it is packed  *)
(* (Discover, pkg/pack/discover.go) and the package is run by its manifest *)
(* (resolveFromManifest).                                                  *)
(*                                                                         *)
(* A file is its stem, a folder what these functions look for in it, a     *)
(* tree a top folder with its subfolders; `wrapped' says that the          *)
(* subfolders are in services/.  A service is its name, the folder it is   *)
(* read from, its spec file and whether static files are merged into it.   *)
(* Services are found as a set: they are listed in the order of their      *)
(* folders or, in one folder, of their spec files, whoever lists them.     *)
(***************************************************************************)
EXTENDS Naturals, Sequences, FiniteSets

CONSTANTS
    Alphabet,  \* every stem and folder name, in the order ReadDir lists them
    Generic,   \* the stem that names no service, "openapi"
    Noise,     \* folder names ShouldSkipDir passes over
    NoName,    \* the empty name: the service is mounted at /
    Top,       \* the directory itself, as a place; subfolders go by their name
    None,      \* no config.yml, no spec file, no mount override
    Manifest   \* the stem of the manifest's file, ".mockzilla"

Names == {Alphabet[i] : i \in DOMAIN Alphabet}

Config == [name  : Names \cup {NoName},  \* the top-level name: field, parsed
           line  : Names \cup {NoName},  \* the first line that reads name:
           mount : Names \cup {NoName, None}]

Folder == [specs  : SUBSET Names,        \* top-level spec files
           config : Config \cup {None},  \* config.yml
           index  : BOOLEAN,             \* an index.<ext> at its top
           meta   : BOOLEAN,             \* a meta.json at its top
           deep   : BOOLEAN]             \* either one, further down

\* What a manifest says of a service.
Entries == [name : Names \cup {NoName}, dir : Names \cup {Top}, spec : Names \cup {None},
            mode : {"spec", "static", "merge"}]

ASSUME DiscoveryAssumption ==
    /\ Alphabet \in Seq(Names)
    /\ Manifest \in Names
    /\ NoName \notin Names /\ Top \notin Names /\ None \notin Names
    /\ None # NoName

\* os.ReadDir's order, which sort.Strings agrees with.
Rank(x) == CHOOSE i \in DOMAIN Alphabet : Alphabet[i] = x

FirstOf(S) ==
    IF S = {} THEN None ELSE CHOOSE x \in S : \A y \in S : Rank(x) <= Rank(y)

\* HasStaticEndpoints.
HasStatic(f) == f.index \/ f.meta \/ f.deep

\* What resolveServiceDir and serviceEntryFromDir ask of a folder.
Usable(f) == f.specs # {} \/ HasStatic(f)

\* Subfolders that are not noise.
Visible(t) == DOMAIN t.subs \ Noise

\* LoadManifestFromDir finds one.
HasManifest(t) == Manifest \in t.top.specs

\* A manifest as the packer writes it, the files it lists still there: one
\* service, one for each spec file at the top, or one for each of some folders.
IsManifest(t) ==
    /\ t.manifest \subseteq Entries
    /\ \A e \in t.manifest :
          /\ e.dir \in {Top} \cup Visible(t)
          /\ e.spec # None =>
                e.spec \in (IF e.dir = Top THEN t.top ELSE t.subs[e.dir]).specs
    /\ \/ \E e \in Entries : t.manifest \subseteq {e}
       \/ \A e \in t.manifest :
             e.dir = Top /\ e.mode = "spec" /\ e.spec # None /\ e.name = e.spec
       \/ \A e, g \in t.manifest : e.dir # Top /\ (e.dir = g.dir => e = g)

\* The manifest's file has a spec's extension and no reserved name, so FindSpecs
\* lists it with the spec files.
IsTree(t) ==
    /\ t \in [base : Names \cup {NoName}, wrapped : BOOLEAN, top : Folder, subs : {t.subs},
              manifest : {t.manifest}]
    /\ DOMAIN t.subs \subseteq Names
    /\ \A s \in DOMAIN t.subs : t.subs[s] \in Folder
    /\ IsManifest(t) /\ (t.manifest # {} => HasManifest(t))

\* The directory as one folder: the walk for static files goes into its subfolders.
Whole(t) == [t.top EXCEPT !.deep = @ \/ \E s \in Visible(t) : HasStatic(t.subs[s])]

FolderAt(t, d) == IF d = Top THEN Whole(t) ELSE t.subs[d]

\* isImplicitServicesRoot: no file at the top marks the directory as a
\* service, and some subfolder could be one.
ImplicitRoot(t, rootFile) ==
    /\ t.top.config = None /\ t.top.specs = {} /\ ~rootFile
    /\ Visible(t) # {}

\* "This folder IS one service."
Single(t) ==
    \/ t.top.config # None
    \/ HasStatic(Whole(t))
    \/ \E s \in Names : t.top.specs = {s}

\* inferServiceName, given what was read from config.yml.
InferName(t, configured) ==
    IF t.top.config # None /\ configured # NoName THEN configured
    ELSE LET own == FirstOf(t.top.specs \ {Generic})
         IN  IF own # None THEN own ELSE t.base

-----------------------------------------------------------------------------
(* At run time                                                             *)

\* resolveServiceDir.
FolderService(t, d, name) ==
    [name |-> name, dir |-> d, spec |-> FirstOf(FolderAt(t, d).specs),
     static |-> HasStatic(FolderAt(t, d)), configured |-> TRUE]

SpecService(d, spec, name) ==
    [name |-> name, dir |-> d, spec |-> spec, static |-> FALSE, configured |-> TRUE]

\* resolveOne of a spec file: the service has no folder.
BareService(d, spec) ==
    [name |-> spec, dir |-> d, spec |-> spec, static |-> FALSE, configured |-> FALSE]

\* resolveServicesRoot: a folder that is no service is skipped.
ResolveRoot(t) == {FolderService(t, s, s) : s \in {v \in Visible(t) : Usable(t.subs[v])}}

\* The flat root: one service for each spec file.
FlatRoot(t) == {SpecService(Top, spec, spec) : spec \in t.top.specs}

\* The parsed name: in config.yml.
ParsedName(t) == IF t.top.config = None THEN NoName ELSE t.top.config.name

\* serviceFromManifestEntry: static files are scanned again, a plain spec is
\* taken at its word.
FromEntry(t, e) ==
    IF e.mode = "spec" /\ e.spec # None THEN SpecService(e.dir, e.spec, e.name)
    ELSE FolderService(t, e.dir, e.name)

\* resolveFromManifest: an entry whose folder is no service is skipped.
FromManifest(t) ==
    {FromEntry(t, e) : e \in {x \in t.manifest : \/ x.mode = "spec" /\ x.spec # None
                                                 \/ Usable(FolderAt(t, x.dir))}}

\* resolveDir; an empty result is an error there or in resolveServices.
Resolve(t) ==
    IF HasManifest(t) THEN FromManifest(t)
    ELSE IF t.wrapped \/ ImplicitRoot(t, t.top.index \/ t.top.meta) THEN ResolveRoot(t)
    ELSE IF ~Single(t) THEN FlatRoot(t)
    ELSE IF Usable(Whole(t)) THEN {FolderService(t, Top, InferName(t, ParsedName(t)))}
    ELSE {}

-----------------------------------------------------------------------------
(* Packed                                                                  *)

\* serviceEntryFromDir.
Entry(t, d, name) ==
    LET f == FolderAt(t, d)
    IN  [name |-> name, dir |-> d, spec |-> FirstOf(f.specs),
         mode |-> IF ~HasStatic(f) THEN "spec" ELSE IF f.specs = {} THEN "static" ELSE "merge"]

\* Mutant: only folders with a spec file are packed.
DiscoverRoot_SpecsOnly(t) ==
    {Entry(t, s, s) : s \in {v \in Visible(t) : t.subs[v].specs # {}}}

\* discoverServicesRoot: a folder that is no service fails the whole packing.
DiscoverRoot(t) ==
    IF \A s \in Visible(t) : Usable(t.subs[s]) THEN {Entry(t, s, s) : s \in Visible(t)}
    ELSE {}

DiscoverFlat(t) ==
    {[name |-> spec, dir |-> Top, spec |-> spec, mode |-> "spec"] : spec \in t.top.specs}

\* readConfigName: the first line that starts with name:, at any depth.
ReadName(t) == IF t.top.config = None THEN NoName ELSE t.top.config.line

\* Discover; an empty result is an error.
Discover(t) ==
    IF t.wrapped \/ ImplicitRoot(t, t.top.index) THEN DiscoverRoot(t)
    ELSE IF ~Single(t) THEN DiscoverFlat(t)
    ELSE IF Usable(Whole(t)) THEN {Entry(t, Top, InferName(t, ReadName(t)))}
    ELSE {}

\* writeArchive and walkAndPack: the manifest, in front of the tree without its
\* noise folders.
Packed(t) == [t EXCEPT !.subs = [s \in Visible(t) |-> t.subs[s]],
                       !.manifest = Discover(t),
                       !.top.specs = @ \cup {Manifest}]

\* Trees on which the packer reads config.yml and a lone meta.json as the
\* runtime does: the name: line it finds is the top-level field, and a root
\* meta.json is not all that tells a service from a folder of services.
ReadAlike(t) ==
    /\ ReadName(t) = ParsedName(t)
    /\ t.top.meta => t.wrapped \/ ~ImplicitRoot(t, t.top.index)

\* A service as its package has it.  Static files at the top are merged into
\* the first spec file there, and that may now be the manifest (resolve.go 319).
AsPacked(t, svc) ==
    IF svc.dir = Top /\ svc.static THEN [svc EXCEPT !.spec = FirstOf(t.top.specs \cup {Manifest})]
    ELSE svc

\* A package that can be made runs the services its directory runs, under the
\* same names, from the same folders, specs and static files (discover.go
\* 26-27: "Mirrors internal/portable's runtime discovery so a packed archive
\* yields the same service set as a raw directory invocation"), but for what
\* the static files at its top are merged into.  Of a directory that is itself
\* an unpacked package nothing is said.
MirrorsRaw(t) ==
    ~HasManifest(t) /\ ReadAlike(t) /\ Discover(t) # {} =>
        Resolve(Packed(t)) = {AsPacked(t, svc) : svc \in Resolve(t)}
=============================================================================
