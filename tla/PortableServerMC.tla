--------------------------- MODULE PortableServerMC ---------------------------
(***************************************************************************)
(* Deployments for TLC: every small directory started once, some of them   *)
(* edited, and generated services registered at the same time.             *)
(***************************************************************************)
EXTENDS PortableServer

MCAlphabet    == <<".mockzilla", ".services", ".ui", "api", "docs", "openapi", "pets", "vendor">>
MCNames       == {MCAlphabet[i] : i \in DOMAIN MCAlphabet}
MCServices    == MCNames \cup {NoName}
MCNoise       == {"vendor"}
MCPages       == {".services"}
MCDirectories == {"one", "two"}

Memory == [type |-> "memory", opens |-> TRUE, installs |-> TRUE, strict |-> FALSE]

File(specs, config, index, meta, deep) ==
    [specs |-> specs, config |-> config, index |-> index, meta |-> meta, deep |-> deep]
Set(name, line, mount) == [name |-> name, line |-> line, mount |-> mount]
Plain  == Set(NoName, NoName, None)

Hollow == File({}, None, FALSE, FALSE, FALSE)
Static == File({}, None, FALSE, FALSE, TRUE)
Specs(S) == File(S, None, FALSE, FALSE, FALSE)

One(top, subs) == [base |-> "pets", wrapped |-> FALSE, top |-> top, subs |-> subs,
                   manifest |-> {}]
NoSubs == [s \in {} |-> Hollow]
Sub(s, f) == [x \in {s} |-> f]

Trees ==
    {[base |-> b, wrapped |-> w, top |-> File(S, c, i, m, FALSE), subs |-> f,
      manifest |-> {}] :
        b \in {NoName, "pets"}, w \in BOOLEAN, S \in SUBSET {"openapi", "pets"},
        c \in {None, Plain, Set("api", "api", None), Set(NoName, "api", None),
               Set("pets", "pets", NoName)},
        i \in BOOLEAN, m \in BOOLEAN,
        f \in {NoSubs, Sub("api", Static), Sub("api", Hollow), Sub("vendor", Static),
               [x \in {"api", "vendor"} |-> Specs({"openapi"})]}}

Dir(t)   == [at |-> "one", tree |-> t, bare |-> None, clean |-> TRUE]
Slash(t) == [at |-> "one", tree |-> t, bare |-> None, clean |-> FALSE]
Other(t) == [at |-> "two", tree |-> t, bare |-> None, clean |-> TRUE]
In(t, s) == [at |-> "one", tree |-> t, bare |-> s, clean |-> TRUE]

Serve(as, mount, n) ==
    [args |-> as, flag |-> mount, confs |-> <<>>, limit |-> 1, storage |-> Memory, ui |-> TRUE,
     edits |-> n]

\* Every small directory, and what is unpacked from a package of some of them.
Unpacked == {Packed(t) : t \in {u \in Trees : u.base = "pets" /\ u.top.config = None
                                             /\ Discover(u) # {}}}

Started == {Serve(<<Dir(t)>>, None, 0) : t \in {u \in Trees \cup Unpacked : Resolve(u) # {}}}

Pets   == One(Specs({"pets"}), NoSubs)
Merged == One(File({"openapi"}, Plain, TRUE, TRUE, TRUE), NoSubs)
Nested == One(File({}, Plain, TRUE, FALSE, FALSE), Sub("api", File({}, None, FALSE, TRUE, TRUE)))
Flat   == One(Specs({"openapi", "pets"}), NoSubs)
Root2  == One(Hollow, [x \in {"api", "pets"} |->
                         IF x = "api" THEN Specs({"openapi"})
                         ELSE File({}, None, TRUE, FALSE, FALSE)])

Unnamed == [base |-> NoName, wrapped |-> FALSE, top |-> Specs({"openapi"}), subs |-> NoSubs,
            manifest |-> {}]
DocsApi == One(Specs({"docs"}), NoSubs)
Hidden  == One(File({"pets"}, Set(NoName, NoName, ".ui"), FALSE, FALSE, FALSE), NoSubs)
Plainly == One(Specs({"openapi"}), NoSubs)
Moved  == One(File({"pets"}, Set(NoName, NoName, "api"), FALSE, FALSE, FALSE), NoSubs)

Edited ==
    {Serve(<<Dir(t)>>, None, 3) : t \in {Pets, Nested, Flat, Root2}}
    \cup {Serve(<<Dir(Merged)>>, None, 2)}
    \cup {Serve(<<Dir(Pets)>>, m, 2) : m \in {Root, "api"}}
    \cup {Serve(<<In(Flat, "openapi"), In(Flat, "pets")>>, None, 3),
          Serve(<<In(Flat, "openapi"), Dir(Flat)>>, None, 2),
          Serve(<<In(Merged, "openapi"), Dir(Merged)>>, None, 2),
          Serve(<<Dir(Root2), Other(Pets)>>, None, 2),
          Serve(<<Dir(Moved), Other(Pets)>>, None, 2),
          Serve(<<Dir(Pets), Other(Unnamed)>>, None, 2),
          Serve(<<Slash(Plainly)>>, None, 2),
          Serve(<<Slash(Flat)>>, None, 2),
          Serve(<<Dir(Packed(Flat))>>, None, 2),
          Serve(<<Dir(Packed(Root2))>>, None, 2)}

\* Services on the paths of the server's own pages, which are there or not.
Claiming ==
    {[Serve(as, None, 0) EXCEPT !.ui = u] :
        u \in BOOLEAN,
        as \in {<<Dir(DocsApi)>>, <<Dir(Hidden)>>, <<Dir(DocsApi), Other(Unnamed)>>,
                <<Dir(Hidden), Other(Unnamed)>>, <<Dir(Unnamed)>>}}

Claims == {[name |-> n, path |-> p, slash |-> s] :
              n \in {"api", "openapi", "pets"}, p \in {"api", "docs", "pets", NoName},
              s \in BOOLEAN}

Generated ==
    {[args |-> <<>>, flag |-> None, confs |-> <<a, b, c>>, limit |-> l, storage |-> Memory,
      ui |-> TRUE, edits |-> 0] :
        a \in {x \in Claims \cap Conf : x.name = "api"},
        b \in {x \in Claims \cap Conf : x.name = "openapi"},
        c \in {x \in Claims \cap Conf : x.name = "pets" /\ ~x.slash}, l \in {1, 2}}

Stored ==
    {[args |-> <<>>, flag |-> None, confs |-> <<>>, limit |-> 2, storage |-> s,
      ui |-> FALSE, edits |-> 0] :
        s \in Storages}

MCDeployments == Started \cup Edited \cup Claiming \cup Generated \cup Stored
=============================================================================
