-------------------------- MODULE MC_ConfigMerge --------------------------
(* Eight compose files over the services web and db, in directories a   *)
(* and b: v1 and v2 builds as strings and maps, a service with both image *)
(* and build, env files with a key that is a prefix of another (X and     *)
(* XY), a missing env file, an external service and an alias, a load      *)
(* balancer, a storage driver, a network driver, a virtual machine that an *)
(* external service of the same name replaces, containers in a v1 and a   *)
(* v2 file, and repeated list fields.                                      *)
EXTENDS ConfigMerge

CONSTANTS web, db, p80, fa, fb, fc, fm

MC_Names == {web, db}
MC_Images == {"nginx", "rancher/lb-service", "rancher/dns-service", "rancher/external-service"}
MC_KeyPrefix == {<<"X", "X">>, <<"XY", "XY">>, <<"X", "XY">>}

E(k, v) == [key |-> k, eq |-> TRUE, val |-> v]
K(k) == [key |-> k, eq |-> FALSE, val |-> None]
Comment == [key |-> "#", eq |-> FALSE, val |-> None]
B(form, rel) == [form |-> form, ctx |-> [dir |-> "", rel |-> rel]]

MC_EnvContent == [f \in {fa, fb, fc, fm} |->
    CASE f = fa -> <<E("X", "1"), Comment>>
      [] f = fb -> <<E("X", "2"), E("XY", "3")>>
      [] f = fc -> <<K("X")>>
      [] OTHER  -> <<>>]

NoKind == [n \in MC_Names |-> NoSvc]
Doc(ver, dir, svcs) ==
    [version |-> ver, dir |-> dir, services |-> svcs, loadBalancers |-> NoKind,
     storageDrivers |-> NoKind, networkDrivers |-> NoKind, virtualMachines |-> NoKind,
     containers |-> NoKind,
     external |-> NoKind, aliases |-> [n \in MC_Names |-> <<>>]]
Two(w, d) == [n \in MC_Names |-> IF n = web THEN w ELSE d]

D1 == Doc("2", "a", Two([Blank EXCEPT !.image = "nginx", !.links = <<db>>, !.ports = <<p80>>,
                                      !.environment = <<E("X", "1")>>, !.restart = "false"],
                        [Blank EXCEPT !.build = B("map", ".")]))
D2 == Doc("2", "b", Two([Blank EXCEPT !.build = B("string", "."), !.env_file = <<fa, fb>>,
                                      !.environment = <<E("XY", "1")>>],
                        NoSvc))
\* A v1 file: its container (with an unreadable env file) is dropped.
D3 == [Doc("1", "a", Two([Blank EXCEPT !.build = B("string", "sub"), !.links = <<db>>],
                         [Blank EXCEPT !.image = "nginx", !.ports = <<p80>>]))
       EXCEPT !.containers = Two(NoSvc, [Blank EXCEPT !.env_file = <<fm>>])]
D4 == [Doc("2", "a", Two([Blank EXCEPT !.env_file = <<fm>>], NoSvc))
       EXCEPT !.storageDrivers = Two(NoSvc, [Blank EXCEPT !.image = "nginx"])]
D5 == [Doc("2", "b", Two(NoSvc, NoSvc)) EXCEPT
          !.virtualMachines = Two([Blank EXCEPT !.image = "nginx"], NoSvc),
          !.external = Two([Blank EXCEPT !.ports = <<p80>>], NoSvc),
          !.aliases = Two(<<>>, <<web>>)]
D6 == [Doc("2", "a", Two([Blank EXCEPT !.image = "nginx", !.environment = <<E("XY", "1")>>,
                                       !.env_file = <<fc>>],
                         [Blank EXCEPT !.build = B("map", "remote")]))
       EXCEPT !.loadBalancers = Two(NoSvc, [Blank EXCEPT !.image = "rancher/lb-service",
                                                          !.ports = <<p80>>])]

\* A v2 service naming the image its build produces, and a network driver
\* built from a remote (git) context.
D7 == [Doc("2", "b", Two([Blank EXCEPT !.image = "nginx", !.build = B("map", "sub")], NoSvc))
       EXCEPT !.networkDrivers = Two(NoSvc, [Blank EXCEPT !.build = B("map", "remote")])]
\* D1 with a container whose env file cannot be read: the file fails.
D8 == [D1 EXCEPT !.containers = Two(NoSvc, [Blank EXCEPT !.env_file = <<fm>>])]
MC_Docs == {D1, D2, D3, D4, D5, D6, D7, D8}
-----------------------------------------------------------------------------
(* The preprocessor Merge runs on each file's services (merge.go 65-66),   *)
(* over the YAML values of depth up to 2: null, a bool, an int and strings *)
(* that strconv.Atoi accepts with and without leading zeros and sign, or   *)
(* rejects, in sequences of up to two and maps with one key.  health_check *)
(* stands for the Rancher fields; image for every other field.            *)
MC_Atoi == ("80" :> 80) @@ ("007" :> 7) @@ ("-1" :> -1)
PP == INSTANCE Preprocess WITH RancherFields <- {"health_check"}, Atoi <- MC_Atoi
PPLeaves == {PP!Null, PP!YBool(TRUE), PP!YInt(80)}
            \cup {PP!YStr(s) : s \in DOMAIN MC_Atoi \cup {"x"}}

\* The walk of preProcessServiceMap over every such tree, compared with
\* spec section 4.4 (a constant, so TLC evaluates it once).
PPConforms ==
    PP!PreprocessAsSpecified({"environment", "health_check", "image"},
                             PP!Trees(2, PPLeaves, {"a"}, 2))

\* Spec section 4.4: every file Merge has loaded went through
\* preProcessServiceMap (merge.go 65), which stringifies the scalars of
\* environment and labels, turns the integer strings of the Rancher fields
\* into integers, keeps nil and the shape of every tree, and changes
\* nothing else.
PreprocessAsSpecified == loads > 0 => PPConforms

-----------------------------------------------------------------------------
(* The lookup chain the compose file is resolved with (spec 4.1): every    *)
(* chain of up to two common lookups, with or without a parent, and of     *)
(* three without, over the variable maps on the keys X and XY.            *)
LK == INSTANCE Lookup WITH Keys <- EnvKeys, OsEnv <- [k \in {} |-> ""], EnvFile <- <<>>,
          FileStatus <- "absent", CatalogDoc <- [none |-> TRUE], Input <- <<>>,
          FinalNewline <- TRUE, phase <- "built", pending <- {},
          answers <- [k \in {} |-> ""], stdin <- <<>>
LKVars == UNION {[D -> {"1", "2"}] : D \in SUBSET EnvKeys}
LKRoots == {[own |-> o, parent |-> LK!NoParent] : o \in LKVars}
LKLookups == LKRoots \cup {[own |-> o, parent |-> p] : o \in LKVars, p \in LKVars}
LKChains == {<<>>} \cup {<<a>> : a \in LKLookups} \cup {<<a, b>> : a, b \in LKLookups}
            \cup {<<a, b, c>> : a, b, c \in LKRoots}

\* The agreement of resolve and allVariables over all those chains (a
\* constant, evaluated once).
LKConforms == \A ls \in LKChains : LK!ResolveAgreesWithVariables(ls, EnvKeys)

\* Spec 4.1: whenever a file has been loaded, the lookup chain that
\* resolved it answers a key through ComposableEnvLookup.Lookup with the
\* value ComposableEnvLookup.Variables gives it, a later lookup winning in
\* both.
LookupContract == loads > 0 => LKConforms

=============================================================================
