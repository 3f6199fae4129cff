---------------------------- MODULE ConfigMerge ----------------------------
(***************************************************************************)
(* Loading compose files into the service map (src/parser/merge.go,        *)
(* merge_v1.go, merge_v2.go, raw.go).                                      *)
(*                                                                         *)
(* The caller hands each file to Merge together with the services loaded   *)
(* so far.  Merge folds the other kinds of the file into its service map   *)
(* (createRawConfig), runs readEnvFile and the build-context resolution of *)
(* the file's version on every service, merges each service that already  *)
(* exists with mergeConfig and rewrites restart: false.  A service is a    *)
(* record of the fields whose handling differs: image and build (mutually  *)
(* exclusive in a merge), the list fields links and ports, environment (a  *)
(* list of KEY[=VALUE] entries), env_file and restart.  Template,          *)
(* interpolation, preprocessing and YAML are not modelled (README).        *)
(***************************************************************************)
EXTENDS Naturals, Sequences, SequencesExt

CONSTANTS
    Names,       \* service names
    Images,      \* image names of the files (strings)
    Ports,       \* port entries (model values)
    Dirs,        \* directories of the files (strings, not "")
    EnvKeys,     \* environment variable names (strings, not "" or "#")
    KeyPrefix,   \* <<a, b>> \in KeyPrefix iff name a is a prefix of name b
    Vals,        \* environment values (strings)
    EnvFiles,    \* env_file paths (model values)
    EnvContent,  \* EnvContent[f]: the lines of env file f
    Readable,    \* env files the resource lookup finds
    Docs,        \* the compose files the caller may load
    MaxLoads     \* bound on the number of files loaded

None == "none"
NoBuild == [form |-> "none", ctx |-> [dir |-> "", rel |-> ""]]
\* A context as written, or resolved against a directory.
RawContexts == {"", ".", "sub", "remote"}
Contexts == [dir: {""}, rel: RawContexts] \cup [dir: Dirs, rel: {"", "sub"}]
Builds == {NoBuild} \cup [form: {"string", "map"}, ctx: Contexts]
\* An environment entry KEY=VAL (eq) or KEY; key "#" is a comment line and
\* "" an empty line of an env file.
Entry == [key: EnvKeys \cup {"", "#"}, eq: BOOLEAN, val: Vals \cup {None}]
NoEntry == [key |-> "", eq |-> FALSE, val |-> None]
Raw == [image: Images \cup {None}, build: Builds, links: Seq(Names),
        ports: Seq(Ports), environment: Seq(Entry), env_file: Seq(EnvFiles),
        restart: {None, "false", "no", "always"}]
NoSvc == [nosvc |-> TRUE]
ListFields == {"links", "ports", "environment", "env_file"}
Fields == {"image", "build", "restart"} \cup ListFields

VARIABLES
    services,    \* the caller's service map after the files loaded so far
    prev,        \* the map before the last Merge (history)
    lastDoc,     \* the file of the last Merge (history)
    lastResult,  \* "none", "ok" or "err"
    loads

vars == <<services, prev, lastDoc, lastResult, loads>>

TypeOK ==
    /\ services \in [Names -> Raw \cup {NoSvc}]
    /\ prev \in [Names -> Raw \cup {NoSvc}]
    /\ lastDoc \in Docs \cup {NoSvc}
    /\ lastResult \in {"none", "ok", "err"}
    /\ loads \in 0..MaxLoads

Present(r, f) ==
    CASE f \in ListFields -> r[f] # <<>>
      [] f = "build"      -> r.build.form # "none"
      [] OTHER            -> r[f] # None

-----------------------------------------------------------------------------
(* createRawConfig, raw.go 57-87: the other kinds are written into the     *)
(* service map by name, one loop after the other (load balancers, storage  *)
(* drivers, network drivers, virtual machines, external services,         *)
(* aliases), so a later kind replaces an earlier entry of the same name.   *)
(* A file is a record of maps from names to services (NoSvc where the kind *)
(* has no entry of that name); aliases map a name to the services list of  *)
(* its block (<<>>: no block with a services field, which the loop skips). *)
(* transferFields only adds lb_config, storage_driver or network_driver,  *)
(* which no field of the model holds, so a block of those kinds is copied *)
(* as it is.                                                               *)
Blank == [image |-> None, build |-> NoBuild, links |-> <<>>, ports |-> <<>>,
          environment |-> <<>>, env_file |-> <<>>, restart |-> None]

FoldKinds(doc) ==
    [n \in Names |->
        CASE doc.aliases[n] # <<>> ->
               [Blank EXCEPT !.image = "rancher/dns-service", !.links = doc.aliases[n]]
          [] doc.external[n] # NoSvc ->
               [doc.external[n] EXCEPT !.image = "rancher/external-service"]
          [] doc.virtualMachines[n] # NoSvc -> doc.virtualMachines[n]
          [] doc.networkDrivers[n] # NoSvc -> doc.networkDrivers[n]
          [] doc.storageDrivers[n] # NoSvc -> doc.storageDrivers[n]
          [] doc.loadBalancers[n] # NoSvc -> doc.loadBalancers[n]
          [] OTHER -> doc.services[n]]

(* readEnvFile, merge.go 175-244.  The env files are read last first; a    *)
(* line is skipped when a variable already collected starts with its key,  *)
(* the line up to and including the first "=" (the whole line when it has  *)
(* no "=").                                                                *)
HasPrefix(v, line) ==
    IF line.eq THEN v.key = line.key /\ v.eq
    ELSE <<line.key, v.key>> \in KeyPrefix

AddLine(env, line) ==
    IF line.key \in {"", "#"} \/ \E i \in 1..Len(env) : HasPrefix(env[i], line)
    THEN env ELSE Append(env, line)

AddFile(env, f) == FoldLeft(AddLine, env, EnvContent[f])

ReadEnvFile(svc) ==
    IF svc.env_file = <<>> THEN [ok |-> TRUE, svc |-> svc]
    ELSE IF \E i \in 1..Len(svc.env_file) : svc.env_file[i] \notin Readable
    THEN [ok |-> FALSE, svc |-> svc]
    ELSE [ok |-> TRUE,
          svc |-> [svc EXCEPT !.environment = FoldLeft(AddFile, @, Reverse(svc.env_file)),
                              !.env_file = <<>>]]

\* path.Join(path.Dir(inFile), context): "." is the directory itself.
Join(dir, c) == [dir |-> dir, rel |-> IF c = "." THEN "" ELSE c]

\* resolveContextV1, merge_v1.go 45-66: build is the context string.
ResolveContextV1(dir, svc) ==
    IF ~Present(svc, "build") \/ svc.build.ctx.rel \in {"", "remote"}
    THEN svc
    ELSE [svc EXCEPT !.build.ctx = Join(dir, @.rel)]

\* Mutant: the IsValidRemote early return is dropped, so a git URL or an
\* http URL context is joined to the file's directory like a path.
ResolveContextV2NoRemote(dir, svc) ==
    IF ~Present(svc, "build") \/ svc.build.ctx.rel = ""
    THEN svc
    ELSE IF svc.build.form = "string" THEN svc
    ELSE [svc EXCEPT !.build.ctx = Join(dir, @.rel)]

\* resolveContextV2, merge_v2.go 112-145: a string build is copied into a
\* new map whose context is resolved; only a map build is changed in place.
ResolveContextV2(dir, svc) ==
    IF ~Present(svc, "build") \/ svc.build.ctx.rel \in {"", "remote"}
    THEN svc
    ELSE IF svc.build.form = "string" THEN svc
    ELSE [svc EXCEPT !.build.ctx = Join(dir, @.rel)]

\* convertServices (not in the sources): the v1 build string becomes the
\* context of a v2 build.
ConvertV1(svc) ==
    IF Present(svc, "build") THEN [svc EXCEPT !.build.form = "map"] ELSE svc

\* parseV1, merge_v1.go 36-43, and parseV2, merge_v2.go 36-43.
ParseV1(dir, svc) ==
    LET r == ReadEnvFile(svc)
    IN IF ~r.ok THEN r ELSE [r EXCEPT !.svc = ResolveContextV1(dir, @)]
ParseV2(dir, svc) ==
    LET r == ReadEnvFile(svc)
    IN IF ~r.ok THEN r ELSE [r EXCEPT !.svc = ResolveContextV2(dir, @)]

\* mergeServicesV1 and mergeServicesV2, merge_v1.go and merge_v2.go 14-34:
\* every raw service parsed; an error of any (the first in map order)
\* is returned.
AllParsed(rs) == [ok |-> \A n \in DOMAIN rs : rs[n].ok, svcs |-> [n \in DOMAIN rs |-> rs[n].svc]]
MergeServicesV1(dir, raws) == AllParsed([n \in DOMAIN raws |-> ParseV1(dir, raws[n])])
MergeServicesV2(dir, raws) == AllParsed([n \in DOMAIN raws |-> ParseV2(dir, raws[n])])

\* merge (not in the sources): lists are concatenated, scalars replaced.
MergeValue(f, old, new) == IF f \in ListFields THEN old \o new ELSE new

\* The fields of image and build that mergeConfig deletes: setting one
\* deletes the other, so of two set in svc the one the range meets first
\* is deleted again when it meets the second.
Absent(f) == IF f = "build" THEN NoBuild ELSE None
Cleared(svc, imageFirst) ==
    LET set == {f \in {"image", "build"} : Present(svc, f)}
    IN IF set = {"image", "build"} THEN {IF imageFirst THEN "image" ELSE "build"}
       ELSE IF set = {} THEN {} ELSE {"image", "build"} \ set

\* Mutant: mergeConfig without the image/build exclusion.
MergeConfigNoExclusion(base, svc, imageFirst) ==
    [f \in Fields |->
        IF ~Present(svc, f) THEN base[f]
        ELSE IF Present(base, f) THEN MergeValue(f, base[f], svc[f]) ELSE svc[f]]

\* Mutant: merge(v, existing) instead of merge(existing, v).
MergeConfigSwapped(base, svc, imageFirst) ==
    LET gone == Cleared(svc, imageFirst)
    IN [f \in Fields |->
          IF f \in gone THEN Absent(f)
          ELSE IF ~Present(svc, f) THEN base[f]
          ELSE IF Present(base, f) THEN MergeValue(f, svc[f], base[f]) ELSE svc[f]]

\* mergeConfig, merge.go 246-263, ranging over the fields of svc with image
\* before build when imageFirst: each field of svc is merged into the base.
MergeConfig(base, svc, imageFirst) ==
    LET gone == Cleared(svc, imageFirst)
    IN [f \in Fields |->
          IF f \in gone THEN Absent(f)
          ELSE IF ~Present(svc, f) THEN base[f]
          ELSE IF Present(base, f) THEN MergeValue(f, base[f], svc[f]) ELSE svc[f]]

\* adjustValues, merge.go 166-173.
Adjust(svc) == IF svc.restart = "false" THEN [svc EXCEPT !.restart = "no"] ELSE svc

\* Merge, merge.go 28-152, for the services and containers of one file:
\* a v2 file's services and containers go through mergeServicesV2, a v1
\* file's services through mergeServicesV1 and convertServices (its
\* containers are dropped); an error of either aborts the file.  The
\* caller then stores every returned service under its name; the
\* containers go to the caller unmerged and are not kept here.
MergeDoc(existing, doc, imageFirst) ==
    LET folded == FoldKinds(doc)
        raws == [n \in {m \in Names : folded[m] # NoSvc} |-> folded[n]]
        v2 == doc.version = "2"
        ms == IF v2 THEN MergeServicesV2(doc.dir, raws) ELSE MergeServicesV1(doc.dir, raws)
        new == IF v2 THEN ms.svcs ELSE [n \in DOMAIN raws |-> ConvertV1(ms.svcs[n])]
        ctrs == [n \in {c \in Names : doc.containers[c] # NoSvc} |-> doc.containers[n]]
        cs == IF v2 THEN MergeServicesV2(doc.dir, ctrs) ELSE [ok |-> TRUE]
    IN IF ~ms.ok \/ ~cs.ok
       THEN [ok |-> FALSE, services |-> existing]
       ELSE [ok |-> TRUE,
             services |-> [n \in Names |->
                IF n \notin DOMAIN raws THEN existing[n]
                ELSE Adjust(IF existing[n] # NoSvc
                            THEN MergeConfig(existing[n], new[n], imageFirst[n])
                            ELSE new[n])]]

-----------------------------------------------------------------------------
Init ==
    /\ services = [n \in Names |-> NoSvc]
    /\ prev = services
    /\ lastDoc = NoSvc
    /\ lastResult = "none"
    /\ loads = 0

\* The caller loads the next file; an error leaves its map unchanged.
Load(doc) ==
    /\ loads < MaxLoads
    /\ \E imageFirst \in [Names -> BOOLEAN] :
       LET r == MergeDoc(services, doc, imageFirst)
       IN /\ services' = r.services
          /\ lastResult' = IF r.ok THEN "ok" ELSE "err"
    /\ prev' = services
    /\ lastDoc' = doc
    /\ loads' = loads + 1

Next == \E doc \in Docs : Load(doc)

Spec == Init /\ [][Next]_vars

-----------------------------------------------------------------------------
(* Properties                                                              *)

DocNames(doc) == {n \in Names : FoldKinds(doc)[n] # NoSvc}
\* A service of doc as the version's parse (and conversion) gives it.
Parse(doc, svc) ==
    IF doc.version = "2" THEN ParseV2(doc.dir, svc)
    ELSE [ParseV1(doc.dir, svc) EXCEPT !.svc = ConvertV1(@)]
Parsed(doc, n) == Parse(doc, FoldKinds(doc)[n]).svc
EnvOf(s) == IF s = NoSvc THEN <<>> ELSE s.environment
\* The entry a list of KEY[=VALUE] entries gives k: the last one, as when
\* the list is turned into the container's environment map.
EffEnv(env, k) ==
    LET i == SelectLastInSeq(env, LAMBDA e : e.key = k)
    IN IF i = 0 THEN NoEntry ELSE env[i]

\* Spec sections 3 and 4.6: merging a file that sets image or build into
\* an existing service leaves exactly one of them set, since mergeConfig
\* deletes the other whichever order the range meets the fields in (also
\* when the file sets both).
ImageBuildExclusive ==
    lastResult = "ok" =>
        \A n \in DocNames(lastDoc) :
            LET new == Parsed(lastDoc, n)
            IN prev[n] # NoSvc /\ (Present(new, "image") \/ Present(new, "build"))
                 => Present(services[n], "image") # Present(services[n], "build")

\* Spec section 4.6: merging a file into a service that exists lets the new
\* file win: each variable has the new file's value when the file gives it
\* one and keeps the earlier value otherwise.
EnvMergePrecedence ==
    lastResult = "ok" =>
        \A n \in DocNames(lastDoc), k \in EnvKeys :
            LET new == EffEnv(Parsed(lastDoc, n).environment, k)
            IN EffEnv(services[n].environment, k)
                 = IF new # NoEntry THEN new ELSE EffEnv(EnvOf(prev[n]), k)

\* Spec sections 4.6 and 8: links of a merged service are replaced by the
\* new file's list, never unioned with the earlier one.
LinksReplaced ==
    lastResult = "ok" =>
        \A n \in DocNames(lastDoc) :
            Present(FoldKinds(lastDoc)[n], "links") =>
                services[n].links = FoldKinds(lastDoc)[n].links

\* The entry spec section 4.5 gives k: the service's own environment, else
\* the first line of the last-declared env file that defines k.
RefEnv(svc, k) ==
    LET inline == EffEnv(svc.environment, k)
        fs == {i \in 1..Len(svc.env_file) :
                 \E j \in 1..Len(EnvContent[svc.env_file[i]]) :
                    EnvContent[svc.env_file[i]][j].key = k}
    IN IF inline # NoEntry THEN inline
       ELSE IF fs = {} THEN NoEntry
       ELSE LET lines == EnvContent[svc.env_file[Max(fs)]]
            IN lines[SelectInSeq(lines, LAMBDA e : e.key = k)]

\* Spec sections 4.5 and 8: readEnvFile never overrides a variable of the
\* service's own environment and takes the others from the last-declared
\* env file that sets them.
EnvFilePrecedence ==
    lastResult = "ok" =>
        \A n \in DocNames(lastDoc), k \in EnvKeys :
            EffEnv(Parsed(lastDoc, n).environment, k) = RefEnv(FoldKinds(lastDoc)[n], k)

\* Spec section 8: a relative build context is resolved against the
\* directory of the file being merged, in v1 and v2 files alike.
BuildContextResolved ==
    lastResult = "ok" =>
        \A n \in DocNames(lastDoc) :
            LET b == FoldKinds(lastDoc)[n].build
            IN b.form # "none" /\ b.ctx.rel \notin {"", "remote"} =>
                 services[n].build.ctx = Join(lastDoc.dir, b.ctx.rel)

=============================================================================
