# TLA+ models of rancher-compose-executor

This directory holds TLA+ models of the executor. The executor turns a
compose description into services, containers, stacks and hosts on a
Rancher server. Every model is written from the Go sources under `src/`.

`PROJECT.json` lists:

- the components and how far each is modelled;
- the runs and the mutants that show each property can fail;
- the source lines each definition models;
- the findings, and the hazards the properties are aimed at.

## 1. The system

| Component | Source | Operations |
|---|---|---|
| Service reconciler | `rancher/service.go`, `rancher/wait.go` | `Up` (`up(true)`), `Create`, `createService`, `setupLinks`, `getServiceLinks`, `Pull`, `Wait`/`WaitFor` |
| Container reconciler | `rancher/container.go` | `Up`/`Create` (both `up`), `config`, `getLinks`, `resolveContainerAndStackId` |
| Link/dependency resolver | `service.go` `getServiceLinks`; `container.go` `getLinks` | split `name[:alias]`, look the target up (maybe in another stack), build alias→id |
| Config merge pipeline | `parser/merge.go`, `merge_v1.go`, `merge_v2.go`, `raw.go`, `preprocess.go` | `createRawConfig`, interpolation, preprocessing, `readEnvFile`, `resolveContextV1/V2`, `mergeConfig`, `adjustValues` |
| Environment lookup chain | `lookup/*.go` | `Lookup(key)`, `Variables()`, `NewQuestionLookup` (asks on stdin) |
| Stack provisioning | `rancher/stack.go` | `Stacks.Initialize`, `Stack.EnsureItExists` |
| Host provisioning | `resources/host.go` | `HostsCreate` with `keysToCamelCase`, `Hosts.Initialize`, `Host.EnsureItExists` |
| Legacy config package | `config/merge.go` | `CreateRawConfig`, as `lookup.ParseCatalogConfig` uses it; the rest is never called |
| Template pass, entry point, generated client | `template/`, `main.go`, `vendor/` | not modelled (section 5) |

The caller loads each compose file through the merge pipeline into the
map of services loaded so far. The lookup chain provides the variables.
An external orchestrator then runs one reconciler per service and per
container, possibly at the same time.

The reconcilers share nothing but the remote platform, which is the
source of truth. Every call to it is a synchronous request. The platform
finishes transitions asynchronously, and the code observes them by
polling (`WaitFor`, every 150 ms, with no timeout). Links are resolved
by name when a reconciler runs, so the links a reconciler sees depend on
which other reconcilers have already created their resources. Stack and
host provisioning take the same list-then-create approach against the
platform, and the executor is simply run again after an error.

## 2. Modules

Each component has a module (CONSTANTS, VARIABLES, `Init`, one action
per remote call or loop step, `Next`, `Spec`, properties) and an `MC_`
module that fixes the constants for TLC. There are two exceptions:

- `StackSet`, `ServiceSet` and `HostSet` are abstract specifications,
  refined by `StackProvision`, `ServiceUp` and `HostProvision`.
- `Preprocess` holds only operators. It is
  instantiated in `MC_ConfigMerge`, because `Merge` calls the
  preprocessor.
- `HostConfig` holds only operators too. It is instantiated in
  `MC_HostProvision`, because `HostsCreate` calls it.

Every remote call that changes the platform can fail with a transport
error, bounded by `MaxFaults`. A call that fails may or may not have been
carried out: `remote' \in {remote, applied}`. This is how a lost answer
is modelled.

A crash or rerun sends a reconciler back to its first step and keeps the
platform as it is. In `ContainerUp`, `Rerun` also runs the whole executor
again once every `up()` has returned and one returned an error. Crashes are bounded by `MaxCrashes`; reruns by
`MaxReruns`. A `Terminated` stuttering step marks the states where every
process has returned, so that they are not reported as deadlocks.

### ServiceUp (`rancher/service.go`, `rancher/wait.go`)

The platform is `remote`: id → record with name, state, transitioning,
links, and whether the record's hash matches the desired config. Each
reconciler has:

- `pc`;
- `snap`, its `*client.Service` copy;
- `links`, the result of `getServiceLinks`;
- the return points of `setupLinks` and `Wait`;
- `result`;
- the history flag `sawFault`.

There is one action per remote call and per branch after it:

- `FindUp`/`FindCreate`;
- `Rollback`, `PullImages`, `Upgrade`;
- `CreateServiceCreate`/`Find`;
- `SetupLinksList`/`Resolve`/`Set`;
- `WaitDone`/`WaitReload`;
- `CheckUpgraded`, `FinishUpgrade`, `CheckActive`, `Activate`.

The environment has three actions:

- `Complete`: the platform finishes a transition.
- `FailTransition`: the platform finishes a transition with
  transitioning "error", only when `RemoteErrors`.
- `Crash`.

`FindExisting`, `shouldUpgrade` and the body of `upgrade` are not in
`src/`. They are modelled from the spec and marked so in the map.

`ServiceSet` is what the handlers promise about the services of the
stack. A handler creates its service only where none of that name
exists. A create may still end the handler with an error. A handler
reports success only when its service exists, or when it was asked to
roll back. Every handler returns.

`ServiceUp` instantiates it under this mapping:

- `copies[s]` is the number of platform records named `s`;
- `result` is the handlers' results;
- `rollback` is `ctx.rollback`.

Every other step of `ServiceUp`, such as links, waits, activation,
upgrades, platform transitions and crashes, is a stutter of
`ServiceSet`. The run `up_concurrent` checks
`ImplementsServiceSet == Abstract!Spec`. That run has transport errors,
so it covers creates whose answer is lost. The run `up_restart`, which
has crashes and reruns, checks the safety part,
`ImplementsServiceSetSafety == Abstract!SafetySpec`. Its liveness there
is `Termination`, because the whole refinement does not fit in a run's
time under crashes.

### ContainerUp (`rancher/container.go`)

There is one reconciler per container. `Find`, `Config` and
`CreateContainer` are the three remote steps of `up()`:

- `Find` is `FindExisting`. An error makes `up` return nil.
- `Config` is `config()` with `getLinks`. It resolves every link and
  external link to an existing id. A "stack/name" link whose stack is
  absent is an error (`StackMissing`, from `resolveContainerAndStackId`). An existing container ends the call; a differing
  hash only logs.
- `CreateContainer` creates the container with the links `Config`
  computed.

The constant `Ordered` models an orchestrator that starts a container
only after its local link targets are done. `Crash` reruns one
reconciler from `Find`. `Rerun` runs the executor again after an error:
every reconciler starts over, and the `fresh` marks, which say that a
record was created by the current run, are cleared.

### StackProvision (`rancher/stack.go`)

`Stacks.Initialize` walks the stacks in Go map order (any order). For
each stack, `EnsureItExists` does:

1. `ListStacks`: list the stacks of that name.
2. `CreateStack` when there is none, then `UpgradeStack` to the catalog
   template. Otherwise it goes straight to `UpgradeStack` on the first
   stack listed.

The platform keeps a name and an "upgraded" flag per stack. `Rerun` runs
`Initialize` again after an error.

`StackSet` is what stack provisioning promises, with no listing, ids or
program counter. A run creates a stack only where there is none, and
upgrades a stack that exists; a call that changes the platform may
still end the run with an error. A run succeeds only when every stack
exists once and is upgraded. A failed run may be started again, and
every run that has started ends. `StackProvision` instantiates it
(`Abstract == INSTANCE StackSet WITH ...`) under this mapping:

- `copies[s]` is the number of stacks named `s` on the platform;
- `upgraded[s]` is whether one of them is upgraded;
- `status` is the result of each run.

The run `stacks_rerun` checks `ImplementsStackSet == Abstract!Spec` as a
`PROPERTY`. Every step of `StackProvision` is therefore a `StackSet`
step or a stutter, and its fairness ensures the abstract liveness.

### HostProvision (`resources/host.go`)

`HostsCreate` turns count 0 into 1 (`HostCount`). For each entry,
`EnsureItExists` does:

1. `ListHosts`: list the stack's hosts.
2. `BuildConfigs`: the configs of the missing indices 1..count. A named
   host template that fails or is missing is an error before anything is
   created.
3. `CreateHost`: create them in ascending order, stopping at the first
   error.

The platform keeps how many hosts carry each name, up to `MaxCopies`,
so a duplicate would be visible.

`HostSet` is the abstract specification of what provisioning promises.
It has no listing, template lookup or program counter, only the number
of hosts of each name and the result of each run. A run creates a host
only if the `hosts:` section asks for that name (`WantedHosts`), and
only where none exists. A create may still end the run with an error.
Success requires every wanted host to exist, a failed run may be started
again, and every run returns. `ImplementsHostSet` maps `copies` to
`hosts` and `status` to `result`, and is checked as a PROPERTY of
`hosts_rerun`.

### HostConfig (`resources/host.go` 36-80)

`HostsCreate` passes each entry's config through `keysToCamelCase`
before `EnsureItExists` copies it into every host it creates. The module
holds only operators, on the value trees of `Preprocess`:

- `ToCamelCase` is `toCamelCase`: upper-case each character that follows
  an `_`, then remove every `_`.
- `KeysToCamelCase` converts every key of every map, at any depth, and
  recurses through sequences. It returns the set of possible results.
  The code writes the converted entries into a new map in Go map order,
  so when two keys convert to the same key (`a_b` and `aB`), either
  value may win.

The reference reading is the comment's "underscore separated to camel
case": split on `_`, keep the first word, capitalize the rest
(`CamelOfWords`). `Renamed` says a tree is another with its keys renamed
that way. `MC_HostProvision` instantiates both modules, and
`HostConfigCamelCase` checks every key string of length up to 4 and
every tree of depth 2 over two colliding keys.

### ConfigMerge (`parser/merge.go`, `merge_v1.go`, `merge_v2.go`, `raw.go`)

A service is a record of the fields whose handling differs:

- `image` and `build`;
- the list fields `links` and `ports`;
- `environment`, a list of `KEY[=VALUE]` entries;
- `env_file`;
- `restart`.

`Load(doc)` is one call of `Merge` on a constant document, and stores the
services it returns. `MergeDoc` is that call, made of pure operators:

- `FoldKinds` (createRawConfig folding load balancers, storage drivers,
  network drivers, virtual machines, external services and aliases into
  the service map, in the order of its loops, so a later kind replaces
  an earlier entry of the same name);
- `ReadEnvFile`, with `AddFile` and `AddLine` folded with `FoldLeft`
  over the files in reverse;
- `ResolveContextV1`/`V2`;
- `ParseV1`/`ParseV2` and `MergeServicesV1`/`V2`, which parse every
  service and fail the file on the first error;
- the containers of a v2 file, parsed by `MergeServicesV2` as well: a
  container that fails to parse fails the whole file, while a v1 file's
  containers are dropped. The parsed containers go to `Merge`'s caller,
  which is not in the repository, so the model keeps only their error;
- `MergeConfig`;
- `Adjust`.

`mergeConfig` ranges over a Go map. When a file sets both image and
build on a service, the field it meets first is deleted again when it
meets the second (`Cleared`). `Load` therefore chooses the order for
each service (`imageFirst`), and the model holds both outcomes.

### Preprocess (`parser/preprocess.go`)

This module models `preProcessServiceMap`, which `Merge` runs on every
file (`merge.go:65`). A YAML value is a tagged record: null, bool, int,
string, sequence or map.

- `PreProcess` and `TryConvertStringsToInts` are `RECURSIVE` operators,
  one per function.
- `Sprint` is `fmt.Sprint` of a scalar, where nil gives `"<nil>"`.
- `Atoi` is a constant. It maps the strings `strconv.Atoi` accepts to
  their integers.
- `RancherFields` is a constant too. It stands for the struct, pointer
  and slice fields of `config.RancherConfig`, which
  `getRancherConfigObjects` reads by reflection. That type is not in the
  repository.

`PreprocessAsSpecified(fields, trees)` is the reference. It restates
spec 4.4 leaf by leaf:

- the shape of every tree is kept;
- a scalar leaf of environment or labels becomes its string;
- an integer string under a Rancher field becomes the integer;
- null stays null;
- every other leaf is kept.

`MC_ConfigMerge` instantiates it over every tree of depth up to 2. The
leaves are null, `true`, `80` and the strings `"80"`, `"007"`, `"-1"`
and `"x"`. Sequences hold up to two elements, and maps use one key. The
result is a constant (`PPConforms`), so TLC evaluates it only once.
The invariants that use such constants (`PreprocessAsSpecified`,
`LookupContract`, `HostConfigCamelCase`) guard them with a state
condition (`loads > 0`, `pc[p] = "list"`). With the guard, TLC reports a
false constant as a state that violates the invariant, with a trace.
Without it, TLC stops at startup with an error.
The checker is `ConformsTo44(Pipeline(_), fields, trees)`, so the same
statement serves for any pipeline.

### Lookup (`lookup/*.go`)

`Variables`, `Resolve`, `ComposableResolve` and `ComposableVariables`
are `CommonLookup`, `MapEnvLookup` and `ComposableEnvLookup` as
operators over variable maps. A `MapEnvLookup` is a `CommonLookup`
without a parent. `ResolveAgreesWithVariables` states spec 4.1's
contract that `Lookup` and `Variables` agree. `MC_ConfigMerge`
instantiates `Lookup` and checks it on every chain of up to two lookups
(with or without a parent) and of three without, as the constant
`LKConforms`. `OsLookup` and `EnvFileVars` are the built lookups.

`NewQuestionLookup` is a state machine:

- `ReadFile`: an absent file gives an empty lookup; another error is
  returned. Otherwise it parses the questions with `CatalogQuestions`
  and `Questions`. `ServiceCatalog` is `config.CreateRawConfig` as that
  parse uses it: only a version 2 file has a `.catalog` service, because
  a version 1 file is read whole as its service map and `.catalog` is
  deleted from it.
- `Ask`: one question per step, in any order. The answer is read with
  `ReadString` on a fresh reader. That reader may have buffered any part
  of the rest of stdin, and the buffered part is lost.
- `Built`.

## 3. Runs

| Run | cfg | Expect | States | What it shows |
|---|---|---|---|---|
| up_concurrent | `MC_ServiceUp.cfg` | pass | 377k | Up/Create of web and db run in parallel with one transport error anywhere. A successful Up whose calls all succeeded leaves its service active (or upgraded) and settled (`FaultFreeSuccessMeansActive`). The handlers implement `ServiceSet` (`ImplementsServiceSet`). |
| up_restart | `MC_ServiceUp_restart.cfg` | pass | 861k | With a crash and rerun at any point, and transitions that end in error, every handler returns (`Termination`). Every step, reruns included, is a step of `ServiceSet` (`ImplementsServiceSetSafety`). |
| errors_surface | `ErrorsSurface.cfg` | violation | | A failed link lookup ends in success (`service.go:213`). |
| container_up | `MC_ContainerUp.cfg` | pass | 6.0k | Containers are never created twice (`NoDuplicateNames`), also when a failed create was carried out and the executor is run again, or a reconciler dies and is rerun. In dependency order, a container created by a run is linked to every target that exists (`LinkedWhenOrdered`). |
| container_errors_surface | `ContainerErrorsSurface.cfg` | violation | | A failed `FindExisting` ends in success (`container.go:99`). |
| stacks_rerun | `MC_StackProvision.cfg` | pass | 972 | `StackProvision` implements `StackSet` (`ImplementsStackSet`): reruns after any failed or lost call never duplicate a stack, a successful run leaves every stack upgraded, and every run ends. |
| hosts_rerun | `MC_HostProvision.cfg` | pass | 17k | Only hosts of indices 1..MaxIndex are planned (`TypeOK`). Every host config is the camel-case conversion of its entry (`HostConfigCamelCase`). Initialize implements `HostSet` (`ImplementsHostSet`): reruns never duplicate a host, it never creates a host the file does not ask for, a successful run leaves hosts 1..count of every entry, and every run returns. |
| config_merge | `MC_ConfigMerge.cfg` | pass | 475 | The run covers every sequence of up to 3 loads of eight files, in both map orders of `mergeConfig`. A remote build context is never joined to the file's directory (`TypeOK`). A merge that sets image or build into an existing service leaves exactly one of them. When a file is merged into an existing service, each environment variable takes the new file's value if the file sets it and keeps the earlier value otherwise. The preprocessor matches spec 4.4 on every tree of depth 2 (`PreprocessAsSpecified`). A composable lookup resolves every key to the value its variables give (`LookupContract`). |
| links_replaced | `LinksReplaced.cfg` | violation | | Links from two files are concatenated, not replaced (`merge.go:256`). |
| env_file_precedence | `EnvFilePrecedence.cfg` | violation | | The prefix match of `readEnvFile` drops or overrides env-file keys (`merge.go:218`). |
| build_context | `BuildContextResolved.cfg` | violation | | A v2 string build context is never resolved (`merge_v2.go:51`). |
| questions_answered | `QuestionsAnswered.cfg` | violation | | The second of two questions, with two answers piped on stdin, gets no value (`questions.go:102`). |

Every property of a passing run has a mutant in `PROJECT.json`: a
plausible bug in a mapped definition that makes TLC report the property
violated. The bugs include:

- a dropped existence check;
- a host loop from 0, which plans a host `<stack>-<name>-0`, and a
  `< count + 2` loop, which is caught only by `ImplementsHostSet`;
- links-only link resolution;
- a `resolveContextV2` without its `IsValidRemote` return, which joins a
  git URL to the file's directory;
- a merge that skips the image/build exclusion;
- a Create that returns when nothing is found instead of creating;
- an upgrade that forgets to move on to the next stack, which breaks only
  the liveness of `ImplementsStackSet`;
- a `toCamelCase` without its final `strings.Replace`;
- a composable `Variables` whose union lets an earlier lookup win;
- a `preProcess` without its nil check, which turns null into
  `"<nil>"`.

### Bounds

- **ServiceUp.** Two services, one linking the other, so link resolution
  sees a present and an absent target. Ids 1..3 leave room for one
  duplicate. There is at most one transport error or one crash. Every
  initial platform state of the two services is enumerated:
  - absent, or inactive, active or upgraded;
  - hash in sync or not;
  - links set or not.

  The flags of each reconciler (Up or Create, rollback, confirm upgrade,
  pull) are enumerated too.
- **ContainerUp.** web links db and has the external link ext, which
  belongs to the other stack. Ids 1..3. Two faults and two crashes or reruns, so that a create
  whose error hid that it was carried out can be followed by a rerun of
  the executor, and a rerun can itself be interrupted. The
  other stack may or may not exist.
- **StackProvision.** Two stacks and ids 1..4, two faults and two reruns,
  so that both stacks can have a lost call.
- **HostProvision.** An entry with count 2 and one with count 0 and a
  template; indices up to 3; two faults and two reruns. This is enough
  for a rerun after a create that stopped half way.
- **ConfigMerge.** Eight documents over the services web and db, in two
  directories:
  - a v2 service that sets both image and build, loaded alone and over
    an existing web;
  - v1 and v2 builds, as strings and as maps;
  - env files where one key is a prefix of another (X, XY);
  - a line without '=', and an unreadable env file;
  - an external service, an alias and a load balancer;
  - a storage driver and a network driver, and a virtual machine that an
    external service of the same name replaces;
  - a container with an unreadable env file in a v1 file (dropped) and
    in a v2 file (the file fails).
- **Lookup.** Two questions, one of them defined twice in the catalog
  section, and two piped answer lines.

### Fairness

Each reconciler or executor has weak fairness: a goroutine that is not
blocked keeps running.

ServiceUp also assumes weak fairness of the platform finishing each
transition it started. That is an assumption about the server, not
something the code ensures: `WaitFor` has no timeout.

`ServiceSet` asks the same of each handler,
`WF_svars(Succeed(p) \/ Fail(p))`. In `ServiceUp` that holds only with
the platform fairness above, because `WaitFor` has no timeout.

The refinement's fairness is `WF_avars(Succeed(p) \/ Fail(p))` in
`StackSet`: a run that has started returns. It follows from the weak
fairness of each executor's step in `StackProvision`, because every
loop there is bounded by the stacks, the faults and the reruns.
`HostSet` asks the same, `WF_hvars(Succeed(p) \/ Fail(p))`, and it
follows in the same way from the weak fairness of `HostProvision`'s steps.

`ContainerUp` is given weak fairness of each reconciler, but its run
checks only safety. The merge run and the lookup run check only safety.

## 4. What the runs found

The six violation runs each correspond to a finding in `PROJECT.json`:

- **Errors in the service reconciler are overwritten.** The error of
  `getServiceLinks` is lost (`service.go:213`). The nil link list it
  returned then replaces the service's links by the empty set. The error
  of `ActionActivate` is lost in the same way (`service.go:141-142`).
- **The container reconciler reports success after a failed lookup.**
  When `FindExisting` fails, `up` returns nil (`container.go:99`).
- **Links are concatenated in a merge.** `mergeConfig` never consults
  its `noMerge` list, so links from two files are concatenated
  (`merge.go:256`).
- **`readEnvFile` matches keys by prefix.** It matches a line's key as
  a prefix (`merge.go:218`).
- **v2 string builds are not resolved.** `resolveContextV2` resolves a
  string build in a map it then discards (`merge_v2.go:51`).
- **Questions lose their answers on stdin.** `ask` reads through a
  fresh `bufio.Reader` and returns "" at end of input
  (`questions.go:102`). A question can then lose its piped answer, and
  even its default.

The model shows more behaviour that no run asserts, because the spec
does not say which outcome is right. It is listed under hazards:

- two reconcilers of one name both create it;
- a rerun returns success while the service is still mid-transition;
- `transitioning = "error"` ends the wait like "no";
- loading a file twice duplicates list entries.

## 5. Not modelled

- **Log streaming, `Metadata`, `HealthCheck`, `DependentServices`:**
  read-only or I/O.
- **The template pass and YAML parsing:** byte transformations.
- **Interpolation:** the `parser/interpolation` package is not in the
  repository.
- **`rancher/project.go`** (`NewProject`): it installs the service,
  volume and host factories, then calls `project.Parse`, `context.open`
  and `NewSidekickInfo`. None of those three is in the repository. What
  it sets up is the context the reconcilers read, which the models take
  as constants.
- **The rest of `config/merge.go`:** `Merge`, `InterpolateRawServiceMap`,
  `adjustValues`, `readEnvFile` and `mergeConfig`. Nothing in the
  repository calls them. They are an older copy of the `parser/`
  functions that `ConfigMerge` models.
- **`appendHash` and `printStatus`** (`service.go` 350-393): never
  called. `appendHash` would set the hash label to "" because `hash()`
  is commented out. This is why content hashes are a flag of the
  platform model and not a computed value.
- **Non-string keys in host configs:** `keysToCamelCase` panics on
  them (`key.(string)`). The model's keys are strings.
- **`transferFields`**: it copies the kind-specific fields of a load
  balancer, storage driver or network driver into a nested map under
  `lb_config`, `storage_driver` or `network_driver`. The model's service
  record does not hold those fields. The field lists come from struct
  tags of types that are not in the repository.
- **How `utils.Convert` decodes:** `Merge` decodes the merged raw
  service back into the new file's `*ServiceConfig` (`merge.go:98`).
  `utils` is not in the repository. The model takes the decode as a
  fresh one. A decoder that overlays onto the struct would keep a field
  `mergeConfig` deleted, which is listed as a hazard.
- **`parser/pre_process.go`:** a second definition of
  `preProcessServiceMap`, `preProcess` and `tryConvertStringsToInts`,
  plus the exported `TryConvertStringsToInts`. No code in the repository
  calls any of them; `merge.go:65` calls the form in `preprocess.go`.
- **Links of an existing container across reruns:** `up()` returns for an
  existing container without comparing its links (`container.go:107`).
  A container created while a target was missing keeps no link to the
  target that a later rerun creates. `LinkedWhenOrdered` is stated for
  one run. The spec does not say whether `up` should fix the links, so
  no run asserts it (see the hazards).
- **Service links:** cross-stack names and selector links are taken as
  constants per service, not parsed.
- **Content hashes:** a boolean per record.
- **Two executors provisioning the same stacks or hosts at once:**
  nothing in the sources or the spec runs them in parallel.
- **Code that does not compile as written:** `rancher/stack.go` 96-97
  (`stack.` followed by `_, err =`) and `convertVersion` in
  `parser/raw.go` look like they do not compile. The models follow the
  evident intent.

## 6. Plan for later work

1. Check the liveness part of `ImplementsServiceSet` under crashes too.
   Its safety part and `Termination` are checked on `up_restart`. The
   whole property does not finish there within five minutes. A smaller
   crash configuration, for example Create handlers only, would bring it
   within reach.
2. Model the goroutines of `Pull` (`service.go` 311-348) as steps of
   their own, if a property is found that tells their errors apart.
3. Give the service record a kind-specific config map, so that
   `transferFields` can be modelled.
