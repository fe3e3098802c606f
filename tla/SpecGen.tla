------------------------------- MODULE SpecGen -------------------------------
(***************************************************************************)
(* tools/specgen and the CI jobs around it.  The generator walks the       *)
(* declarations of every service and writes four files per service, one    *)
(* after the other; a service that fails is skipped where it failed.  A    *)
(* pull request edits declarations, regenerates, perhaps not to the end,   *)
(* and commits, perhaps not everything; the jobs specs-drift, specs-lint   *)
(* and specs-breaking decide whether it may be merged.                     *)
(* A $ref is modelled by the schema it resolves to, a sorted list by the   *)
(* set of its members, and a name, where the code compares it, by its rank.*)
(***************************************************************************)
EXTENDS Naturals, Sequences, SequencesExt, FiniteSetsExt

CONSTANTS
    ServiceOrder,  \* the directories under services/, as os.ReadDir sorts them
    Sources,       \* [services -> what their declarations may be]
    Discardable,   \* the generated files the developer may delete
    First,         \* [services -> the declarations on main to begin with]
    None,
    MaxEdits,      \* edits and deletions (a bound)
    MaxMerges      \* merged pull requests (a bound)

Services  == ToSet(ServiceOrder)
Artifacts == {"openapi", "asyncapi", "catalog", "values"}

\* endpoints.go (http) and exposed.go (kafka) of a service, and the packages of
\* the two that do not type-check or say something the walker cannot read.
IsSource(src) ==
    /\ src.http \in BOOLEAN /\ src.kafka \in BOOLEAN /\ src.bad \subseteq {"http", "kafka"}
    /\ ~src.http => src.endpoints = <<>> /\ src.consumed = {}
    /\ ~src.kafka => src.exposed = <<>>
    /\ src.endpoints \in Seq(ToSet(src.endpoints)) /\ src.exposed \in Seq(ToSet(src.exposed))
    /\ \A d \in ToSet(src.exposed) : d.name \in Nat
    /\ \A i, j \in DOMAIN src.exposed : src.exposed[i].name = src.exposed[j].name => i = j

ASSUME SourcesAssumption ==
    /\ DOMAIN First = Services
    /\ \A s \in Services : First[s] \in Sources[s] /\ \A src \in Sources[s] : IsSource(src)
ASSUME OrderAssumption == ServiceOrder \in Seq(Services)
ASSUME BoundAssumption == Discardable \subseteq Artifacts /\ MaxEdits \in Nat /\ MaxMerges \in Nat

VARIABLES
    main,    \* the main branch: [src, files]
    branch,  \* the commit of the pull request
    tree,    \* the checkout the generator runs in, the developer's or the job's
    phase,   \* "dev", or the job that runs, or "merge"
    run,     \* the generator: the services to do, the step of the first, failures
    label,   \* what may be merged is labelled breaking-change
    edits, merges

repository == <<main, branch, tree>>
bounds     == <<edits, merges>>
vars       == <<repository, phase, run, label, bounds>>

Idle == [todo |-> {}, step |-> "idle", failed |-> FALSE]

----------------------------------------------------------------------------
(* internal/jsonschema and internal/openapi.                               *)

Tags(x, service) == IF x.tags = {} THEN {service} ELSE x.tags

\* A field without omitempty is required.
SchemaFromType(t) ==
    IF t = None THEN None
    ELSE [name |-> t.name, properties |-> t.fields, required |-> t.fields \ t.omitempty]

\* Braces and slashes go: two paths can have one operationId.
LowerCamelCase(method, path) == <<method, [i \in DOMAIN path |-> path[i].name]>>

ExtractPathParams(path) == {path[i].name : i \in {j \in DOMAIN path : path[j].param}}

SuccessStatus(ep) ==
    IF ep.status # 0 THEN ep.status ELSE IF ep.method = "post" THEN 201 ELSE 200

\* An error without a type is left out of the responses.
BuildOperation(ep, service) ==
    [operationId |-> IF ep.id # None THEN ep.id ELSE LowerCamelCase(ep.method, ep.path),
     tags |-> Tags(ep, service), event |-> ep.event, params |-> ExtractPathParams(ep.path),
     request |-> SchemaFromType(ep.request),
     responses |-> {<<SuccessStatus(ep), SchemaFromType(ep.response)>>}
                     \cup {<<e.status, SchemaFromType(e.type)>> : e \in {f \in ep.errors : f.type # None}}]

Route(ep) == <<ep.path, ep.method>>

\* The last endpoint of a route is the one that stays in methods.
LastOf(route, endpoints) ==
    endpoints[Max({i \in DOMAIN endpoints : Route(endpoints[i]) = route})]

OpenAPI(service, endpoints) ==
    [tags |-> UNION {Tags(ep, service) : ep \in ToSet(endpoints)},
     operations |-> [r \in {Route(ep) : ep \in ToSet(endpoints)} |->
                        BuildOperation(LastOf(r, endpoints), service)]]

----------------------------------------------------------------------------
(* internal/asyncapi, internal/values and internal/backstage.              *)

ExposureKey(d) == IF d.key # None THEN d.key ELSE d.name

Groups(exposed) == {ExposureKey(d) : d \in ToSet(exposed)}

\* The places of the descriptors that share a key, in the order of the source.
Group(exposed, key) == {i \in DOMAIN exposed : ExposureKey(exposed[i]) = key}

\* The first topic in the order of the source.
ChannelAddress(exposed, key) ==
    LET named == {i \in Group(exposed, key) : exposed[i].topic # None}
    IN IF named = {} THEN key ELSE exposed[Min(named)].topic

BuildMessage(d, service) ==
    [contentType |-> d.contentType, payload |-> SchemaFromType(d.payload), type |-> d.type,
     tags |-> Tags(d, service)]

AsyncAPI(service, exposed) ==
    [tags |-> UNION {Tags(d, service) : d \in ToSet(exposed)},
     channels |-> [k \in Groups(exposed) |->
                     [address |-> ChannelAddress(exposed, k),
                      messages |-> {BuildMessage(exposed[i], service) : i \in Group(exposed, k)}]],
     operations |-> [k \in Groups(exposed) |-> Tags(exposed[Min(Group(exposed, k))], service)]]

\* The first descriptor of a group by name speaks for it.
Speaker(exposed, key) ==
    exposed[CHOOSE i \in Group(exposed, key) :
                \A j \in Group(exposed, key) : exposed[i].name <= exposed[j].name]

\* Mutant: the topics of a group are not compared.
TopicsIgnored(exposed) == TRUE

\* Descriptors that share a key must agree on the topic.
TopicsAgree(exposed) ==
    \A k \in Groups(exposed) :
        \A i, j \in Group(exposed, k) : exposed[i].topic = exposed[j].topic

\* A mapping without an entry for an absent topic; nothing keeps two endpoints
\* from one event name.
Values(src) ==
    [endpoints |-> {[event |-> ep.event, method |-> ep.method, path |-> ep.path] :
                       ep \in {e \in ToSet(src.endpoints) : e.event # None}},
     exposed |-> [k \in Groups(src.exposed) |->
                    LET speaker == Speaker(src.exposed, k)
                    IN [topic |-> speaker.topic, contentType |-> speaker.contentType,
                        eventTypes |-> {src.exposed[i].type : i \in Group(src.exposed, k)}]]]

Catalog(service, src) ==
    [provides |-> {p \in {"rest", "events"} : (p = "rest" /\ src.http) \/ (p = "events" /\ src.kafka)},
     consumes |-> src.consumed,
     names |-> {d.name : d \in ToSet(src.exposed)}]

----------------------------------------------------------------------------
(* internal/runner: RunAll, one write of generateOne a step.               *)

IsDiscovered(src) == src.http \/ src.kafka

DiscoverServices(t) == {s \in Services : IsDiscovered(t.src[s])}

\* The package type-checks, and every field is a literal the walker reads.
LoadsEndpoints(src) == "http" \notin src.bad
LoadsExposed(src) == "kafka" \notin src.bad

\* The services are done in the order of the directories.
Current == ServiceOrder[Min({i \in DOMAIN ServiceOrder : ServiceOrder[i] \in run.todo})]
Declared == tree.src[Current]

Generating(step) ==
    /\ run.step = step /\ run.todo # {}
    /\ UNCHANGED <<main, branch, phase, label, bounds>>

\* writeFile, unless there is nothing to write.
Write(artifact, wanted, doc, next) ==
    /\ tree' = IF wanted THEN [tree EXCEPT !.files[Current][artifact] = doc] ELSE tree
    /\ run' = next

Next_(step) == [run EXCEPT !.step = step]
NextService(failed) == [todo |-> run.todo \ {Current}, step |-> "openapi", failed |-> failed]

\* Mutant: the failure is printed and the exit code is 0.
SkipSilently == run' = NextService(run.failed) /\ UNCHANGED tree

\* The service is given up; what was written of it stays.
Skip == run' = NextService(TRUE) /\ UNCHANGED tree

GenerateAll ==
    /\ phase \in {"dev", "drift"} /\ run = Idle
    /\ run' = [todo |-> DiscoverServices(tree), step |-> "openapi", failed |-> FALSE]
    /\ UNCHANGED <<repository, phase, label, bounds>>

GenerateOpenAPI ==
    /\ Generating("openapi")
    /\ IF Declared.http /\ ~LoadsEndpoints(Declared) THEN Skip
       ELSE Write("openapi", Declared.http, OpenAPI(Current, Declared.endpoints), Next_("asyncapi"))

GenerateAsyncAPI ==
    /\ Generating("asyncapi")
    /\ IF Declared.kafka /\ ~LoadsExposed(Declared) THEN Skip
       ELSE Write("asyncapi", Declared.kafka, AsyncAPI(Current, Declared.exposed), Next_("catalog"))

GenerateCatalog ==
    /\ Generating("catalog")
    /\ Write("catalog", TRUE, Catalog(Current, Declared), Next_("values"))

GenerateValues ==
    /\ Generating("values")
    /\ IF ~TopicsAgree(Declared.exposed) THEN Skip
       ELSE Write("values", TRUE, Values(Declared), NextService(run.failed))

Generate == GenerateOpenAPI \/ GenerateAsyncAPI \/ GenerateCatalog \/ GenerateValues

\* RunAll returns.
Finished == run.step # "idle" /\ run.todo = {}

----------------------------------------------------------------------------
(* The developer of the pull request.                                      *)

AtDesk == phase = "dev" /\ run = Idle

Edit(s, src) ==
    /\ AtDesk /\ edits < MaxEdits /\ src # tree.src[s]
    /\ tree' = [tree EXCEPT !.src[s] = src]
    /\ edits' = edits + 1
    /\ UNCHANGED <<main, branch, phase, run, label, merges>>

Discard(s, artifact) ==
    /\ AtDesk /\ edits < MaxEdits /\ tree.files[s][artifact] # None
    /\ tree' = [tree EXCEPT !.files[s][artifact] = None]
    /\ edits' = edits + 1
    /\ UNCHANGED <<main, branch, phase, run, label, merges>>

\* The run ends, by itself or by a signal: what it has written is there.
EndRun ==
    /\ phase = "dev" /\ run # Idle
    /\ run' = Idle
    /\ UNCHANGED <<repository, phase, label, bounds>>

\* With or without the files git does not know yet.
Commit(all) ==
    /\ AtDesk /\ merges < MaxMerges
    /\ branch' = [src |-> tree.src,
                  files |-> [s \in Services |-> [a \in Artifacts |->
                      IF ~all /\ branch.files[s][a] = None THEN None ELSE tree.files[s][a]]]]
    /\ branch' # branch
    /\ tree' = branch' /\ phase' = "drift"
    /\ UNCHANGED <<main, run, label, bounds>>

----------------------------------------------------------------------------
(* .github/workflows/ci.yml.  specs-lint and specs-breaking need           *)
(* specs-drift; they only read, so their order does not matter.            *)

\* The job that runs passes on to the next, or the developer has to go on.
Ends(passed, next) ==
    /\ phase' = IF passed THEN next ELSE "dev"
    /\ run' = Idle
    /\ tree' = branch
    /\ UNCHANGED <<main, branch, bounds>>

\* Mutant: only deploy/ is compared.
ValuesDrifted ==
    \E s \in Services : /\ branch.files[s].values # None
                        /\ tree.files[s].values # branch.files[s].values

\* git diff --exit-code, which says nothing of files that are not tracked.
Drifted ==
    \E s \in Services, a \in Artifacts : /\ branch.files[s][a] # None
                                         /\ tree.files[s][a] # branch.files[s][a]

SpecsDrift ==
    /\ phase = "drift" /\ Finished
    /\ Ends(~run.failed /\ ~Drifted, "lint") /\ UNCHANGED label

\* The rules of spectral:oas and spectral:asyncapi that the generator caters for.
LintOpenAPI(doc) ==
    /\ \A r, q \in DOMAIN doc.operations :
         doc.operations[r].operationId = doc.operations[q].operationId => r = q
    /\ \A r \in DOMAIN doc.operations : doc.operations[r].tags \subseteq doc.tags

LintAsyncAPI(doc) ==
    \A k \in DOMAIN doc.operations : doc.tags # {} /\ doc.operations[k] \subseteq doc.tags

LintOK ==
    \A s \in Services : /\ branch.files[s].openapi # None => LintOpenAPI(branch.files[s].openapi)
                        /\ branch.files[s].asyncapi # None => LintAsyncAPI(branch.files[s].asyncapi)

SpecsLint == phase = "lint" /\ Ends(LintOK, "breaking") /\ UNCHANGED label

\* oasdiff: an operation or a success status is gone, or a request must have
\* more.  It does not count an error status that is gone.
Successes(operation) == {p[1] : p \in operation.responses} \cap 200 .. 299

Required(schema) == IF schema = None THEN {} ELSE schema.required

Breaks(old, new) ==
    \E r \in DOMAIN old.operations :
        \/ r \notin DOMAIN new.operations
        \/ LET o == old.operations[r]  n == new.operations[r]
           IN \/ ~(Successes(o) \subseteq Successes(n))
              \/ ~(Required(n.request) \subseteq Required(o.request))
              \/ o.request = None /\ n.request # None

\* Mutant: the specs of the branch are compared with themselves.
SelfCompared(s) == FALSE

\* A spec that is not on origin/main is new.
HasBreaking(s) ==
    /\ branch.files[s].openapi # None /\ main.files[s].openapi # None
    /\ Breaks(main.files[s].openapi, branch.files[s].openapi)

\* With the label the job only advises.  It reads the labels of the event that
\* started it: one that is taken off or put on later is not seen.
SpecsBreaking(labelled) ==
    /\ phase = "breaking"
    /\ Ends(labelled \/ ~(\E s \in Services : HasBreaking(s)), "merge")
    /\ label' = (labelled /\ phase' = "merge")

Merge ==
    /\ phase = "merge"
    /\ main' = branch /\ merges' = merges + 1
    /\ phase' = "dev" /\ label' = FALSE
    /\ UNCHANGED <<branch, tree, run, edits>>

----------------------------------------------------------------------------
Documents(service, src) ==
    [openapi  |-> IF src.http THEN OpenAPI(service, src.endpoints) ELSE None,
     asyncapi |-> IF src.kafka THEN AsyncAPI(service, src.exposed) ELSE None,
     catalog  |-> IF IsDiscovered(src) THEN Catalog(service, src) ELSE None,
     values   |-> IF IsDiscovered(src) THEN Values(src) ELSE None]

Init ==
    /\ main = [src |-> First, files |-> [s \in Services |-> Documents(s, First[s])]]
    /\ branch = main /\ tree = main
    /\ phase = "dev" /\ run = Idle /\ label = FALSE
    /\ edits = 0 /\ merges = 0

Next ==
    \/ \E s \in Services : \E src \in Sources[s] : Edit(s, src)
    \/ \E s \in Services, a \in Discardable : Discard(s, a)
    \/ GenerateAll \/ Generate \/ EndRun
    \/ \E all \in BOOLEAN : Commit(all)
    \/ SpecsDrift \/ SpecsLint \/ Merge
    \/ \E labelled \in BOOLEAN : SpecsBreaking(labelled)

Spec == Init /\ [][Next]_vars

----------------------------------------------------------------------------
(* Properties.                                                             *)

\* "Generated specs are stale" never holds of main: whatever was interrupted,
\* skipped half way or left out of a commit on the way, a file on main that
\* the generator owns is the one it would write from the declarations on main.
MergedIsFresh ==
    \A s \in Services, a \in Artifacts :
        main.files[s][a] # None /\ Documents(s, main.src[s])[a] # None
            => main.files[s][a] = Documents(s, main.src[s])[a]

\* Design document of the generator, on specs-drift: "Fails if devs forgot to
\* regenerate".  Then main has every file its declarations call for, fresh.
\* It does not hold: a file that was never committed is not tracked.
NothingForgotten ==
    \A s \in Services, a \in Artifacts :
        Documents(s, main.src[s])[a] # None => main.files[s][a] = Documents(s, main.src[s])[a]

\* What the files on main tell their readers agrees: the event source consumes
\* the topic that asyncapi.yaml has for the channel, and is annotated with the
\* event types of its messages (no sensor filters by them); and a CQRS trigger
\* calls a route that openapi.yaml has under the same event name.
OneContract ==
    \A s \in Services :
        LET file == main.files[s]
        IN /\ main.src[s].kafka /\ file.values # None /\ file.asyncapi # None =>
                \A k \in DOMAIN file.values.exposed :
                    LET group == file.values.exposed[k]
                        channel == file.asyncapi.channels[k]
                    IN /\ group.topic # None => channel.address = group.topic
                       /\ group.eventTypes = {m.type : m \in channel.messages}
           /\ main.src[s].http /\ file.values # None /\ file.openapi # None =>
                \A e \in file.values.endpoints :
                    /\ <<e.path, e.method>> \in DOMAIN file.openapi.operations
                    /\ file.openapi.operations[<<e.path, e.method>>].event = e.event

\* An unlabelled pull request breaks no documented API: neither the committed
\* specs alone nor the declarations alone are compared, so this needs the drift
\* and the breaking job together.  It holds as long as the branch keeps the
\* file: without openapi.yaml specgen diff has nothing to compare.
NoSilentBreak ==
    [][\A s \in Services :
         /\ main' # main /\ ~label /\ main'.src[s].http /\ main.src[s].http
         /\ main.files[s].openapi # None /\ main'.files[s].openapi # None
         => ~Breaks(OpenAPI(s, main.src[s].endpoints), OpenAPI(s, main'.src[s].endpoints))]_vars
=============================================================================
