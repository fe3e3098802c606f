--------------------------- MODULE SpecGenProofs ---------------------------
(***************************************************************************)
(* Theorems about SpecGen, for every set of services, whatever they may    *)
(* declare, and every number of edits and pull requests.                   *)
(***************************************************************************)
EXTENDS SpecGen, FiniteSetTheorems, TLAPS

----------------------------------------------------------------------------
(* The inductive invariant.                                                *)

\* A checkout has declarations and a place for every file of every service.
IsCommit(c) ==
    /\ DOMAIN c = {"src", "files"}
    /\ DOMAIN c.src = Services /\ DOMAIN c.files = Services
    /\ \A s \in Services : c.src[s] \in Sources[s] /\ DOMAIN c.files[s] = Artifacts

Shape == IsCommit(main) /\ IsCommit(branch) /\ IsCommit(tree)

\* The declarations call for the file.
Calls(src, a) ==
    CASE a = "openapi" -> src.http
      [] a = "asyncapi" -> src.kafka
      [] OTHER -> IsDiscovered(src)

\* The file of service s, if it is there, is what the generator would write.
IsFresh(c, s) ==
    \A a \in Artifacts : Calls(c.src[s], a) /\ c.files[s][a] # None
                            => c.files[s][a] = Documents(s, c.src[s])[a]

MainFresh == \A s \in Services : IsFresh(main, s)

Agrees(src) == IsDiscovered(src) => TopicsAgree(src.exposed)

\* What specs-drift has passed.
Checked ==
    phase \in {"lint", "breaking", "merge"} =>
        run = Idle /\ \A s \in Services : IsFresh(branch, s) /\ Agrees(branch.src[s])

Steps == {"idle", "openapi", "asyncapi", "catalog", "values"}

RunKnown ==
    /\ phase \in {"dev", "drift", "lint", "breaking", "merge"}
    /\ run \in [todo : SUBSET Services, step : Steps, failed : BOOLEAN]

\* The files of the service at hand that come before the step.
Before == [step \in Steps |->
    CASE step = "asyncapi" -> {"openapi"}
      [] step = "catalog" -> {"openapi", "asyncapi"}
      [] step = "values" -> {"openapi", "asyncapi", "catalog"}
      [] OTHER -> {}]

\* The run has been past the file.
Done(s, a) == s \notin run.todo \/ (s = Current /\ a \in Before[run.step])

Regenerated(s) ==
    /\ \A a \in Artifacts : Done(s, a) /\ Calls(branch.src[s], a)
                               => tree.files[s][a] = Documents(s, branch.src[s])[a]
    /\ s \notin run.todo => Agrees(branch.src[s])

\* The job specs-drift regenerates what the commit declares.
Regenerating ==
    phase = "drift" =>
        /\ tree.src = branch.src
        /\ run.step # "idle" /\ ~run.failed =>
             \A s \in Services : IsDiscovered(branch.src[s]) => Regenerated(s)

\* What specs-breaking has passed.
Compared == phase = "merge" /\ ~label => \A s \in Services : ~HasBreaking(s)

IInv == Shape /\ RunKnown /\ MainFresh /\ Checked /\ Regenerating /\ Compared

----------------------------------------------------------------------------
(* A run of the generator.                                                 *)

\* A set of naturals that is not empty has a least element, which Min returns.
LEMMA MinIsElement ==
    ASSUME NEW I \in SUBSET Nat, I # {}
    PROVE  Min(I) \in I /\ \A y \in I : Min(I) <= y
  <1> DEFINE R == OpToRel(<, Nat)
  <1>1. PICK x \in I : \A y \in I : <<y, x>> \notin R
    BY NatLessThanWellFounded, WFMin
  <1>2. ASSUME NEW y \in I, y < x PROVE <<y, x>> \in R
    <2>1. <<y, x>> \in Nat \X Nat /\ <<y, x>>[1] < <<y, x>>[2]
      BY <1>2
    <2> QED
      BY <2>1, Zenon DEF OpToRel
  <1> HIDE DEF R
  <1>3. ASSUME NEW y \in I PROVE x <= y
    <2>1. ~(y < x)
      BY <1>1, <1>2, Zenon
    <2>2. x \in Nat /\ y \in Nat
      BY Zenon
    <2> QED
      BY <2>1, <2>2
  <1> QED
    BY <1>3 DEF Min

\* While there are services to do, the one at hand is one of them.
LEMMA CurrentKnown ==
    ASSUME run.todo \subseteq Services, run.todo # {}
    PROVE  Current \in run.todo
  <1> DEFINE I == {i \in DOMAIN ServiceOrder : ServiceOrder[i] \in run.todo}
  <1>1. DOMAIN ServiceOrder \subseteq Nat
    BY OrderAssumption
  <1>2. I # {}
    BY DEF Services, ToSet
  <1>3. Min(I) \in I
    BY <1>1, <1>2, MinIsElement
  <1> QED
    BY <1>3 DEF Current

Filled(c, s, artifact, doc) == [c EXCEPT !.files[s][artifact] = doc]

\* Writing one file changes this file and nothing else.
LEMMA WriteOne ==
    ASSUME NEW c, IsCommit(c), NEW s \in Services, NEW artifact \in Artifacts, NEW doc
    PROVE  LET d == Filled(c, s, artifact, doc)
           IN /\ IsCommit(d) /\ d.src = c.src /\ d.files[s][artifact] = doc
              /\ \A t \in Services, a \in Artifacts :
                   ~(t = s /\ a = artifact) => d.files[t][a] = c.files[t][a]
  <1> PICK d : d = Filled(c, s, artifact, doc)
    OBVIOUS
  <1>1. DOMAIN d = DOMAIN c /\ d.src = c.src
    BY DEF IsCommit, Filled
  <1>2. d.files = [c.files EXCEPT ![s] = [c.files[s] EXCEPT ![artifact] = doc]]
    BY DEF IsCommit, Filled
  <1>3. /\ DOMAIN d.files = DOMAIN c.files
        /\ d.files[s] = [c.files[s] EXCEPT ![artifact] = doc]
        /\ \A t \in Services \ {s} : d.files[t] = c.files[t]
    BY <1>2 DEF IsCommit
  <1>4. /\ DOMAIN d.files[s] = Artifacts /\ d.files[s][artifact] = doc
        /\ \A a \in Artifacts \ {artifact} : d.files[s][a] = c.files[s][a]
    BY <1>3 DEF IsCommit
  <1> QED
    BY <1>1, <1>3, <1>4 DEF IsCommit

\* What the generator of a run keeps whatever it writes.
LEMMA RunKeeps ==
    ASSUME IInv, IsCommit(tree'), UNCHANGED <<main, branch, phase, label>>,
           run.step # "idle", run' \in [todo : SUBSET Services, step : Steps, failed : BOOLEAN],
           Regenerating'
    PROVE  IInv'
  <1>1. Shape' /\ RunKnown' /\ MainFresh'
    BY DEF IInv, Shape, RunKnown, MainFresh, IsFresh, IsCommit
  <1>2. Checked'
    BY DEF IInv, Checked, Idle
  <1>3. Compared'
    BY DEF IInv, Compared, HasBreaking
  <1> QED
    BY <1>1, <1>2, <1>3 DEF IInv

\* A service that is given up counts as a failure of the run.
LEMMA SkipKeeps ==
    ASSUME IInv, run.step # "idle", run.todo # {}, Skip, UNCHANGED <<main, branch, phase, label>>
    PROVE  IInv'
  <1>1. run' \in [todo : SUBSET Services, step : Steps, failed : BOOLEAN] /\ run'.failed
    BY DEF Skip, NextService, IInv, RunKnown, Steps
  <1>2. Regenerating'
    BY <1>1 DEF IInv, Regenerating, Skip
  <1>3. IsCommit(tree')
    BY DEF IInv, Shape, Skip
  <1> QED
    BY <1>1, <1>2, <1>3, RunKeeps

\* A file of the service at hand is written, and the next file comes.
LEMMA WriteKeeps ==
    ASSUME IInv, run.todo # {}, UNCHANGED <<main, branch, phase, label>>,
           NEW step \in Steps \ {"idle"}, run.step = step, NEW next \in Steps,
           NEW artifact \in Artifacts, Before[next] \subseteq Before[step] \cup {artifact},
           NEW wanted, Calls(Declared, artifact) => wanted,
           NEW doc, Calls(Declared, artifact) => doc = Documents(Current, Declared)[artifact],
           Write(artifact, wanted, doc, Next_(next))
    PROVE  IInv'
  <1> PICK cur : cur = Current
    OBVIOUS
  <1>1. cur \in run.todo /\ cur \in Services
    BY CurrentKnown DEF IInv, RunKnown
  <1>2. /\ run' \in [todo : SUBSET Services, step : Steps, failed : BOOLEAN]
        /\ run'.todo = run.todo /\ run'.failed = run.failed /\ run'.step = next
    BY DEF Write, Next_, IInv, RunKnown
  <1>3. Current' = cur
    BY <1>2 DEF Current
  <1>4. /\ IsCommit(tree') /\ tree'.src = tree.src
        /\ wanted => tree'.files[cur][artifact] = doc
        /\ \A t \in Services, a \in Artifacts :
             ~(t = cur /\ a = artifact) => tree'.files[t][a] = tree.files[t][a]
    <2> PICK c, d : c = tree /\ d = tree'
      OBVIOUS
    <2>1. IsCommit(c) /\ d = IF wanted THEN Filled(c, cur, artifact, doc) ELSE c
      BY DEF Write, IInv, Shape, Filled
    <2>2. CASE wanted
      BY <2>1, <2>2, <1>1, WriteOne
    <2>3. CASE ~wanted
      BY <2>1, <2>3
    <2> QED
      BY <2>2, <2>3
  <1>5. Regenerating'
    <2> SUFFICES ASSUME phase = "drift"
                 PROVE  /\ tree'.src = branch.src
                        /\ ~run.failed => \A s \in Services :
                                             IsDiscovered(branch.src[s]) => Regenerated(s)'
      BY <1>2 DEF Regenerating, Regenerated
    <2>1. /\ tree.src = branch.src
          /\ ~run.failed => \A s \in Services : IsDiscovered(branch.src[s]) => Regenerated(s)
      BY DEF IInv, Regenerating
    <2>2. ASSUME ~run.failed, NEW s \in Services, IsDiscovered(branch.src[s]),
                 NEW a \in Artifacts, Done(s, a)', Calls(branch.src[s], a)
          PROVE  tree'.files[s][a] = Documents(s, branch.src[s])[a]
      <3>1. CASE s = cur /\ a = artifact
        <4>1. Calls(Declared, artifact) /\ wanted
          BY <2>1, <2>2, <3>1 DEF Declared
        <4> QED
          BY <1>4, <2>1, <3>1, <4>1 DEF Declared
      <3>2. CASE ~(s = cur /\ a = artifact)
        <4>1. Done(s, a)
          BY <1>1, <1>2, <1>3, <2>2, <3>2 DEF Done
        <4>2. tree.files[s][a] = Documents(s, branch.src[s])[a]
          BY <2>1, <2>2, <4>1 DEF Regenerated
        <4> QED
          BY <1>4, <3>2, <4>2
      <3> QED
        BY <3>1, <3>2
    <2>3. ASSUME ~run.failed, NEW s \in Services, IsDiscovered(branch.src[s]), s \notin run'.todo
          PROVE  Agrees(branch.src[s])
      BY <1>2, <2>1, <2>3 DEF Regenerated
    <2> QED
      BY <1>4, <2>1, <2>2, <2>3 DEF Regenerated
  <1> QED
    BY <1>2, <1>4, <1>5, RunKeeps

\* With values.yaml a service is done, and its topics agree.
LEMMA ValuesKeeps ==
    ASSUME IInv, run.todo # {}, UNCHANGED <<main, branch, phase, label>>, run.step = "values",
           TopicsAgree(Declared.exposed),
           Write("values", TRUE, Values(Declared), NextService(run.failed))
    PROVE  IInv'
  <1> PICK cur : cur = Current
    OBVIOUS
  <1>1. cur \in run.todo /\ cur \in Services
    BY CurrentKnown DEF IInv, RunKnown
  <1>2. /\ run' \in [todo : SUBSET Services, step : Steps, failed : BOOLEAN]
        /\ run'.todo = run.todo \ {cur} /\ run'.failed = run.failed /\ run'.step = "openapi"
    BY DEF Write, NextService, IInv, RunKnown, Steps
  <1>3. /\ IsCommit(tree') /\ tree'.src = tree.src
        /\ tree'.files[cur].values = Values(Declared)
        /\ \A t \in Services, a \in Artifacts :
             ~(t = cur /\ a = "values") => tree'.files[t][a] = tree.files[t][a]
    <2> PICK c, d : c = tree /\ d = tree'
      OBVIOUS
    <2>1. IsCommit(c) /\ d = Filled(c, cur, "values", Values(Declared))
      BY DEF Write, IInv, Shape, Filled
    <2>2. "values" \in Artifacts
      BY DEF Artifacts
    <2> QED
      BY <1>1, <2>1, <2>2, WriteOne
  <1>4. Before["openapi"] = {} /\ Artifacts = Before["values"] \cup {"values"}
    BY DEF Before, Steps, Artifacts
  <1>5. Regenerating'
    <2> SUFFICES ASSUME phase = "drift"
                 PROVE  /\ tree'.src = branch.src
                        /\ ~run.failed => \A s \in Services :
                                             IsDiscovered(branch.src[s]) => Regenerated(s)'
      BY <1>2 DEF Regenerating, Regenerated
    <2>1. /\ tree.src = branch.src
          /\ ~run.failed => \A s \in Services : IsDiscovered(branch.src[s]) => Regenerated(s)
      BY DEF IInv, Regenerating
    <2>2. ASSUME ~run.failed, NEW s \in Services, IsDiscovered(branch.src[s]),
                 NEW a \in Artifacts, Done(s, a)', Calls(branch.src[s], a)
          PROVE  tree'.files[s][a] = Documents(s, branch.src[s])[a]
      <3>1. CASE s = cur /\ a = "values"
        BY <1>3, <2>1, <2>2, <3>1 DEF Declared, Documents
      <3>2. CASE ~(s = cur /\ a = "values")
        <4>1. Done(s, a)
          BY <1>1, <1>2, <1>4, <2>2, <3>2 DEF Done
        <4>2. tree.files[s][a] = Documents(s, branch.src[s])[a]
          BY <2>1, <2>2, <4>1 DEF Regenerated
        <4> QED
          BY <1>3, <3>2, <4>2
      <3> QED
        BY <3>1, <3>2
    <2>3. ASSUME ~run.failed, NEW s \in Services, IsDiscovered(branch.src[s]), s \notin run'.todo
          PROVE  Agrees(branch.src[s])
      BY <1>2, <2>1, <2>3 DEF Regenerated, Declared, Agrees
    <2> QED
      BY <1>3, <2>1, <2>2, <2>3 DEF Regenerated
  <1> QED
    BY <1>2, <1>3, <1>5, RunKeeps

\* RunAll starts with every service still to do.
LEMMA GenerateAllKeeps ==
    ASSUME IInv, GenerateAll
    PROVE  IInv'
  <1>1. /\ run' \in [todo : SUBSET Services, step : Steps, failed : BOOLEAN]
        /\ run'.todo = DiscoverServices(tree) /\ run'.step = "openapi"
    BY DEF GenerateAll, DiscoverServices, Steps
  <1>2. /\ Shape' /\ MainFresh' /\ Compared'
        /\ phase \in {"dev", "drift"} /\ UNCHANGED <<main, branch, tree, phase, label>>
    BY DEF IInv, GenerateAll, repository, Shape, IsCommit, MainFresh, IsFresh, Compared, HasBreaking
  <1>3. RunKnown' /\ Checked'
    BY <1>1, <1>2 DEF RunKnown, Checked
  <1>4. Regenerating'
    <2>1. ASSUME NEW s \in Services, tree.src = branch.src, IsDiscovered(branch.src[s])
          PROVE  Regenerated(s)'
      <3>1. s \in run'.todo
        BY <1>1, <2>1 DEF DiscoverServices
      <3>2. Before["openapi"] = {}
        BY DEF Before, Steps
      <3> QED
        BY <1>1, <3>1, <3>2 DEF Regenerated, Done
    <2>2. phase = "drift" => tree.src = branch.src
      BY DEF IInv, Regenerating
    <2>3. /\ phase' = "drift" => tree'.src = branch'.src
          /\ phase' = "drift" => \A s \in Services : IsDiscovered(branch'.src[s]) => Regenerated(s)'
      BY <1>2, <2>1, <2>2
    <2> QED
      BY <2>3 DEF Regenerating
  <1> QED
    BY <1>2, <1>3, <1>4 DEF IInv

\* A step of the generator.
LEMMA GenerateKeeps ==
    ASSUME IInv, Generate
    PROVE  IInv'
  <1>1. /\ Before["asyncapi"] = Before["openapi"] \cup {"openapi"}
        /\ Before["catalog"] = Before["asyncapi"] \cup {"asyncapi"}
        /\ Before["values"] = Before["catalog"] \cup {"catalog"}
        /\ Steps = {"idle", "openapi", "asyncapi", "catalog", "values"}
        /\ Artifacts = {"openapi", "asyncapi", "catalog", "values"}
    BY DEF Before, Steps, Artifacts
  <1>2. CASE GenerateOpenAPI
    <2>1. /\ UNCHANGED <<main, branch, phase, label>> /\ run.step = "openapi" /\ run.todo # {}
      BY <1>2 DEF GenerateOpenAPI, Generating
    <2> PICK wanted, doc : wanted = Declared.http /\ doc = OpenAPI(Current, Declared.endpoints)
      OBVIOUS
    <2>2. CASE Skip
      BY <2>1, <2>2, SkipKeeps
    <2>3. CASE Write("openapi", wanted, doc, Next_("asyncapi"))
      <3>1. /\ Calls(Declared, "openapi") => wanted
            /\ Calls(Declared, "openapi") => doc = Documents(Current, Declared)["openapi"]
        BY DEF Calls, Documents
      <3>2. "openapi" \in Artifacts /\ "openapi" \in Steps \ {"idle"} /\ "asyncapi" \in Steps
        BY <1>1
      <3> QED
        BY <1>1, <2>1, <2>3, <3>1, <3>2, WriteKeeps
    <2> QED
      BY <1>2, <2>2, <2>3 DEF GenerateOpenAPI
  <1>3. CASE GenerateAsyncAPI
    <2>1. /\ UNCHANGED <<main, branch, phase, label>> /\ run.step = "asyncapi" /\ run.todo # {}
      BY <1>3 DEF GenerateAsyncAPI, Generating
    <2> PICK wanted, doc : wanted = Declared.kafka /\ doc = AsyncAPI(Current, Declared.exposed)
      OBVIOUS
    <2>2. CASE Skip
      BY <2>1, <2>2, SkipKeeps
    <2>3. CASE Write("asyncapi", wanted, doc, Next_("catalog"))
      <3>1. /\ Calls(Declared, "asyncapi") => wanted
            /\ Calls(Declared, "asyncapi") => doc = Documents(Current, Declared)["asyncapi"]
        BY DEF Calls, Documents
      <3>2. "asyncapi" \in Artifacts /\ "asyncapi" \in Steps \ {"idle"} /\ "catalog" \in Steps
        BY <1>1
      <3> QED
        BY <1>1, <2>1, <2>3, <3>1, <3>2, WriteKeeps
    <2> QED
      BY <1>3, <2>2, <2>3 DEF GenerateAsyncAPI
  <1>4. CASE GenerateCatalog
    <2>1. /\ UNCHANGED <<main, branch, phase, label>> /\ run.step = "catalog" /\ run.todo # {}
      BY <1>4 DEF GenerateCatalog, Generating
    <2> PICK doc : doc = Catalog(Current, Declared)
      OBVIOUS
    <2>2. Write("catalog", TRUE, doc, Next_("values"))
      BY <1>4 DEF GenerateCatalog
    <2>3. Calls(Declared, "catalog") => doc = Documents(Current, Declared)["catalog"]
      BY DEF Calls, Documents
    <2>4. "catalog" \in Artifacts /\ "catalog" \in Steps \ {"idle"} /\ "values" \in Steps
      BY <1>1
    <2> QED
      BY <1>1, <2>1, <2>2, <2>3, <2>4, WriteKeeps
  <1>5. CASE GenerateValues
    <2>1. /\ UNCHANGED <<main, branch, phase, label>> /\ run.step = "values" /\ run.todo # {}
      BY <1>5 DEF GenerateValues, Generating
    <2>2. CASE Skip
      BY <2>1, <2>2, SkipKeeps
    <2>3. CASE /\ TopicsAgree(Declared.exposed)
               /\ Write("values", TRUE, Values(Declared), NextService(run.failed))
      BY <2>1, <2>3, ValuesKeeps
    <2> QED
      BY <1>5, <2>2, <2>3 DEF GenerateValues
  <1> QED
    BY <1>2, <1>3, <1>4, <1>5 DEF Generate

----------------------------------------------------------------------------
(* The developer and the jobs.                                             *)

\* At the desk only the checkout changes.
LEMMA DeskKeeps ==
    ASSUME IInv, phase = "dev", IsCommit(tree'), UNCHANGED <<main, branch, phase, label>>,
           run' \in [todo : SUBSET Services, step : Steps, failed : BOOLEAN]
    PROVE  IInv'
  <1>1. Shape' /\ MainFresh' /\ RunKnown'
    BY DEF IInv, Shape, IsCommit, MainFresh, IsFresh, RunKnown
  <1>2. phase' = "dev"
    OBVIOUS
  <1> QED
    BY <1>1, <1>2 DEF IInv, Checked, Regenerating, Compared

\* The developer writes and deletes, and ends a run.
LEMMA DeveloperKeeps ==
    ASSUME IInv, \/ \E s \in Services : \E src \in Sources[s] : Edit(s, src)
                 \/ \E s \in Services, a \in Discardable : Discard(s, a)
                 \/ EndRun
    PROVE  IInv'
  <1>1. ASSUME NEW s \in Services, NEW src \in Sources[s], Edit(s, src) PROVE IInv'
    <2>1. /\ phase = "dev" /\ tree' = [tree EXCEPT !.src[s] = src] /\ IsCommit(tree)
          /\ UNCHANGED <<main, branch, phase, label, run>>
      BY <1>1 DEF Edit, AtDesk, IInv, Shape
    <2> PICK c, d : c = tree /\ d = tree'
      OBVIOUS
    <2>2. /\ DOMAIN d = {"src", "files"} /\ d.files = c.files /\ d.src = [c.src EXCEPT ![s] = src]
      BY <2>1 DEF IsCommit
    <2>3. IsCommit(d)
      BY <2>1, <2>2 DEF IsCommit
    <2> QED
      BY <2>1, <2>3, DeskKeeps DEF IInv, RunKnown
  <1>2. ASSUME NEW s \in Services, NEW a \in Artifacts, Discard(s, a) PROVE IInv'
    <2>1. /\ phase = "dev" /\ tree' = Filled(tree, s, a, None) /\ IsCommit(tree)
          /\ UNCHANGED <<main, branch, phase, label, run>>
      BY <1>2 DEF Discard, AtDesk, IInv, Shape, Filled
    <2>2. IsCommit(tree')
      BY <2>1, WriteOne
    <2> QED
      BY <2>1, <2>2, DeskKeeps DEF IInv, RunKnown
  <1>3. ASSUME EndRun PROVE IInv'
    <2>1. /\ phase = "dev" /\ IsCommit(tree') /\ UNCHANGED <<main, branch, phase, label>>
          /\ run' = Idle
      BY <1>3 DEF EndRun, repository, IInv, Shape
    <2>2. Idle \in [todo : SUBSET Services, step : Steps, failed : BOOLEAN]
      BY DEF Idle, Steps
    <2> QED
      BY <2>1, <2>2, DeskKeeps
  <1> QED
    BY <1>1, <1>2, <1>3, BoundAssumption

\* The job starts from what was committed.
LEMMA CommitKeeps ==
    ASSUME IInv, NEW all \in BOOLEAN, Commit(all)
    PROVE  IInv'
  <1>1. /\ phase' = "drift" /\ tree' = branch' /\ run' = Idle
        /\ UNCHANGED <<main, label, run>>
    BY DEF Commit, AtDesk
  <1>2. IsCommit(branch')
    <2> PICK c, d : c = tree /\ d = branch'
      OBVIOUS
    <2>1. IsCommit(c)
      BY DEF IInv, Shape
    <2>2. PICK files : /\ d = [src |-> c.src, files |-> [s \in Services |-> files[s]]]
                       /\ \A s \in Services : DOMAIN files[s] = Artifacts
      <3> DEFINE files == [s \in Services |-> [a \in Artifacts |->
                      IF ~all /\ branch.files[s][a] = None THEN None ELSE tree.files[s][a]]]
      <3>1. d = [src |-> c.src, files |-> [s \in Services |-> files[s]]]
        BY DEF Commit
      <3>2. \A s \in Services : DOMAIN files[s] = Artifacts
        OBVIOUS
      <3> HIDE DEF files
      <3> QED
        BY <3>1, <3>2
    <2>3. IsCommit(d)
      BY <2>1, <2>2 DEF IsCommit
    <2> QED
      BY <2>3
  <1>3. Shape' /\ MainFresh' /\ RunKnown'
    BY <1>1, <1>2 DEF IInv, Shape, IsCommit, MainFresh, IsFresh, RunKnown
  <1>4. run'.step = "idle"
    BY <1>1 DEF Idle
  <1> QED
    BY <1>1, <1>3, <1>4 DEF IInv, Checked, Regenerating, Compared

\* A job that ends leaves the commit checked out and no run.
LEMMA EndsShape ==
    ASSUME IInv, NEW passed, NEW next \in {"lint", "breaking", "merge"}, Ends(passed, next)
    PROVE  /\ Shape' /\ MainFresh' /\ RunKnown' /\ Regenerating'
           /\ UNCHANGED <<main, branch>> /\ run' = Idle
           /\ phase' = IF passed THEN next ELSE "dev"
  <1>1. /\ UNCHANGED <<main, branch>> /\ run' = Idle /\ tree' = branch
        /\ phase' = IF passed THEN next ELSE "dev"
    BY DEF Ends
  <1>2. Idle \in [todo : SUBSET Services, step : Steps, failed : BOOLEAN]
    BY DEF Idle, Steps
  <1>3. phase' \in {"dev", "lint", "breaking", "merge"}
    BY <1>1
  <1> QED
    BY <1>1, <1>2, <1>3 DEF IInv, Shape, IsCommit, MainFresh, IsFresh, RunKnown, Regenerating

\* A run that ends without a failure and a checkout without a difference: what
\* was committed is what the generator writes.
LEMMA DriftKeeps ==
    ASSUME IInv, SpecsDrift
    PROVE  IInv'
  <1>1. /\ phase = "drift" /\ run.step # "idle" /\ run.todo = {}
        /\ Ends(~run.failed /\ ~Drifted, "lint")
    BY DEF SpecsDrift, Finished
  <1> PICK passed : passed = (~run.failed /\ ~Drifted)
    OBVIOUS
  <1>2. /\ Shape' /\ MainFresh' /\ RunKnown' /\ Regenerating'
        /\ UNCHANGED <<main, branch>> /\ run' = Idle
        /\ phase' = IF passed THEN "lint" ELSE "dev"
    BY <1>1, EndsShape
  <1>3. ASSUME ~run.failed, ~Drifted, NEW s \in Services
        PROVE  IsFresh(branch, s) /\ Agrees(branch.src[s])
    <2>1. CASE IsDiscovered(branch.src[s])
      <3>1. Regenerated(s)
        BY <1>1, <1>3, <2>1 DEF IInv, Regenerating
      <3>2. ASSUME NEW a \in Artifacts, Calls(branch.src[s], a), branch.files[s][a] # None
            PROVE  branch.files[s][a] = Documents(s, branch.src[s])[a]
        <4>1. tree.files[s][a] = Documents(s, branch.src[s])[a]
          BY <1>1, <3>1, <3>2 DEF Regenerated, Done
        <4>2. tree.files[s][a] = branch.files[s][a]
          BY <1>3, <3>2 DEF Drifted
        <4> QED
          BY <4>1, <4>2
      <3> QED
        BY <1>1, <3>1, <3>2 DEF IsFresh, Regenerated
    <2>2. CASE ~IsDiscovered(branch.src[s])
      BY <2>2 DEF IsFresh, Calls, Agrees, IsDiscovered
    <2> QED
      BY <2>1, <2>2
  <1>4. Checked'
    <2>1. phase' = "lint" => \A s \in Services : IsFresh(branch, s) /\ Agrees(branch.src[s])
      BY <1>2, <1>3
    <2>2. phase' \in {"lint", "dev"} /\ branch' = branch
      BY <1>2
    <2> QED
      BY <1>2, <2>1, <2>2 DEF Checked, IsFresh
  <1>5. Compared'
    BY <1>2 DEF Compared
  <1> QED
    BY <1>2, <1>4, <1>5 DEF IInv

\* The specs that are linted are those that were compared.
LEMMA LintKeeps ==
    ASSUME IInv, SpecsLint
    PROVE  IInv'
  <1>1. phase = "lint" /\ Ends(LintOK, "breaking")
    BY DEF SpecsLint
  <1> PICK passed : passed = LintOK
    OBVIOUS
  <1>2. /\ Shape' /\ MainFresh' /\ RunKnown' /\ Regenerating'
        /\ UNCHANGED <<main, branch>> /\ run' = Idle
        /\ phase' = IF passed THEN "breaking" ELSE "dev"
    BY <1>1, EndsShape
  <1>3. Checked' /\ Compared'
    BY <1>1, <1>2 DEF IInv, Checked, Compared, IsFresh
  <1> QED
    BY <1>2, <1>3 DEF IInv

\* Without the label nothing that breaks passes.
LEMMA BreakingKeeps ==
    ASSUME IInv, NEW labelled \in BOOLEAN, SpecsBreaking(labelled)
    PROVE  IInv'
  <1> PICK passed : passed = (labelled \/ ~(\E s \in Services : HasBreaking(s)))
    OBVIOUS
  <1>1. /\ phase = "breaking" /\ Ends(passed, "merge") /\ label' = (labelled /\ phase' = "merge")
    BY DEF SpecsBreaking
  <1>2. /\ Shape' /\ MainFresh' /\ RunKnown' /\ Regenerating'
        /\ UNCHANGED <<main, branch>> /\ run' = Idle
        /\ phase' = IF passed THEN "merge" ELSE "dev"
    BY <1>1, EndsShape
  <1>3. Checked'
    BY <1>1, <1>2 DEF IInv, Checked, IsFresh
  <1>4. Compared'
    <2>1. ASSUME phase' = "merge", ~label', NEW s \in Services PROVE ~HasBreaking(s)
      BY <1>1, <1>2, <2>1
    <2> QED
      BY <1>2, <2>1 DEF Compared, HasBreaking
  <1> QED
    BY <1>2, <1>3, <1>4 DEF IInv

\* Main takes over what the jobs have passed.
LEMMA MergeKeeps ==
    ASSUME IInv, Merge
    PROVE  IInv'
  <1>1. /\ phase = "merge" /\ main' = branch /\ phase' = "dev"
        /\ UNCHANGED <<branch, tree, run>>
    BY DEF Merge
  <1>2. MainFresh'
    BY <1>1 DEF IInv, Checked, MainFresh, IsFresh
  <1>3. Shape' /\ RunKnown'
    BY <1>1 DEF IInv, Shape, IsCommit, RunKnown
  <1> QED
    BY <1>1, <1>2, <1>3 DEF IInv, Checked, Regenerating, Compared

\* Every step of the pull request keeps the invariant.
LEMMA StepKeeps ==
    ASSUME IInv, [Next]_vars
    PROVE  IInv'
  <1>1. CASE Next
    BY <1>1, DeveloperKeeps, GenerateAllKeeps, GenerateKeeps, CommitKeeps, DriftKeeps, LintKeeps,
       BreakingKeeps, MergeKeeps DEF Next
  <1>2. CASE UNCHANGED vars
    <2>1. UNCHANGED <<main, branch, tree, phase, run, label>>
      BY <1>2 DEF vars, repository
    <2>2. Shape' /\ RunKnown' /\ MainFresh' /\ Checked'
      BY <2>1 DEF IInv, Shape, IsCommit, RunKnown, MainFresh, IsFresh, Checked
    <2>3. Regenerating'
      BY <2>1 DEF IInv, Regenerating, Regenerated, Done, Current
    <2>4. Compared'
      BY <2>1 DEF IInv, Compared, HasBreaking
    <2> QED
      BY <2>2, <2>3, <2>4 DEF IInv
  <1> QED
    BY <1>1, <1>2

\* Main begins with the files of its declarations.
LEMMA InitKnown == Init => IInv
  <1> SUFFICES ASSUME Init PROVE IInv
    OBVIOUS
  <1> PICK c : c = main
    OBVIOUS
  <1>1. c = [src |-> First, files |-> [s \in Services |-> Documents(s, First[s])]]
    BY DEF Init
  <1>2. ASSUME NEW s \in Services
        PROVE  c.src[s] \in Sources[s] /\ DOMAIN c.files[s] = Artifacts
    BY <1>1, SourcesAssumption DEF Documents, Artifacts
  <1>3. DOMAIN c.src = Services
    BY <1>1, SourcesAssumption
  <1>4. IsCommit(c)
    BY <1>1, <1>2, <1>3 DEF IsCommit
  <1>5. \A s \in Services : IsFresh(c, s)
    BY <1>1 DEF IsFresh
  <1>6. RunKnown /\ phase = "dev" /\ branch = c /\ tree = c
    BY DEF Init, RunKnown, Idle, Steps
  <1> QED
    BY <1>4, <1>5, <1>6 DEF IInv, Shape, MainFresh, Checked, Regenerating, Compared

\* The invariant, for every service and every history of pull requests.
THEOREM SafetyInvariant == Spec => []IInv
  <1> QED
    BY InitKnown, StepKeeps, PTL DEF Spec

\* What is merged was compared file by file with what a whole run of the
\* generator writes (runner.go, specs-drift): a file on main is never stale.
THEOREM MainIsFresh == Spec => []MergedIsFresh
  <1>1. IInv => MergedIsFresh
    <2> SUFFICES ASSUME MainFresh PROVE MergedIsFresh
      BY DEF IInv
    <2>1. ASSUME NEW s \in Services, NEW a \in Artifacts, ~Calls(main.src[s], a)
          PROVE  Documents(s, main.src[s])[a] = None
      BY <2>1 DEF Documents, Calls, Artifacts
    <2> QED
      BY <2>1 DEF MainFresh, IsFresh, MergedIsFresh
  <1> QED
    BY <1>1, SafetyInvariant, PTL

\* A pull request without the label takes no operation, no response and no
\* leniency away from an API that stays documented: the drift job has tied the
\* committed specs to the declarations, and the breaking job has compared them
\* (ci.yml, internal/diff).
THEOREM BreaksAreLabelled == Spec => NoSilentBreak
  <1>1. ASSUME IInv, Next, NEW s \in Services, main' # main, ~label,
               main'.src[s].http, main.src[s].http,
               main.files[s].openapi # None, main'.files[s].openapi # None
        PROVE  ~Breaks(OpenAPI(s, main.src[s].endpoints), OpenAPI(s, main'.src[s].endpoints))
    <2>1. Merge
      BY <1>1 DEF Next, Edit, Discard, GenerateAll, Generate, GenerateOpenAPI, GenerateAsyncAPI,
         GenerateCatalog, GenerateValues, Generating, EndRun, Commit, SpecsDrift, SpecsLint,
         SpecsBreaking, Ends, repository
    <2>2. phase = "merge" /\ main' = branch
      BY <2>1 DEF Merge
    <2>3. ~HasBreaking(s) /\ IsFresh(main, s) /\ IsFresh(branch, s)
      BY <1>1, <2>2 DEF IInv, Compared, Checked, MainFresh
    <2>4. "openapi" \in Artifacts /\ \A src : Calls(src, "openapi") = src.http
      BY DEF Artifacts, Calls
    <2>5. \A src : src.http => Documents(s, src)["openapi"] = OpenAPI(s, src.endpoints)
      BY DEF Documents
    <2>6. main.files[s].openapi = OpenAPI(s, main.src[s].endpoints)
      BY <1>1, <2>3, <2>4, <2>5 DEF IsFresh
    <2>7. branch.files[s].openapi = OpenAPI(s, branch.src[s].endpoints)
      BY <1>1, <2>2, <2>3, <2>4, <2>5 DEF IsFresh
    <2> QED
      BY <1>1, <2>2, <2>3, <2>6, <2>7 DEF HasBreaking
  <1>2. IInv /\ [Next]_vars =>
          [\A s \in Services :
             /\ main' # main /\ ~label /\ main'.src[s].http /\ main.src[s].http
             /\ main.files[s].openapi # None /\ main'.files[s].openapi # None
             => ~Breaks(OpenAPI(s, main.src[s].endpoints), OpenAPI(s, main'.src[s].endpoints))]_vars
    BY <1>1
  <1> QED
    BY <1>2, SafetyInvariant, PTL DEF Spec, NoSilentBreak

----------------------------------------------------------------------------
(* One contract.                                                           *)

\* A service is merged only when the topics of its groups agree.
MainAgrees == \A s \in Services : Agrees(main.src[s])

\* The router of a service panics when it registers a route twice
\* (pkg/api/endpoint.go), so a service that runs declares each of its routes
\* once; the generator does not look.
RoutesOnce ==
    \A s \in Services : \A src \in Sources[s] :
        \A i, j \in DOMAIN src.endpoints :
            Route(src.endpoints[i]) = Route(src.endpoints[j]) => i = j

\* What asyncapi.yaml and values.yaml say of a channel is the same.
LEMMA ChannelAgrees ==
    ASSUME NEW s \in Services, NEW src \in Sources[s], TopicsAgree(src.exposed),
           NEW k \in DOMAIN Values(src).exposed
    PROVE  LET group == Values(src).exposed[k]
               channel == AsyncAPI(s, src.exposed).channels[k]
           IN /\ group.topic # None => channel.address = group.topic
              /\ group.eventTypes = {m.type : m \in channel.messages}
  <1> PICK exposed : exposed = src.exposed
    OBVIOUS
  <1> DEFINE G == Group(exposed, k)
  <1>1. k \in Groups(exposed)
    BY DEF Values
  <1>2. /\ Values(src).exposed[k] = [topic |-> Speaker(exposed, k).topic,
                                     contentType |-> Speaker(exposed, k).contentType,
                                     eventTypes |-> {exposed[i].type : i \in G}]
        /\ AsyncAPI(s, exposed).channels[k] =
             [address |-> ChannelAddress(exposed, k),
              messages |-> {BuildMessage(exposed[i], s) : i \in G}]
    BY <1>1 DEF Values, AsyncAPI
  <1>3. /\ DOMAIN exposed \in SUBSET Nat /\ G \in SUBSET DOMAIN exposed
        /\ \A i \in DOMAIN exposed : exposed[i] \in ToSet(exposed) /\ exposed[i].name \in Nat
    <2>1. /\ exposed \in Seq(ToSet(exposed))
          /\ \A d \in ToSet(exposed) : d.name \in Nat
      BY SourcesAssumption DEF IsSource
    <2>2. DOMAIN exposed \in SUBSET Nat
      BY <2>1
    <2>3. \A i \in DOMAIN exposed : exposed[i] \in ToSet(exposed)
      BY DEF ToSet
    <2> QED
      BY <2>1, <2>2, <2>3 DEF Group
  <1>4. G # {}
    BY <1>1 DEF Groups, Group, ToSet
  <1>5. PICK speaker \in G : Speaker(exposed, k) = exposed[speaker]
    <2> DEFINE N == {exposed[i].name : i \in G}
    <2>1. N \in SUBSET Nat /\ N # {}
      BY <1>3, <1>4
    <2>2. Min(N) \in N /\ \A n \in N : Min(N) <= n
      BY <2>1, MinIsElement
    <2>3. PICK i \in G : exposed[i].name = Min(N)
      BY <2>2
    <2>4. \A j \in G : exposed[j].name \in N
      OBVIOUS
    <2>5. \A j \in G : exposed[i].name <= exposed[j].name
      BY <2>2, <2>3, <2>4, Zenon
    <2> QED
      BY <2>5 DEF Speaker
  <1>6. \A i, j \in G : exposed[i].topic = exposed[j].topic
    BY <1>1 DEF TopicsAgree
  <1>7. ASSUME exposed[speaker].topic # None
        PROVE  ChannelAddress(exposed, k) = exposed[speaker].topic
    <2> DEFINE named == {i \in G : exposed[i].topic # None}
    <2>1. named # {} /\ named \in SUBSET Nat
      BY <1>3, <1>5, <1>7
    <2>2. Min(named) \in named
      BY <2>1, MinIsElement
    <2>3. ChannelAddress(exposed, k) = exposed[Min(named)].topic
      BY <2>1 DEF ChannelAddress
    <2> QED
      BY <1>5, <1>6, <2>2, <2>3
  <1>8. {exposed[i].type : i \in G} = {m.type : m \in {BuildMessage(exposed[i], s) : i \in G}}
    <2>1. \A i \in G : BuildMessage(exposed[i], s).type = exposed[i].type
      BY DEF BuildMessage
    <2> QED
      BY <2>1
  <1> QED
    BY <1>2, <1>5, <1>7, <1>8

\* A trigger of values.yaml calls an operation of openapi.yaml.
LEMMA TriggerAgrees ==
    ASSUME RoutesOnce, NEW s \in Services, NEW src \in Sources[s],
           NEW e \in Values(src).endpoints
    PROVE  LET operations == OpenAPI(s, src.endpoints).operations
           IN /\ <<e.path, e.method>> \in DOMAIN operations
              /\ operations[<<e.path, e.method>>].event = e.event
  <1> PICK endpoints : endpoints = src.endpoints
    OBVIOUS
  <1>1. PICK ep \in ToSet(endpoints) :
          e = [event |-> ep.event, method |-> ep.method, path |-> ep.path]
    BY DEF Values
  <1>2. PICK i \in DOMAIN endpoints : ep = endpoints[i]
    BY DEF ToSet
  <1> PICK r : r = Route(ep)
    OBVIOUS
  <1>3. <<e.path, e.method>> = r
    BY <1>1 DEF Route
  <1>4. /\ r \in DOMAIN OpenAPI(s, endpoints).operations
        /\ OpenAPI(s, endpoints).operations[r].event = LastOf(r, endpoints).event
    BY DEF OpenAPI, BuildOperation
  <1>5. i \in Nat
    BY <1>2, SourcesAssumption DEF IsSource
  <1>6. {j \in DOMAIN endpoints : Route(endpoints[j]) = r} = {i}
    BY <1>2 DEF RoutesOnce
  <1>7. Max({i}) = i
    BY <1>5 DEF Max
  <1>8. LastOf(r, endpoints) = ep
    BY <1>2, <1>6, <1>7 DEF LastOf
  <1> QED
    BY <1>1, <1>3, <1>4, <1>8

\* What values.yaml configures is what the other two files document: the event
\* sources listen to the topics of asyncapi.yaml and are annotated with its
\* types, and the sensors call the routes of openapi.yaml, if the declarations
\* that main begins with agree on their topics.
THEOREM ContractsAgree ==
    ASSUME \A s \in Services : Agrees(First[s]), RoutesOnce
    PROVE  Spec => []OneContract
  <1>1. Init => MainAgrees
    BY DEF Init, MainAgrees
  <1>2. ASSUME IInv, MainAgrees, [Next]_vars PROVE MainAgrees'
    <2>1. CASE main' = main
      BY <1>2, <2>1 DEF MainAgrees
    <2>2. CASE Merge
      BY <2>2, <1>2 DEF Merge, IInv, Checked, MainAgrees
    <2>3. main' = main \/ Merge
      BY <1>2 DEF Next, Edit, Discard, GenerateAll, Generate, GenerateOpenAPI, GenerateAsyncAPI,
         GenerateCatalog, GenerateValues, Generating, EndRun, Commit, SpecsDrift, SpecsLint,
         SpecsBreaking, Ends, repository, vars
    <2> QED
      BY <2>1, <2>2, <2>3
  <1>3. IInv /\ MainAgrees => OneContract
    <2> SUFFICES ASSUME IInv, MainAgrees, NEW s \in Services, main.files[s].values # None
                 PROVE  LET file == main.files[s]
                        IN /\ main.src[s].kafka /\ file.asyncapi # None =>
                                \A k \in DOMAIN file.values.exposed :
                                  LET group == file.values.exposed[k]
                                      channel == file.asyncapi.channels[k]
                                  IN /\ group.topic # None => channel.address = group.topic
                                     /\ group.eventTypes = {m.type : m \in channel.messages}
                           /\ main.src[s].http /\ file.openapi # None =>
                                \A e \in file.values.endpoints :
                                  /\ <<e.path, e.method>> \in DOMAIN file.openapi.operations
                                  /\ file.openapi.operations[<<e.path, e.method>>].event = e.event
      BY DEF OneContract
    <2> PICK src : src = main.src[s]
      OBVIOUS
    <2>1. src \in Sources[s] /\ IsFresh(main, s) /\ Agrees(src)
      BY DEF IInv, Shape, IsCommit, MainFresh, MainAgrees
    <2>2. /\ IsDiscovered(src) => main.files[s].values = Values(src)
          /\ src.kafka /\ main.files[s].asyncapi # None =>
               main.files[s].asyncapi = AsyncAPI(s, src.exposed)
          /\ src.http /\ main.files[s].openapi # None =>
               main.files[s].openapi = OpenAPI(s, src.endpoints)
      BY <2>1 DEF IsFresh, Calls, Documents, Artifacts
    <2>3. ASSUME src.kafka, main.files[s].asyncapi # None,
                 NEW k \in DOMAIN main.files[s].values.exposed
          PROVE  LET group == main.files[s].values.exposed[k]
                     channel == main.files[s].asyncapi.channels[k]
                 IN /\ group.topic # None => channel.address = group.topic
                    /\ group.eventTypes = {m.type : m \in channel.messages}
      <3>1. /\ main.files[s].values = Values(src) /\ TopicsAgree(src.exposed)
            /\ main.files[s].asyncapi = AsyncAPI(s, src.exposed)
        BY <2>1, <2>2, <2>3 DEF IsDiscovered, Agrees
      <3>2. k \in DOMAIN Values(src).exposed
        BY <2>3, <3>1
      <3> QED
        BY <2>1, <3>1, <3>2, ChannelAgrees
    <2>4. ASSUME src.http, main.files[s].openapi # None,
                 NEW e \in main.files[s].values.endpoints
          PROVE  /\ <<e.path, e.method>> \in DOMAIN main.files[s].openapi.operations
                 /\ main.files[s].openapi.operations[<<e.path, e.method>>].event = e.event
      <3>1. /\ main.files[s].values = Values(src)
            /\ main.files[s].openapi = OpenAPI(s, src.endpoints)
        BY <2>2, <2>4 DEF IsDiscovered
      <3>2. e \in Values(src).endpoints
        BY <2>4, <3>1
      <3> QED
        BY <2>1, <3>1, <3>2, TriggerAgrees
    <2> QED
      BY <2>3, <2>4
  <1> QED
    BY <1>1, <1>2, <1>3, SafetyInvariant, PTL DEF Spec

=============================================================================
