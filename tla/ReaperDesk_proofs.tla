--------------------------- MODULE ReaperDesk_proofs ---------------------------
(***************************************************************************)
(* What Project Tidy promises it keeps at a desk it shares: a step of the  *)
(* Studio catalog leaves alone all that TidySession's invariant is about,  *)
(* and whatever either of them leaves owed in REAPER is among the runs     *)
(* that may come late.                                                     *)
(*                                                                         *)
(* What becomes of the projects themselves needs a second invariant: they  *)
(* stay projects, so the theorems about surveys speak of them, and every   *)
(* plan that may ever reach the applier is safe, which is a fact about a   *)
(* plan and not about the project it meets (ProjectsInv).                  *)
(*                                                                         *)
(* The other way about, no step of Project Tidy touches what the Studio    *)
(* catalog's invariant is about (StudioInv), so the listings keep their    *)
(* promises too.                                                           *)
(***************************************************************************)
EXTENDS ReaperDesk, TidySession_proofs, StudioCatalog_proofs

\* Following the plan "items" loses no place: no item deletes what another one
\* counts on, and what is written is a name.
SafePlan(items) ==
  /\ \A i \in items : i.verb = "rename" => IsName(i.newName)
  /\ \A i \in items : i.verb = "delete" => ~i.survivor.region
  /\ \A i, j \in items : i.verb = "delete" /\ j.verb = "delete" => j.marker # i.survivor

\* What REAPER has and what was read of it are projects, and all plans are safe,
\* the one in plan.json too, whichever call has written it.
ProjectsInv ==
  /\ DOMAIN projects = Paths /\ open \in Paths
  /\ \A path \in Paths : IsProject(projects[path])
  /\ stateFile # NoFile => IsProject(stateFile.project)
  /\ plans = [p \in Pids |-> plans[p]] /\ \A p \in Pids : SafePlan(plans[p])
  /\ planFile # NoFile => SafePlan(planFile.items)
  /\ job = [c \in Callers |-> job[c]] /\ \A c \in Callers : SafePlan(job[c].items)

-------------------------------------------------------------------------------
(***************************************************************************)
(* Plans are safe.                                                         *)
(***************************************************************************)

LEMMA SafeSurvey ==
  ASSUME NEW p, IsProject(p)
  PROVE  SafePlan(Survey(p))
<1> DEFINE ms == p.markers
<1>1. AreMarkers(ms)
  BY DEF IsProject
<1>2. ASSUME NEW i \in Survey(p), i.verb = "rename" PROVE IsName(i.newName)
  BY <1>2, SurveyNames
<1>3. ASSUME NEW i \in Survey(p), i.verb = "delete"
      PROVE  \E k \in DOMAIN ms : IsDuplicate(ms, k) /\ i = DeleteItem(k, ms[k], Survivor(ms, k))
  <2>1. i \in DeleteItems(ms)
    BY <1>3 DEF Survey, ColorItems, RenameItems, ColorItem, RenameItem
  <2> QED
    BY <2>1 DEF DeleteItems
<1>4. \A k \in DOMAIN ms : IsDuplicate(ms, k) => ~Survivor(ms, k).region /\ ~IsDuplicate(ms, Survivor(ms, k))
  BY <1>1, SurvivorStays DEF IsDuplicate
<1> HIDE DEF ms
<1>5. \A i \in Survey(p) : i.verb = "delete" => ~i.survivor.region /\ ~IsDuplicate(ms, i.survivor)
  BY <1>3, <1>4 DEF DeleteItem
<1>6. \A i \in Survey(p) : i.verb = "delete" => IsDuplicate(ms, i.marker)
  BY <1>3 DEF DeleteItem
<1> QED
  BY <1>2, <1>5, <1>6 DEF SafePlan

LEMMA SafePart ==
  ASSUME NEW items, SafePlan(items), NEW part, part \subseteq items
  PROVE  SafePlan(part)
BY DEF SafePlan

LEMMA SafeNone == SafePlan({})
BY DEF SafePlan

-------------------------------------------------------------------------------
(***************************************************************************)
(* Projects stay projects.                                                 *)
(***************************************************************************)

LEMMA EditedMarkers ==
  ASSUME NEW ms, AreMarkers(ms), NEW ns \in MarkerChanges(ms)
  PROVE  AreMarkers(ns)
<1>1. PICK k \in DOMAIN ms :
        \/ \E l \in DOMAIN ms \ {k} : ns = [ms EXCEPT ![k].name = ms[l].name]
        \/ \E l \in DOMAIN ms \ {k} : ns = [ms EXCEPT ![k].pos = ms[l].pos]
        \/ ns = [ms EXCEPT ![k].name = NoName]
        \/ ns = [l \in DOMAIN ms \ {k} |-> ms[l]]
  <2>1. PICK k \in DOMAIN ms :
          ns \in {[ms EXCEPT ![k].name = ms[l].name] : l \in DOMAIN ms \ {k}}
                \cup {[ms EXCEPT ![k].pos = ms[l].pos] : l \in DOMAIN ms \ {k}}
                \cup {[ms EXCEPT ![k].name = NoName], [l \in DOMAIN ms \ {k} |-> ms[l]]}
    BY DEF MarkerChanges
  <2> QED
    BY <2>1
<1>2. /\ ms = [l \in DOMAIN ms |-> ms[l]] /\ IsFiniteSet(DOMAIN ms)
      /\ DOMAIN ms \subseteq [region : BOOLEAN, id : Nat]
      /\ \A l \in DOMAIN ms : ms[l] = Marker(ms[l].pos, ms[l].name) /\ IsName(ms[l].name)
  BY DEF AreMarkers
<1>3. IsName(NoName)
  BY PlansAssumption DEF IsName, SectionName
<1>4. CASE ns = [l \in DOMAIN ms \ {k} |-> ms[l]]
  <2>1. IsFiniteSet(DOMAIN ns)
    BY <1>2, <1>4, FS_RemoveElement
  <2> QED
    BY <1>2, <1>4, <2>1 DEF AreMarkers
<1>5. ASSUME NEW n, IsName(n), ns = [ms EXCEPT ![k].name = n] PROVE AreMarkers(ns)
  <2>1. DOMAIN ns = DOMAIN ms /\ \A l \in DOMAIN ms : ns[l] = Marker(ms[l].pos, IF l = k THEN n ELSE ms[l].name)
    BY <1>2, <1>5 DEF Marker
  <2>2. \A l \in DOMAIN ns : ns[l] = Marker(ns[l].pos, ns[l].name) /\ IsName(ns[l].name)
    BY <1>2, <1>5, <2>1 DEF Marker
  <2>3. ns = [l \in DOMAIN ns |-> ns[l]]
    BY <1>5
  <2> QED
    BY <1>2, <2>1, <2>2, <2>3 DEF AreMarkers
<1>6. ASSUME NEW x, ns = [ms EXCEPT ![k].pos = x] PROVE AreMarkers(ns)
  <2>1. DOMAIN ns = DOMAIN ms /\ \A l \in DOMAIN ms : ns[l] = Marker(IF l = k THEN x ELSE ms[l].pos, ms[l].name)
    BY <1>2, <1>6 DEF Marker
  <2>2. \A l \in DOMAIN ns : ns[l] = Marker(ns[l].pos, ns[l].name) /\ IsName(ns[l].name)
    BY <1>2, <1>6, <2>1 DEF Marker
  <2>3. ns = [l \in DOMAIN ns |-> ns[l]]
    BY <1>6
  <2> QED
    BY <1>2, <2>1, <2>2, <2>3 DEF AreMarkers
<1> QED
  BY <1>1, <1>2, <1>3, <1>4, <1>5, <1>6

LEMMA PlacesKept ==
  ASSUME NEW p, IsProject(p), NEW done, SafePlan(done), \A i \in done : StillFits(p, i)
  PROVE  Places(Changed(p, done)) = Places(p)
<1> DEFINE ms == p.markers
           ns == Changed(p, done).markers
           gone == {i.marker : i \in {j \in done : j.verb = "delete"}}
<1>1. DOMAIN ns = DOMAIN ms \ gone /\ \A k \in DOMAIN ns : ns[k].pos = ms[k].pos
  <2> DEFINE new(k) == {i \in done : i.verb = "rename" /\ i.marker = k}
  <2>1. ns = [k \in DOMAIN ms \ gone |->
               IF new(k) = {} THEN ms[k]
               ELSE [ms[k] EXCEPT !.name = (CHOOSE i \in new(k) : TRUE).newName]]
    BY DEF Changed
  <2>2. \A k \in DOMAIN ms : ms[k] = Marker(ms[k].pos, ms[k].name)
    BY DEF IsProject, AreMarkers
  <2> HIDE DEF new, ns, ms, gone
  <2> QED
    BY <2>1, <2>2 DEF Marker
<1>2. ASSUME NEW k \in DOMAIN ms, ~k.region
      PROVE  \E l \in DOMAIN ns : ~l.region /\ ns[l].pos = ms[k].pos
  <2>1. CASE k \notin gone
    <3> HIDE DEF ns, ms, gone
    <3> QED
      BY <1>1, <1>2, <2>1
  <2>2. CASE k \in gone
    <3>1. PICK i \in done : i.verb = "delete" /\ i.marker = k
      BY <2>2
    <3>2. i.survivor \in DOMAIN ms /\ ms[i.survivor].pos = i.pos /\ ms[k] = Marker(i.pos, i.name)
      BY <3>1 DEF StillFits
    <3>3. i.survivor \notin gone /\ ~i.survivor.region
      BY <3>1 DEF SafePlan
    <3> HIDE DEF ns, ms, gone
    <3> QED
      BY <1>1, <3>2, <3>3 DEF Marker
  <2> QED
    BY <2>1, <2>2
<1>3. Places(p) = {ms[k].pos : k \in {l \in DOMAIN ms : ~l.region}}
  BY DEF Places
<1>4. Places(Changed(p, done)) = {ns[k].pos : k \in {l \in DOMAIN ns : ~l.region}}
  BY DEF Places
<1> HIDE DEF ms, ns, gone
<1> QED
  BY <1>1, <1>2, <1>3, <1>4

\* The applier leaves a project, and as long as the plan is safe a marker at every
\* place: the survivor of what is deleted is there, at the same place, and stays.
LEMMA AppliedPlan ==
  ASSUME ProjectsInv, NEW reported, Applier(reported), UNCHANGED <<open, plans, job>>
  PROVE  /\ ProjectsInv'
         /\ \A path \in Paths : Places(projects'[path]) = Places(projects[path])
<1> DEFINE p == projects[open]
           items == planFile.items
<1>1. planFile # NoFile /\ SafePlan(items) /\ IsProject(p)
  BY DEF Applier, PlanIsForOpen, ProjectsInv
<1>2. PICK failed \in SUBSET Prepared(p, items) :
        projects' = [projects EXCEPT ![open] = Changed(p, AppliedIn(ItemStatus(p, items, failed)))]
  BY DEF Applier
<1>3. PICK done : done = AppliedIn(ItemStatus(p, items, failed))
  OBVIOUS
<1>4. done \subseteq items /\ \A i \in done : StillFits(p, i)
  BY <1>3 DEF AppliedIn, ItemStatus
<1>5. DOMAIN projects' = Paths /\ projects'[open] = Changed(p, done)
      /\ \A path \in Paths \ {open} : projects'[path] = projects[path]
  BY <1>2, <1>3 DEF ProjectsInv
<1>6. IsProject(Changed(p, done))
  BY <1>1, <1>4, ChangedIsProject DEF SafePlan
<1>7. ProjectsInv'
  <2>1. \A path \in Paths : IsProject(projects'[path])
    BY <1>5, <1>6 DEF ProjectsInv
  <2>2. UNCHANGED <<open, stateFile, plans, planFile, job>>
    BY DEF Applier
  <2> QED
    BY <1>5, <2>1, <2>2 DEF ProjectsInv
<1>8. Places(Changed(p, done)) = Places(p)
  <2>1. SafePlan(done)
    BY <1>1, <1>4, SafePart
  <2> QED
    BY <1>1, <1>4, <2>1, PlacesKept
<1> QED
  BY <1>5, <1>7, <1>8

\* A step that runs no script in REAPER and is not the user's.
LEMMA ProjectsCall ==
  ASSUME ProjectsInv, UNCHANGED openVars,
         stateFile' \in {stateFile, NoFile},
         plans' = [p \in Pids |-> plans'[p]],
         \A p \in Pids : plans'[p] = plans[p] \/ SafePlan(plans'[p]),
         planFile' # NoFile => planFile' = planFile \/ SafePlan(planFile'.items),
         job' = [c \in Callers |-> job'[c]],
         \A c \in Callers : job'[c] = job[c] \/ SafePlan(job'[c].items)
  PROVE  ProjectsInv'
<1>1. projects' = projects /\ open' = open
  BY DEF openVars
<1>2. stateFile' # NoFile => IsProject(stateFile'.project)
  BY DEF ProjectsInv
<1>3. \A p \in Pids : SafePlan(plans'[p])
  BY DEF ProjectsInv
<1>4. planFile' # NoFile => SafePlan(planFile'.items)
  BY DEF ProjectsInv
<1>5. \A c \in Callers : SafePlan(job'[c].items)
  BY DEF ProjectsInv
<1> QED
  BY <1>1, <1>2, <1>3, <1>4, <1>5 DEF ProjectsInv

LEMMA SafeJob ==
  ASSUME IInv, ProjectsInv, NEW c \in Callers, NEW j, job' = [job EXCEPT ![c] = j],
         j = job[c] \/ SafePlan(j.items)
  PROVE  /\ job' = [d \in Callers |-> job'[d]]
         /\ \A d \in Callers : job'[d] = job[d] \/ SafePlan(job'[d].items)
BY DEF ProjectsInv

\* What a call learns on its way leaves its items alone.
LEMMA ItemsKept ==
  ASSUME IInv, NEW c \in Callers
  PROVE  \A x, y : /\ [job[c] EXCEPT !.pid = x].items = job[c].items
                   /\ [job[c] EXCEPT !.unread = x].items = job[c].items
                   /\ [job[c] EXCEPT !.unread = x, !.older = y].items = job[c].items
                   /\ [job[c] EXCEPT !.older = x].items = job[c].items
                   /\ [job[c] EXCEPT !.result = x].items = job[c].items
                   /\ [job[c] EXCEPT !.answer = x].items = job[c].items
<1>1. PICK k : k = job[c]
  OBVIOUS
<1>2. k = [kind |-> k.kind, path |-> k.path, pid |-> k.pid, items |-> k.items,
           unread |-> k.unread, older |-> k.older, result |-> k.result, answer |-> k.answer]
  BY <1>1 DEF IInv, CallsInv, CallInv, JobInv
<1> QED
  BY <1>1, <1>2

LEMMA ProjectsStarts ==
  ASSUME IInv, ProjectsInv, NEW c \in Callers, Begin(c)
  PROVE  ProjectsInv'
<1>1. PICK path \in Paths :
        \/ StartSurvey(c, path)
        \/ \E p \in Pids :
             StartDismissal(c, path, p) \/ \E items \in SUBSET plans[p] : StartApply(c, path, p, items)
  BY DEF Begin
<1>2. CASE StartSurvey(c, path)
  <2>1. job' = [job EXCEPT ![c] = Job("survey", path, 0, {})]
    BY <1>2 DEF StartSurvey, Start
  <2>2. Job("survey", path, 0, {}).items = {}
    BY DEF Job
  <2> QED
    BY <1>2, <2>1, <2>2, SafeNone, SafeJob, ProjectsCall
       DEF StartSurvey, hostVars, storeVars, proposalVars, ProjectsInv
<1>3. ASSUME NEW p \in Pids, StartDismissal(c, path, p) PROVE ProjectsInv'
  <2>1. job' = [job EXCEPT ![c] = Job("dismiss", path, p, {})]
    BY <1>3 DEF StartDismissal, Start
  <2>2. Job("dismiss", path, p, {}).items = {}
    BY DEF Job
  <2> QED
    BY <1>3, <2>1, <2>2, SafeNone, SafeJob, ProjectsCall
       DEF StartDismissal, hostVars, fileVars, storeVars, proposalVars, ProjectsInv
<1>4. ASSUME NEW p \in Pids, NEW items \in SUBSET plans[p], StartApply(c, path, p, items) PROVE ProjectsInv'
  <2>1. job' = [job EXCEPT ![c] = Job("apply", path, p, items)]
    BY <1>4 DEF StartApply, Start
  <2>2. Job("apply", path, p, items).items = items
    BY DEF Job
  <2>3. SafePlan(items)
    BY SafePart DEF ProjectsInv
  <2> QED
    BY <1>4, <2>1, <2>2, <2>3, SafeJob, ProjectsCall
       DEF StartApply, hostVars, storeVars, proposalVars, ProjectsInv
<1> QED
  BY <1>1, <1>2, <1>3, <1>4

LEMMA ProjectsFiles ==
  ASSUME IInv, ProjectsInv, NEW c \in Callers,
         \/ ReadState(c) \/ MakeProposal(c) \/ SavePlan(c) \/ WriteRunnerPlan(c) \/ ClearResult(c)
  PROVE  ProjectsInv'
<1>1. CASE MakeProposal(c)
  <2>1. job' = [job EXCEPT ![c] = [job[c] EXCEPT !.pid = Len(home) + 1]]
    BY <1>1 DEF MakeProposal
  <2>2. SafePlan([job[c] EXCEPT !.pid = Len(home) + 1].items)
    BY ItemsKept DEF ProjectsInv
  <2> QED
    BY <1>1, <2>1, <2>2, SafeJob, ProjectsCall DEF MakeProposal, hostVars, fileVars, ProjectsInv
<1>2. CASE SavePlan(c)
  <2>1. plans' = [plans EXCEPT ![job[c].pid] = job[c].items] /\ UNCHANGED <<job, hostVars, fileVars>>
    BY <1>2 DEF SavePlan, WritePlan, Stay
  <2>2. SafePlan(job[c].items)
    BY DEF ProjectsInv
  <2> QED
    BY <2>1, <2>2, ProjectsCall DEF hostVars, fileVars, ProjectsInv
<1>3. CASE WriteRunnerPlan(c)
  <2>1. SafePlan(planFile'.items)
    BY <1>3 DEF WriteRunnerPlan, ProjectsInv
  <2> QED
    BY <1>3, <2>1, ProjectsCall
       DEF WriteRunnerPlan, Stay, hostVars, storeVars, proposalVars, ProjectsInv
<1>4. CASE ClearResult(c)
  BY <1>4, ProjectsCall DEF ClearResult, Stay, hostVars, storeVars, proposalVars, ProjectsInv
<1>5. CASE ReadState(c)
  <2>1. PICK j : /\ job' = [job EXCEPT ![c] = j]
                 /\ j = job[c] \/ j = [job[c] EXCEPT !.items = Survey(stateFile.project)]
    <3>1. CASE UNCHANGED job
      <4>1. job' = [job EXCEPT ![c] = job[c]]
        BY <3>1 DEF ProjectsInv
      <4> QED
        BY <4>1
    <3>2. CASE job' = [job EXCEPT ![c] = [job[c] EXCEPT !.items = Survey(stateFile.project)]]
      BY <3>2
    <3> QED
      BY <1>5, <3>1, <3>2 DEF ReadState
  <2>2. j = job[c] \/ j.items = Survey(stateFile.project)
    <3>1. PICK k : k = job[c]
      OBVIOUS
    <3>2. k = [kind |-> k.kind, path |-> k.path, pid |-> k.pid, items |-> k.items,
               unread |-> k.unread, older |-> k.older, result |-> k.result, answer |-> k.answer]
      BY <3>1 DEF IInv, CallsInv, CallInv, JobInv
    <3> QED
      BY <2>1, <3>1, <3>2
  <2>3. j = job[c] \/ SafePlan(j.items)
    BY <1>5, <2>2, SafeSurvey DEF ReadState, Inspected, ProjectsInv
  <2> QED
    BY <1>5, <2>1, <2>3, SafeJob, ProjectsCall
       DEF ReadState, hostVars, fileVars, storeVars, proposalVars, ProjectsInv
<1> QED
  BY <1>1, <1>2, <1>3, <1>4, <1>5

\* The other steps of a call outside REAPER.
LEMMA ProjectsReports ==
  ASSUME IInv, ProjectsInv, NEW c \in Callers,
         \/ RunFails(c, "inspect", "inspect") \/ RunFails(c, "apply", "apply")
         \/ RunMistaken(c, "inspect", "inspect", "inspected")
         \/ RunMistaken(c, "apply", "apply", "applied")
         \/ ListProposals(c) \/ ReadRecord(c) \/ RecordsRead(c)
         \/ SaveSummary(c) \/ SaveRecord(c) \/ Supersede(c)
         \/ SurveyDone(c) \/ ReadResult(c) \/ SaveResult(c) \/ SavePage(c)
         \/ SaveStatus(c) \/ SaveReport(c) \/ Dismiss(c) \/ GiveUp(c)
  PROVE  ProjectsInv'
<1>1. UNCHANGED <<openVars, fileVars, plans>>
  BY DEF RunFails, RunMistaken, ListProposals, ReadRecord, RecordsRead,
         SaveSummary, SaveRecord, Supersede, SurveyDone, ReadResult,
         SaveResult, SavePage, SaveStatus, SaveReport, Dismiss, GiveUp, Return,
         WriteSummary, WriteRecord, WriteResult, WritePage, WriteReport,
         storeVars, proposalVars, reportVars, hostVars
<1>2. job' = job \/ \E j : job' = [job EXCEPT ![c] = j] /\ j.items = job[c].items
  <2>1. CASE Stay \/ GiveUp(c)
    BY <2>1 DEF Stay, GiveUp
  <2>2. CASE ListProposals(c)
    BY <2>2, ItemsKept DEF ListProposals
  <2>3. CASE Supersede(c)
    <3>1. PICK x : job' = [job EXCEPT ![c] = [job[c] EXCEPT !.older = x]]
      BY <2>3 DEF Supersede
    <3> QED
      BY <3>1, ItemsKept
  <2>4. CASE ReadResult(c)
    BY <2>4, ItemsKept DEF ReadResult
  <2>5. CASE SurveyDone(c) \/ SaveReport(c) \/ Dismiss(c)
    BY <2>5, ItemsKept DEF SurveyDone, SaveReport, Dismiss, Return
  <2>6. CASE ReadRecord(c)
    <3>1. PICK q \in job[c].unread :
            job' = [job EXCEPT ![c] = [job[c] EXCEPT
                      !.unread = job[c].unread \ {q},
                      !.older = job[c].older \cup ({q} \cap OpenIn(job[c].path))]]
      BY <2>6 DEF ReadRecord
    <3>2. PICK x, y : /\ x = job[c].unread \ {q}
                      /\ y = job[c].older \cup ({q} \cap OpenIn(job[c].path))
      OBVIOUS
    <3>3. PICK j : j = [job[c] EXCEPT !.unread = x, !.older = y]
      OBVIOUS
    <3>4. j.items = job[c].items
      BY <3>3, ItemsKept
    <3> QED
      BY <3>1, <3>2, <3>3, <3>4
  <2> QED
    BY <2>1, <2>2, <2>3, <2>4, <2>5, <2>6
       DEF RunFails, RunMistaken, RecordsRead, SaveSummary, SaveRecord, SaveResult, SavePage,
           SaveStatus
<1>3. SafePlan(job[c].items)
  BY DEF ProjectsInv
<1>4. /\ job' = [d \in Callers |-> job'[d]]
      /\ \A d \in Callers : job'[d] = job[d] \/ SafePlan(job'[d].items)
  BY <1>2, <1>3, SafeJob DEF ProjectsInv
<1> QED
  BY <1>1, <1>4, ProjectsCall DEF fileVars, ProjectsInv

LEMMA ProjectsOutside ==
  ASSUME ProjectsInv, OutsideChange
  PROVE  ProjectsInv'
<1>1. UNCHANGED <<performed, stateFile, plans, planFile, job>>
  BY DEF OutsideChange, storeVars, proposalVars, fileVars
<1>2. IsProject(projects[open])
  BY DEF ProjectsInv
<1>3. CASE open' \in Paths \ {open} /\ UNCHANGED projects
  BY <1>1, <1>3 DEF ProjectsInv
<1>4. ASSUME NEW q, IsProject(q), projects' = [projects EXCEPT ![open] = q], open' = open
      PROVE  ProjectsInv'
  BY <1>1, <1>4 DEF ProjectsInv
<1>5. PICK p : p = projects[open]
  OBVIOUS
<1>6. p = [tracks |-> p.tracks, markers |-> p.markers] /\ AreTracks(p.tracks) /\ AreMarkers(p.markers)
  BY <1>2, <1>5 DEF IsProject
<1>7. ASSUME NEW ms \in MarkerChanges(p.markers), projects' = [projects EXCEPT ![open].markers = ms],
             open' = open
      PROVE  ProjectsInv'
  <2>1. AreMarkers(ms)
    BY <1>6, EditedMarkers
  <2>2. [p EXCEPT !.markers = ms] = [tracks |-> p.tracks, markers |-> ms]
    BY <1>6
  <2>3. IsProject([p EXCEPT !.markers = ms])
    BY <1>6, <2>1, <2>2 DEF IsProject
  <2> QED
    BY <1>4, <1>5, <1>7, <2>3
<1>8. ASSUME NEW g \in DOMAIN p.tracks, NEW color,
             projects' = [projects EXCEPT ![open].tracks[g].color = color], open' = open
      PROVE  ProjectsInv'
  <2>1. PICK ts : ts = [p.tracks EXCEPT ![g].color = color]
    OBVIOUS
  <2>2. AreTracks(ts)
    <3>1. /\ p.tracks = [h \in DOMAIN p.tracks |-> p.tracks[h]]
          /\ \A h \in DOMAIN p.tracks :
               p.tracks[h] = Track(p.tracks[h].words, p.tracks[h].color) /\ IsFiniteSet(p.tracks[h].words)
      BY <1>6 DEF AreTracks
    <3>2. /\ DOMAIN ts = DOMAIN p.tracks /\ ts = [h \in DOMAIN ts |-> ts[h]]
          /\ \A h \in DOMAIN p.tracks : ts[h] = IF h = g THEN [p.tracks[h] EXCEPT !.color = color] ELSE p.tracks[h]
      BY <2>1, <3>1
    <3>3. \A h \in DOMAIN ts : ts[h] = Track(ts[h].words, ts[h].color) /\ IsFiniteSet(ts[h].words)
      BY <3>1, <3>2 DEF Track
    <3> QED
      BY <3>2, <3>3 DEF AreTracks
  <2>3. [p EXCEPT !.tracks = ts] = [tracks |-> ts, markers |-> p.markers]
    BY <1>6
  <2>4. IsProject([p EXCEPT !.tracks = ts])
    BY <1>6, <2>2, <2>3 DEF IsProject
  <2>5. projects' = [projects EXCEPT ![open] = [p EXCEPT !.tracks = ts]]
    BY <1>5, <1>8, <2>1
  <2> QED
    BY <1>4, <1>8, <2>4, <2>5
<1> QED
  BY <1>3, <1>5, <1>7, <1>8 DEF OutsideChange

\* REAPER executes a script, for a call or late.
LEMMA ProjectsExecution ==
  ASSUME ProjectsInv, UNCHANGED <<open, plans, job>>,
         Inspector \/ Applier(TRUE) \/ Applier(FALSE)
  PROVE  /\ ProjectsInv'
         /\ performed' # performed => \A path \in Paths : Places(projects'[path]) = Places(projects[path])
<1>1. CASE Inspector
  <2>1. stateFile'.project = projects[open]
    BY <1>1 DEF Inspector
  <2> QED
    BY <1>1, <2>1 DEF Inspector, ProjectsInv
<1>2. CASE Applier(TRUE) \/ Applier(FALSE)
  BY <1>2, AppliedPlan
<1> QED
  BY <1>1, <1>2

LEMMA ProjectsStep ==
  ASSUME IInv, ProjectsInv, [TidyStep]_ownVars
  PROVE  /\ ProjectsInv'
         /\ performed' # performed => \A path \in Paths : Places(projects'[path]) = Places(projects[path])
<1>1. CASE UNCHANGED ownVars
  BY <1>1 DEF ownVars, openVars, storeVars, proposalVars, fileVars, callVars, ProjectsInv
<1>2. CASE LateTidyRun
  <2>1. UNCHANGED <<open, plans, job>> /\ (Inspector \/ Applier(TRUE) \/ Applier(FALSE))
    BY <1>2 DEF LateTidyRun, Executes, storeVars, proposalVars, callVars
  <2> QED
    BY <2>1, ProjectsExecution
<1>3. CASE OutsideChange
  BY <1>3, ProjectsOutside DEF OutsideChange
<1>4. ASSUME NEW c \in Callers, Inspect(c) \/ Apply(c) \/ ApplyUnreported(c)
      PROVE  /\ ProjectsInv'
             /\ performed' # performed => \A path \in Paths : Places(projects'[path]) = Places(projects[path])
  <2>1. UNCHANGED <<open, plans, job>> /\ (Inspector \/ Applier(TRUE) \/ Applier(FALSE))
    BY <1>4 DEF Inspect, Apply, ApplyUnreported, Run, Executes, Stay, storeVars, proposalVars
  <2> QED
    BY <2>1, ProjectsExecution
<1>5. ASSUME NEW c \in Callers, Begin(c) PROVE ProjectsInv' /\ UNCHANGED performed
  BY <1>5, ProjectsStarts
     DEF Begin, StartSurvey, StartApply, StartDismissal, hostVars, openVars
<1>6. ASSUME NEW c \in Callers,
             \/ ReadState(c) \/ MakeProposal(c) \/ SavePlan(c)
             \/ WriteRunnerPlan(c) \/ ClearResult(c)
      PROVE  ProjectsInv' /\ UNCHANGED performed
  BY <1>6, ProjectsFiles
     DEF ReadState, MakeProposal, SavePlan, WriteRunnerPlan, ClearResult, hostVars, openVars
<1>7. ASSUME NEW c \in Callers,
             \/ RunFails(c, "inspect", "inspect") \/ RunFails(c, "apply", "apply")
             \/ RunMistaken(c, "inspect", "inspect", "inspected")
             \/ RunMistaken(c, "apply", "apply", "applied")
             \/ ListProposals(c) \/ ReadRecord(c) \/ RecordsRead(c)
             \/ SaveSummary(c) \/ SaveRecord(c) \/ Supersede(c)
             \/ SurveyDone(c) \/ ReadResult(c) \/ SaveResult(c) \/ SavePage(c)
             \/ SaveStatus(c) \/ SaveReport(c) \/ Dismiss(c) \/ GiveUp(c)
      PROVE  ProjectsInv' /\ UNCHANGED performed
  <2>1. UNCHANGED performed
    BY <1>7 DEF RunFails, RunMistaken, ListProposals, ReadRecord, RecordsRead,
           SaveSummary, SaveRecord, Supersede, SurveyDone, ReadResult,
           SaveResult, SavePage, SaveStatus, SaveReport, Dismiss, GiveUp, hostVars, openVars
  <2> QED
    BY <1>7, <2>1, ProjectsReports
<1>8. ASSUME NEW c \in Callers, CallStep(c)
      PROVE  /\ ProjectsInv'
             /\ performed' # performed => \A path \in Paths : Places(projects'[path]) = Places(projects[path])
  BY <1>4, <1>5, <1>6, <1>7, <1>8 DEF CallStep
<1> QED
  BY <1>1, <1>2, <1>3, <1>8 DEF TidyStep

LEMMA ProjectsStart == ASSUME NEW i \in Instances, TidyStart(i) PROVE ProjectsInv
<1>1. \A c \in Callers : job[c].items = {}
  BY DEF TidyStart, NoJob, Job
<1> QED
  BY <1>1, InstancesAssumption, SafeNone DEF TidyStart, StoreInit, ProjectsInv

-------------------------------------------------------------------------------
(***************************************************************************)
(* The theorems.                                                           *)
(***************************************************************************)

LEMMA DeskStep == [DeskNext]_deskVars => [TidyStep]_ownVars
BY DEF DeskNext, deskVars, Quiet

LEMMA DeskInductive == DeskSpec => []IInv
<1>1. DeskInit => IInv
  BY InvStart DEF DeskInit
<1>2. IInv /\ [DeskNext]_deskVars => IInv'
  BY DeskStep, InvStep
<1> QED
  BY <1>1, <1>2, PTL DEF DeskSpec

LEMMA DeskImplies ==
  DeskSpec => [](/\ TidyTypeOK
                 /\ OnlyWhatWasAsked
                 /\ ReportsAreTrue
                 /\ RecordsLoad
                 /\ AppliedHasResult
                 /\ SurveySettlesOlder)
<1>1. IInv => /\ TidyTypeOK
              /\ OnlyWhatWasAsked
              /\ ReportsAreTrue
              /\ RecordsLoad
              /\ AppliedHasResult
              /\ SurveySettlesOlder
  BY InvImplies
<1> QED
  BY <1>1, DeskInductive, PTL

LEMMA DeskProjects == DeskSpec => []ProjectsInv
<1>1. DeskInit => ProjectsInv
  BY ProjectsStart DEF DeskInit
<1>2. IInv /\ ProjectsInv /\ [DeskNext]_deskVars => ProjectsInv'
  BY DeskStep, ProjectsStep
<1> QED
  BY <1>1, <1>2, DeskInductive, PTL DEF DeskSpec

LEMMA DeskStudioStarts == DeskInit => StudioInv
<1> SUFFICES ASSUME NEW i \in Instances, StudioStart(i)
             PROVE  StudioInv
  BY DEF DeskInit
<1>1. (\A t \in i.trees : IsTree(t)) /\ (\A l \in i.lists : IsList(l))
  BY DeskAssumption
<1> QED
  BY <1>1, StudioStarts

LEMMA DeskStudioInductive == DeskSpec => []StudioInv
<1>1. [DeskNext]_deskVars => StudioStep \/ UNCHANGED studioVars
  BY DEF DeskNext, Quiet, deskVars
<1>2. StudioInv /\ [DeskNext]_deskVars => StudioInv'
  BY <1>1, StudioStepKeeps, StudioUnchanged
<1> QED
  BY <1>2, DeskStudioStarts, PTL DEF DeskSpec

\* Calls, artifacts and projects keep their types (tidy_operations.go,
\* tidy_artifacts.go).
THEOREM DeskTypeCorrect == DeskSpec => []TidyTypeOK
BY DeskImplies, PTL

\* REAPER changes nothing that the user has not selected, and only in the project
\* the proposal was made of, whatever run comes late and whichever call's plan it
\* finds (tidy_operations.go: RunTidyApplySelection; tidy_applier.lua).
THEOREM DeskOnlyWhatWasAsked == DeskSpec => []OnlyWhatWasAsked
BY DeskImplies, PTL

\* No report names a change that REAPER has not made (tidy_reports.go:
\* WriteApplyReport).
THEOREM DeskReportsAreTrue == DeskSpec => []ReportsAreTrue
BY DeskImplies, PTL

\* Every record can be loaded, wherever the call that wrote it has stopped
\* (tidy_artifacts.go: WriteProposal).
THEOREM DeskRecordsLoad == DeskSpec => []RecordsLoad
BY DeskImplies, PTL

\* A proposal that was applied has its result and its page (tidy_reports.go:
\* WriteApplyReport).
THEOREM DeskAppliedHasResult == DeskSpec => []AppliedHasResult
BY DeskImplies, PTL

\* A survey that returns, with no other call beside it, has settled all older
\* proposals of its project (tidy_artifacts.go: WriteProposal).
THEOREM DeskSurveySettlesOlder == DeskSpec => []SurveySettlesOlder
BY DeskImplies, PTL

\* Whatever the user and REAPER have made of a project by then, a survey of it
\* takes no name from any place (tidy_survey.go: findExactDuplicateMarkers,
\* canonicalTidySectionName).
THEOREM DeskKeepsNames == DeskSpec => []TidyKeepsNames
<1>1. ProjectsInv => TidyKeepsNames
  BY SurveyKeepsNames DEF ProjectsInv, TidyKeepsNames
<1> QED
  BY <1>1, DeskProjects, PTL

\* And following its proposals comes to an end with the second round
\* (tidy_survey.go: GenerateTidySurvey).
THEOREM DeskInTwoRounds == DeskSpec => []TidyInTwoRounds
<1>1. ProjectsInv => TidyInTwoRounds
  BY SurveyEnds DEF ProjectsInv, TidyInTwoRounds
<1> QED
  BY <1>1, DeskProjects, PTL

\* No application of a plan, however old the plan, whoever wrote it and whatever
\* was moved since, leaves a place without a marker that had one
\* (tidy_applier.lua: the survivor is compared with its snapshot too).
THEOREM DeskPlacesKeepAMarker == DeskSpec => PlacesKeepAMarker
<1>1. ASSUME IInv, ProjectsInv, [DeskNext]_deskVars
      PROVE  [performed' # performed =>
                \A path \in Paths : Places(projects'[path]) = Places(projects[path])]_tidyVars
  BY <1>1, DeskStep, ProjectsStep
<1> QED
  BY <1>1, DeskInductive, DeskProjects, PTL DEF DeskSpec, PlacesKeepAMarker

\* The desk implements TidyPromise: every step of every call, crash and late run
\* is one of its steps, or changes nothing it speaks of.
THEOREM DeskKeepsTidyPromise == DeskSpec => KeepsTidyPromise
<1>1. DeskInit => Promise!Init
  BY PromiseStart DEF DeskInit
<1>2. IInv /\ [DeskNext]_deskVars => [Promise!Next]_(Promise!vars)
  BY DeskStep, PromiseStep
<1> QED
  BY <1>1, <1>2, DeskInductive, PTL DEF DeskSpec, KeepsTidyPromise, Promise!Spec

\* A host's listing, its cursor, its counts and fx_list.json keep their types,
\* whichever page the folder or the list has changed under (studio_files.go,
\* studio_live.go).
THEOREM DeskStudioTypeCorrect == DeskSpec => []StudioTypeOK
BY DeskStudioInductive, InvTyped, PTL

\* No entry is listed twice, although every page is read of another folder or
\* list: what is listed stays in order and behind the cursor
\* (studio_files.go: walkStudioSource; studio_live.go: pageStudioFXList).
THEOREM DeskNothingListedTwice == DeskSpec => []NothingListedTwice
BY DeskStudioInductive, InvListsOnce, PTL

\* A listing that came to its end has all that was there from its first page to
\* its last, if no folder held more than a walk visits
\* (studio_files.go: walkStudioSource; studio_live.go: pageStudioFXList).
THEOREM DeskStayersAreListed == DeskSpec => []StayersAreListed
BY DeskStudioInductive, InvListsStayers, PTL

\* And of a source that did not change meanwhile it has exactly what one page
\* without an end would have: every entry, in order, and every skipped item
\* counted once ("a skipped item is counted on exactly one page",
\* studio_files.go:22).
THEOREM DeskPagesAddUp == DeskSpec => []PagesAddUp
BY DeskStudioInductive, InvAddsUp, PTL

\* A page that is not the last brings its host forward, whatever the source has become:
\* what the end of a listing needs besides fairness (studio_files.go: walkStudioSource;
\* studio_live.go: pageStudioFXList).
THEOREM DeskCursorsGoOn == DeskSpec => CursorsGoOn
<1>1. StudioInv => [\A r \in Readers :
                      (ReadFilePage(r) \/ ReadListPage(r)) /\ phase'[r] = "ask" =>
                        Before(listing[r].cursor, listing'[r].cursor)]_studioVars
  BY PageGoesOn
<1> QED
  BY <1>1, DeskStudioInductive, PTL DEF CursorsGoOn
===============================================================================
