---------------------------- MODULE Confirmation ----------------------------
(***************************************************************************)
(* litci export and litci confirm: the runs of one workflow are exported   *)
(* as a pinned workflow with an evidence job, GitHub runs what the user    *)
(* committed, and a confirmation that finds the locked work passed there   *)
(* raises the assurance of the local result.  Commands run in processes of *)
(* their own; any of them may be killed; GitHub may run its run again      *)
(* between two requests of a confirmation.  A name or a reference is a     *)
(* string or a sequence of tokens; what an export writes is a function of  *)
(* the run's immutable lock, plan and source, so a file is the run it is   *)
(* of.                                                                     *)
(***************************************************************************)
EXTENDS Integers, FiniteSets, SequencesExt

CONSTANTS
  Dirs,        \* directories given as --output
  Cases,       \* what may be confirmed: flow, a workflow [lines, jobs, actions,
               \* containers]; locks and conclusions of its runs; exported, the
               \* runs exported before; hub, the GitHub run; commands, processes
               \* at once
  MaxAttempts  \* times GitHub runs its run


VARIABLES
  flow,      \* the workflow of the runs
  lock,      \* run-lock.json of each run
  hub,       \* the GitHub run: commit, event, inputs, path and text of the
             \* workflow, the run whose export was committed, and the ways
             \* attempts may go
  attempts,  \* what each attempt of it did
  outputs,   \* of each output directory: "dir", or a file and its run
  durable,   \* of each run: what github-export holds
  result,    \* result.json of each run
  record,    \* github-confirmation.json: 0, or the attempt of the artifact
  cmd,       \* commands at work
  told,      \* what commands reported (history)
  raced      \* directories two exports found free at once (history)

confirmVars == <<flow, lock, hub, attempts, outputs, durable, result, record, cmd, told, raced>>
fixed == <<flow, lock, hub>>
keptFiles == <<outputs, durable, result, record>>

Recorded == DOMAIN lock
EXPORTED_WORKFLOW == "greenlit-confirmation.yml"
Reserved == "Greenlit evidence"
Absent == "absent"      \* no name is authored
Deferred == "deferred"  \* an expression that only the run can evaluate
default_step_name(i) == <<"Greenlit step 1", "Greenlit step 2", "Greenlit step 3">>[i]

\* ------------------------------------------------------------ the evidence
planned_string(value, fallback) == IF value \in {Absent, Deferred} THEN fallback ELSE value
evidence_steps(steps) == [i \in DOMAIN steps |-> planned_string(steps[i], default_step_name(i))]
\* One entry for every leg, or for the job.
evidence_jobs(wf) ==
  LET Entry(id, x) == [id |-> id, name |-> planned_string(x.name, id), steps |-> evidence_steps(x.steps)]
      Of(j) == IF j.legs = <<>> THEN <<Entry(j.id, j)>> ELSE [l \in DOMAIN j.legs |-> Entry(j.id, j.legs[l])]
  IN  FlattenSeq([j \in DOMAIN wf.jobs |-> Of(wf.jobs[j])])
name_unnamed_steps(steps) == [i \in DOMAIN steps |-> IF steps[i] = Absent THEN default_step_name(i) ELSE steps[i]]

\* A reference of the lock in its pinned form: the text up to the last "@"
\* and the commit; a repository without digest and tag, and the digest.
LastOf(s, t) == SelectLastInSeq(s, LAMBDA x : x = t)
replace_action_ref(e) ==
  LET at == LastOf(e.requested, "@") IN IF at = 0 THEN e.requested ELSE SubSeq(e.requested, 1, at) \o <<e.to>>
replace_container_ref(e) ==
  LET at == SelectInSeq(e.requested, LAMBDA x : x = "@")
      bare == IF at = 0 THEN e.requested ELSE SubSeq(e.requested, 1, at - 1)
      tag == LastOf(bare, ":")
  IN  (IF tag > LastOf(bare, "/") THEN SubSeq(bare, 1, tag - 1) ELSE bare) \o <<"@", e.to>>
\* Text replacement, one locked reference after the other, on the lines with
\* the key that takes such references.
Replaced(ref, entries, New(_)) == FoldLeft(LAMBDA r, e : ReplaceFirstSubSeq(New(e), e.requested, r), ref, entries)
PinLine(wf, line) ==
  [line EXCEPT !.ref = CASE line.key = "uses" -> Replaced(@, wf.actions, replace_action_ref)
                         [] line.key = "image" -> Replaced(@, wf.containers, replace_container_ref)
                         [] OTHER -> @]
Pinned(wf) == [i \in DOMAIN wf.lines |-> PinLine(wf, wf.lines[i])]
pin_workflow_fails(wf) ==
  \E e \in Range(wf.actions), l \in Range(Pinned(wf)) : e.requested \in SubSeqs(l.ref)

\* GithubEvidenceV1 of a workflow and a lock; workflow stands for the digest
\* of the pinned text.
Evidence(wf, k) ==
  [commit |-> k.commit, event |-> k.event, inputs |-> k.inputs,
   workflow |-> Pinned(wf), path |-> EXPORTED_WORKFLOW, jobs |-> evidence_jobs(wf)]
matches_lock(e, k) == ~k.dirty /\ e.commit = k.commit /\ e.event = k.event /\ e.inputs = k.inputs
\* The evidence job: it needs every job, checks every locked input and
\* uploads the evidence with the commit GitHub runs in place of the locked.
append_evidence_job(wf, k) ==
  [template |-> Evidence(wf, k), needs |-> {j.id : j \in Range(evidence_jobs(wf))}, checks |-> k.inputs]

\* ------------------------------------------------------------ GitHub
\* External: the jobs of an attempt as the API lists them, and its artifacts.
Shown(value, fallback) == CASE value = Deferred -> "evaluated" [] value = Absent -> fallback [] OTHER -> value
GithubJob(id, x, ok) ==
  [id |-> id, name |-> Shown(x.name, id), conclusion |-> ok,
   steps |-> <<[name |-> "Set up job", conclusion |-> "success"]>> \o
     [i \in DOMAIN x.steps |-> [name |-> Shown(name_unnamed_steps(x.steps)[i], ""),
                                conclusion |-> IF i = Len(x.steps) THEN ok ELSE "success"]]]
\* How an attempt went: every job, or all but the first, passed; the API may
\* list jobs in another order, without the first or only up to a page.
Ran(wf, way) ==
  LET ok(k) == IF k = 1 /\ way \in {"failed", "tolerated"} THEN "failure" ELSE "success"
      Of(k) == LET j == wf.jobs[k] IN
        IF j.legs = <<>> THEN <<GithubJob(j.id, j, ok(k))>>
        ELSE [l \in DOMAIN j.legs |-> GithubJob(j.id, j.legs[l], ok(k))]
  IN  FlattenSeq([k \in DOMAIN wf.jobs |-> Of(k)])
\* The evidence job passes if the jobs it needs did, up to those whose
\* failure the workflow tolerates, and every input it checks is as locked.
Proved(wf, tail, inputs, way) ==
  /\ tail.checks \subseteq inputs
  /\ \A j \in Range(Ran(wf, way)) : way = "failed" /\ j.id \in tail.needs => j.conclusion = "success"
Displayed(wf, way, done) ==
  Append(CASE way = "reversed" -> Reverse(Ran(wf, way))
           [] way \in {"dropped", "paged"} -> Tail(Ran(wf, way)) [] OTHER -> Ran(wf, way),
         [id |-> "greenlit_confirmation", name |-> Reserved, conclusion |-> done, steps |-> <<>>])
Uploaded(tail, h, way) ==
  LET artifact == [expired |-> way = "expired", intact |-> way # "damaged",
                   content |-> [tail.template EXCEPT !.commit = h.commit]]
  IN  IF way = "twice" THEN <<artifact, artifact>> ELSE <<artifact>>
Attempt(wf, k, h, way) ==
  LET tail == append_evidence_job(wf, k)
      proved == Proved(wf, tail, h.inputs, way)
      jobs == Displayed(wf, way, IF proved THEN "success" ELSE "skipped")
  IN  [conclusion |-> IF way = "failed" \/ ~proved THEN "failure" ELSE "success",
       jobs |-> jobs, total |-> Len(jobs) + (IF way = "paged" THEN 1 ELSE 0),
       artifacts |-> IF proved THEN Uploaded(tail, h, way) ELSE <<>>]

ExecutionConclusion == {"passed", "failed", "canceled", "blocked", "preparation_failed", "aborted"}
Waiting == [at |-> "idle", run |-> 0, dir |-> "none", local |-> "none", artifact |-> 0]
Classified(k, conclusion, confirmed) ==
  LET passing == conclusion = "passed" /\ k.support # "unsupported"
      exact == k.hermetic /\ k.support = "supported"
  IN  [conclusion |-> conclusion,
       assurance |-> IF ~passing THEN "none" ELSE IF exact /\ confirmed THEN "github" ELSE IF exact THEN "hermetic"
                     ELSE IF k.clean THEN "clean" ELSE "local"]

\* Completed runs of one workflow: each has a conclusion, and the evidence of
\* the workflow lists its jobs (Vec<GithubJobEvidenceV1>).
ConfirmAssumption ==
  \A k \in Cases : /\ k.conclusions \in [DOMAIN k.locks -> ExecutionConclusion]
                   /\ evidence_jobs(k.flow) \in Seq(Range(evidence_jobs(k.flow)))
Exported == {"dir", "workflow", "evidence", "manifest"}
ConfirmInit ==
  /\ \E k \in Cases :
       /\ flow = k.flow /\ lock = k.locks /\ hub = k.hub
       /\ result = [r \in DOMAIN k.locks |-> Classified(k.locks[r], k.conclusions[r], FALSE)]
       /\ durable = [r \in DOMAIN k.locks |-> IF r \in k.exported THEN Exported ELSE {}]
       /\ cmd = [x \in k.commands |-> Waiting]
  /\ attempts = <<>>
  /\ outputs = [d \in Dirs |-> {}]
  /\ record = [r \in Recorded |-> 0]
  /\ told = {} /\ raced = {}

\* External: GitHub runs the workflow of an export, or runs it again.
RunAttempt ==
  /\ "workflow" \in durable[hub.committed]
  /\ Len(attempts) < MaxAttempts
  /\ \E way \in hub.ways : attempts' = Append(attempts, Attempt(flow, lock[hub.committed], hub, way))
  /\ UNCHANGED <<fixed, keptFiles, cmd, told, raced>>

\* ------------------------------------------------------------ litci export
Turn(x, locals) == cmd' = [cmd EXCEPT ![x] = locals]
At(x, stage) == Turn(x, [cmd[x] EXCEPT !.at = stage])
Report(x, what) ==
  Turn(x, Waiting) /\ told' = told \cup {[what |-> what, run |-> cmd[x].run, dir |-> cmd[x].dir]}
End(x) == Turn(x, Waiting) /\ UNCHANGED told
Refusal(r) ==
  CASE lock[r].dirty -> "dirty"
    [] \E j \in Range(evidence_jobs(flow)) : j.id = "greenlit_confirmation" \/ j.name = Reserved -> "reserved"
    [] pin_workflow_fails(flow) -> "mutable"
    [] ~matches_lock(Evidence(flow, lock[r]), lock[r]) -> "mismatch"
    [] OTHER -> "none"
StartExport(x, r, d) ==
  /\ cmd[x] = Waiting
  /\ IF Refusal(r) = "none"
       THEN Turn(x, [Waiting EXCEPT !.at = "output", !.run = r, !.dir = d]) /\ UNCHANGED told
       ELSE told' = told \cup {[what |-> Refusal(r), run |-> r, dir |-> "none"]} /\ UNCHANGED cmd
  /\ UNCHANGED <<fixed, attempts, keptFiles, raced>>

\* create_clean_export_dir: that nothing is there is checked first.
CheckOutput(x) ==
  /\ cmd[x].at = "output"
  /\ IF outputs[cmd[x].dir] # {} THEN End(x) ELSE At(x, "mkOutput") /\ UNCHANGED told
  /\ raced' = raced \cup {d \in Dirs : /\ d = cmd[x].dir /\ outputs[d] = {}
                                   /\ \E y \in DOMAIN cmd : cmd[y].at = "mkOutput" /\ cmd[y].dir = d}
  /\ UNCHANGED <<fixed, attempts, keptFiles>>
Holding(held, kind, r) == {f \in held : f.kind # kind} \cup {[kind |-> kind, run |-> r]}
PutOutput(x, stage, kind, next) ==
  /\ cmd[x].at = stage
  /\ outputs' = [outputs EXCEPT ![cmd[x].dir] = Holding(@, kind, IF kind = "dir" THEN 0 ELSE cmd[x].run)]
  /\ At(x, next)
  /\ UNCHANGED <<fixed, attempts, durable, result, record, told, raced>>
MakeOutput(x) == PutOutput(x, "mkOutput", "dir", "outWorkflow")
WriteOutputWorkflow(x) == PutOutput(x, "outWorkflow", "workflow", "outEvidence")
WriteOutputEvidence(x) == PutOutput(x, "outEvidence", "evidence", "durable")
CheckDurable(x) ==
  /\ cmd[x].at = "durable"
  /\ IF durable[cmd[x].run] # {} THEN End(x) ELSE At(x, "mkDurable") /\ UNCHANGED told
  /\ UNCHANGED <<fixed, attempts, keptFiles, raced>>
PutDurable(x, stage, kind) ==
  /\ cmd[x].at = stage
  /\ durable' = [durable EXCEPT ![cmd[x].run] = @ \cup {kind}]
  /\ UNCHANGED <<fixed, attempts, outputs, result, record, raced>>
MakeDurable(x) == PutDurable(x, "mkDurable", "dir") /\ At(x, "durWorkflow") /\ UNCHANGED told
WriteDurableWorkflow(x) == PutDurable(x, "durWorkflow", "workflow") /\ At(x, "durEvidence") /\ UNCHANGED told
WriteDurableEvidence(x) == PutDurable(x, "durEvidence", "evidence") /\ At(x, "manifest") /\ UNCHANGED told
WriteManifest(x) == PutDurable(x, "manifest", "manifest") /\ Report(x, "exported")

\* ------------------------------------------------------------ litci confirm
\* Every expected step is the first of its name behind the one before.
StepsPass(expected, steps) ==
  \E g \in [DOMAIN expected -> DOMAIN steps] : \A k \in DOMAIN expected :
    LET behind == {i \in DOMAIN steps : steps[i].name = expected[k] /\ \A m \in DOMAIN expected : m < k => g[m] < i}
    IN  g[k] \in behind /\ (\A i \in behind : g[k] <= i) /\ steps[g[k]].conclusion = "success"
FirstPasses(i, among, jobs) == i \in among /\ (\A m \in among : i <= m) /\ jobs[i].conclusion = "success"
\* Every expected job is the first of its name that no earlier one has taken,
\* and the evidence job is the first of its name that is left.
MutVerifyJobs(expected, remote) ==   \* one job may stand for two
  /\ remote.total <= Len(remote.jobs)
  /\ \A k \in DOMAIN expected : \E i \in DOMAIN remote.jobs :
       /\ FirstPasses(i, {m \in DOMAIN remote.jobs : remote.jobs[m].name = expected[k].name}, remote.jobs)
       /\ StepsPass(expected[k].steps, remote.jobs[i].steps)
verify_jobs(expected, remote) ==
  LET Named(name, used) == {i \in DOMAIN remote.jobs \ used : remote.jobs[i].name = name} IN
  /\ remote.total <= Len(remote.jobs)
  /\ \E f \in [DOMAIN expected -> DOMAIN remote.jobs] :
       /\ \A k \in DOMAIN expected :
            /\ FirstPasses(f[k], Named(expected[k].name, {f[m] : m \in {m \in DOMAIN expected : m < k}}), remote.jobs)
            /\ StepsPass(expected[k].steps, remote.jobs[f[k]].steps)
       /\ \E i \in DOMAIN remote.jobs :
            FirstPasses(i, Named(Reserved, {f[k] : k \in DOMAIN expected}), remote.jobs)

StartConfirm(x, r) ==
  /\ cmd[x] = Waiting
  /\ IF "evidence" \in durable[r] /\ matches_lock(Evidence(flow, lock[r]), lock[r])
       THEN Turn(x, [Waiting EXCEPT !.at = "run", !.run = r, !.local = result[r].conclusion]) /\ UNCHANGED told
       ELSE told' = told \cup {[what |-> "noEvidence", run |-> r, dir |-> "none"]} /\ UNCHANGED cmd
  /\ UNCHANGED <<fixed, attempts, keptFiles, raced>>
\* One request and what is required of its answer.
Request(x, stage, required, next) ==
  /\ cmd[x].at = stage /\ attempts # <<>>
  /\ IF required THEN Turn(x, next) ELSE Turn(x, Waiting)
  /\ UNCHANGED <<fixed, attempts, keptFiles, told, raced>>
Now == attempts[Len(attempts)]
FetchRun(x) ==
  LET e == Evidence(flow, lock[cmd[x].run]) IN
  Request(x, "run", Now.conclusion = "success" /\ hub.commit = e.commit /\ hub.event = e.event /\ hub.path = e.path,
          [cmd[x] EXCEPT !.at = "contents"])
\* exported_semantic_prefix: what is before the marker is what was exported.
FetchWorkflow(x) ==
  Request(x, "contents", hub.text.marker /\ hub.text.semantic = Evidence(flow, lock[cmd[x].run]).workflow,
          [cmd[x] EXCEPT !.at = "jobs"])
FetchJobs(x) == Request(x, "jobs", verify_jobs(evidence_jobs(flow), Now), [cmd[x] EXCEPT !.at = "artifacts"])
unique_evidence_artifact(artifacts) ==
  \E i \in DOMAIN artifacts : \A m \in DOMAIN artifacts : ~artifacts[m].expired <=> m = i
FetchArtifacts(x) ==
  Request(x, "artifacts", unique_evidence_artifact(Now.artifacts),
          [cmd[x] EXCEPT !.at = "archive", !.artifact = Len(attempts)])
\* The digest of the archive, its one member and the evidence in it; then
\* the classification, which may leave the run as it is.
FetchArchive(x) ==
  LET a == attempts[cmd[x].artifact].artifacts[1] IN
  Request(x, "archive", /\ a.intact /\ a.content = Evidence(flow, lock[cmd[x].run])
                        /\ Classified(lock[cmd[x].run], cmd[x].local, TRUE).assurance = "github",
          [cmd[x] EXCEPT !.at = "result"])
WriteResult(x) ==
  /\ cmd[x].at = "result"
  /\ result' = [result EXCEPT ![cmd[x].run] = Classified(lock[cmd[x].run], cmd[x].local, TRUE)]
  /\ At(x, "record")
  /\ UNCHANGED <<fixed, attempts, outputs, durable, record, told, raced>>
WriteRecord(x) ==
  /\ cmd[x].at = "record"
  /\ record' = [record EXCEPT ![cmd[x].run] = cmd[x].artifact]
  /\ End(x)
  /\ UNCHANGED <<fixed, attempts, outputs, durable, result, raced>>

\* A request or a write fails, or the process is killed.
Abort(x) ==
  /\ cmd[x] # Waiting
  /\ Turn(x, Waiting)
  /\ UNCHANGED <<fixed, attempts, keptFiles, told, raced>>

ConfirmNext ==
  \/ RunAttempt
  \/ \E x \in DOMAIN cmd :
       \/ \E r \in Recorded : StartConfirm(x, r) \/ \E d \in Dirs : StartExport(x, r, d)
       \/ CheckOutput(x) \/ MakeOutput(x) \/ WriteOutputWorkflow(x) \/ WriteOutputEvidence(x)
       \/ CheckDurable(x) \/ MakeDurable(x) \/ WriteDurableWorkflow(x) \/ WriteDurableEvidence(x) \/ WriteManifest(x)
       \/ FetchRun(x) \/ FetchWorkflow(x) \/ FetchJobs(x) \/ FetchArtifacts(x) \/ FetchArchive(x)
       \/ WriteResult(x) \/ WriteRecord(x) \/ Abort(x)
ConfirmSpec == ConfirmInit /\ [][ConfirmNext]_confirmVars

\* ------------------------------------------------------------ properties
\* A locked job passed as this job of GitHub, with its steps in their order.
PassedAs(e, j) ==
  /\ e.name = j.name /\ j.conclusion = "success"
  /\ \E g \in [DOMAIN e.steps -> DOMAIN j.steps] : \A a, b \in DOMAIN e.steps :
       /\ a < b => g[a] < g[b]
       /\ j.steps[g[a]].name = e.steps[a] /\ j.steps[g[a]].conclusion = "success"
\* Whatever GitHub runs again between two requests and wherever a command is
\* killed, a local result is raised to github-confirmed only if the run was
\* clean, hermetic, supported and passed, GitHub ran the locked commit and event
\* with every locked input and the exported text, and in one attempt every
\* locked job passed as a job of its own (confirm, verify_jobs, append_evidence_job,
\* classify).
ConfirmationIsEarned ==
  \A r \in Recorded : result[r].assurance = "github" =>
    /\ ~lock[r].dirty /\ lock[r].hermetic /\ lock[r].support = "supported" /\ result[r].conclusion = "passed"
    /\ hub.commit = lock[r].commit /\ hub.event = lock[r].event /\ lock[r].inputs \subseteq hub.inputs
    /\ hub.text.semantic = Pinned(flow)
    /\ \E n \in DOMAIN attempts : \E f \in Injection(DOMAIN evidence_jobs(flow), DOMAIN attempts[n].jobs) :
         \A k \in DOMAIN f : PassedAs(evidence_jobs(flow)[k], attempts[n].jobs[f[k]])
\* github-confirmation.json exists only beside a confirmed result and names
\* an artifact with the evidence of that run, whichever of the two writes a
\* kill follows and whichever confirmation wrote last (confirm).
RecordFollowsResult ==
  \A r \in Recorded : record[r] # 0 =>
    /\ result[r].assurance = "github"
    /\ attempts[record[r]].artifacts[1].content = Evidence(flow, lock[r])
\* An export that was reported stays whole: its directory and the run's
\* github-export hold its files, whatever other exports do or leave behind,
\* unless two exports found the directory free at once (export,
\* create_clean_export_dir).
ExportStaysWhole ==
  \A t \in told : t.what = "exported" =>
    /\ durable[t.run] = Exported
    /\ t.dir \notin raced => \A kind \in {"workflow", "evidence"} : [kind |-> kind, run |-> t.run] \in outputs[t.dir]
\* A result is confirmed only by a GitHub run of the same work, the record of it
\* is beside a confirmed result, and a reported export stays whole.
ConfirmationIsExact == ConfirmationIsEarned /\ RecordFollowsResult /\ ExportStaysWhole
=============================================================================
