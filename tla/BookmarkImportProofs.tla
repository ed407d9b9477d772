------------------------ MODULE BookmarkImportProofs ------------------------
(***************************************************************************)
(* What an import promises its reader, for any number of uploads, tabs,    *)
(* files and faults: the preview shows the whole file, the confirmation    *)
(* applies the choices its tab saw and no others, makes as many sites as   *)
(* the preview announced, and loses no bookmark; and what it promises the  *)
(* operator: the account's files stay within its quota.                    *)
(*                                                                         *)
(* The promises of the preview rest on one invariant. A job's version is   *)
(* the number of steps it has made, so a version read once stands for a    *)
(* state; the task of a job that is parsing is alone with its run; and     *)
(* once a run is complete only its choices change, each change with a new  *)
(* version. The quota rests on another, DiskInv, that follows the bytes of *)
(* the upload in progress to the file they become; it and the number of    *)
(* sites need a few facts about sums over finite sets, which come between. *)
(***************************************************************************)
EXTENDS BookmarkImport, FiniteSetTheorems, TLAPS

JobState == {"none", "receiving", "queued_parse", "parsing", "parse_preview_ready", "failed", "completed"}
RunState == {"none", "running", "finalizing", "complete", "failed"}
TaskAt == {"none", "begin", "append", "publish", "fail", "lost"}
Choice == {"unresolved", "merge_to_homepage", "keep_originals"}

JobRow == [state : JobState, ver : Nat, source : Content \cup {None}, stored : BOOLEAN]
ChoiceRow == [ver : Nat, of : [Site -> Choice]]

UpShape ==
  /\ up = [at |-> up.at, key |-> up.key, file |-> up.file, got |-> up.got, used |-> up.used,
           saw |-> up.saw, ver |-> up.ver, fresh |-> up.fresh]
  /\ up.ver \in Nat
  /\ up.at # "idle" => up.key \in Key /\ up.file \in Content

Shape ==
  /\ UpShape
  /\ job \in [Key -> JobRow]
  /\ run \in [Key -> [state : RunState, chunks : Nat, cands : SUBSET Url]]
  /\ task \in [Key -> [at : TaskAt, ver : Nat]]
  /\ preview = [k \in Key |-> preview[k]]
  /\ dec \in [Key -> ChoiceRow]
  /\ tab \in [Tab -> [at : {"idle", "applying"}, key : Key \cup {None}, ver : Nat, dec : ChoiceRow]]

\* The upload in progress: a job is queued only when its file is in place, and
\* a parse is started only for the version the queueing made.
UpOK ==
  /\ up.at = "queue" => job[up.key].stored
  /\ up.at = "reply" /\ up.fresh => up.ver = 2

\* The version of a job counts its states.
JobOK(k) ==
  /\ job[k].state = "none" => job[k].ver = 0
  /\ job[k].state = "receiving" => job[k].ver = 1
  /\ job[k].state = "queued_parse" => job[k].ver = 2
  /\ job[k].state = "parsing" => job[k].ver = 3
  /\ job[k].state \in {"parse_preview_ready", "failed"} => job[k].ver = 4
  /\ job[k].state = "completed" => job[k].ver = 5
  /\ job[k].state # "none" => job[k].source \in Content
  /\ job[k].state \notin {"none", "receiving"} => job[k].stored

\* A task that is past its start works on a run that is open.
TaskOK(k) ==
  /\ task[k].at = "begin" => task[k].ver = 2
  /\ task[k].at \in {"append", "publish", "fail"} => run[k].state \in {"running", "finalizing"}

\* A run holds the chunks it has checkpointed, and its preview shows the run.
RunOK(k) ==
  /\ run[k].state \in {"running", "finalizing"} => job[k].state = "parsing"
  /\ run[k].state \in {"running", "finalizing", "complete"} =>
       /\ run[k].chunks <= Len(Parts(k))
       /\ run[k].cands = UNION {Parts(k)[i] : i \in 1 .. run[k].chunks}
  /\ run[k].state = "complete" =>
       /\ job[k].state \in {"parse_preview_ready", "completed"}
       /\ run[k].chunks = Len(Parts(k))
       /\ preview[k].cands = run[k].cands
       /\ preview[k].skip \subseteq preview[k].seen
       /\ preview[k].homes = {s \in Site : HomeOf(s) \in preview[k].seen}

\* What a tab holds is a version of the choices, and the same version is the
\* same choices; a confirmation under way was asked for with all of them made.
TabOK(t) ==
  LET k == tab[t].key IN
  /\ tab[t].at = "applying" => k \in Key
  /\ k \in Key =>
       /\ run[k].state = "complete"
       /\ tab[t].dec.ver <= dec[k].ver
       /\ tab[t].dec.ver = dec[k].ver => tab[t].dec = dec[k]
       /\ tab[t].at = "applying" => \A s \in Groups(preview[k]) : tab[t].dec.of[s] # "unresolved"

ImportInv ==
  /\ Shape /\ UpOK
  /\ \A k \in Key : JobOK(k) /\ TaskOK(k) /\ RunOK(k)
  /\ \A t \in Tab : TabOK(t)

\* No job is completed by a step, and none that was is touched.
Unapplied ==
  \A k \in Key : job[k].state = "completed" \/ job'[k].state = "completed" => job'[k] = job[k]

LEMMA UnappliedIsFine ==
  ASSUME Unapplied
  PROVE  \A k \in Key : AppliedStep(k) /\ KeptStep(k)
BY DEF Unapplied, AppliedStep, KeptStep, Completes, Previews

-----------------------------------------------------------------------------
LEMMA InitImport == Init => ImportInv
<1> SUFFICES ASSUME Init PROVE ImportInv
  OBVIOUS
<1>1. Shape
  <2>1. UpShape
    BY DEF Init, UpShape, Idle
  <2>2. job \in [Key -> JobRow]
    BY DEF Init, JobRow, NoJob, JobState
  <2>3. /\ run \in [Key -> [state : RunState, chunks : Nat, cands : SUBSET Url]]
        /\ task \in [Key -> [at : TaskAt, ver : Nat]]
    BY DEF Init, NoRun, NoTask, RunState, TaskAt
  <2>4. preview = [k \in Key |-> preview[k]]
    BY DEF Init
  <2>5. NoDec \in ChoiceRow
    BY DEF NoDec, ChoiceRow, Choice
  <2>6. NoTab \in [at : {"idle", "applying"}, key : Key \cup {None}, ver : Nat, dec : ChoiceRow]
    BY <2>5 DEF NoTab
  <2>7. dec \in [Key -> ChoiceRow]
    BY <2>5 DEF Init
  <2>8. tab \in [Tab -> [at : {"idle", "applying"}, key : Key \cup {None}, ver : Nat, dec : ChoiceRow]]
    BY <2>6 DEF Init
  <2> QED BY <2>1, <2>2, <2>3, <2>4, <2>7, <2>8 DEF Shape
<1>2. UpOK /\ \A k \in Key : JobOK(k) /\ TaskOK(k) /\ RunOK(k)
  BY DEF Init, UpOK, JobOK, TaskOK, RunOK, Idle, NoJob, NoRun, NoTask
<1>3. \A t \in Tab : TabOK(t)
  BY NoneAssumption DEF Init, TabOK, NoTab
<1> QED BY <1>1, <1>2, <1>3 DEF ImportInv

\* Steps of the upload that change no job.
LEMMA UploadMoves ==
  ASSUME ImportInv, UNCHANGED <<job, run, task, preview, dec, tab>>, UpShape', UpOK'
  PROVE  ImportInv' /\ Unapplied
<1>1. Shape'
  BY DEF ImportInv, Shape
<1>2. \A k \in Key : (JobOK(k) /\ TaskOK(k) /\ RunOK(k))'
  BY DEF ImportInv, JobOK, TaskOK, RunOK, Parts
<1>3. \A t \in Tab : TabOK(t)'
  BY DEF ImportInv, TabOK, Groups, Members
<1> QED BY <1>1, <1>2, <1>3 DEF ImportInv, Unapplied

LEMMA Leaves ==
  ASSUME ImportInv, UNCHANGED <<job, run, task, preview, dec, tab>>, Leave
  PROVE  ImportInv' /\ Unapplied
<1>1. UpShape' /\ UpOK'
  BY DEF Leave, Idle, UpShape, UpOK
<1> QED BY <1>1, UploadMoves

\* Rows g are the rows f, but for the state and the version of k.
Moves(f, g, k, s, v) ==
  /\ g \in [Key -> JobRow]
  /\ g[k].state = s /\ g[k].ver = v /\ g[k].source = f[k].source /\ g[k].stored = f[k].stored
  /\ \A j \in Key \ {k} : g[j] = f[j]

LEMMA RowMoves ==
  ASSUME NEW f \in [Key -> JobRow], NEW k \in Key, NEW s \in JobState, NEW v \in Nat
  PROVE  Moves(f, [f EXCEPT ![k].state = s, ![k].ver = v], k, s, v)
<1> DEFINE m == [f EXCEPT ![k].state = s]
<1>1. Moves(f, m, k, s, f[k].ver)
  BY DEF Moves, JobRow
<1>2. [f EXCEPT ![k].state = s, ![k].ver = v] = [m EXCEPT ![k].ver = v]
  OBVIOUS
<1> HIDE DEF m
<1>3. Moves(m, [m EXCEPT ![k].ver = v], k, s, v)
  BY <1>1 DEF Moves, JobRow
<1>4. Moves(f, [m EXCEPT ![k].ver = v], k, s, v)
  BY <1>1, <1>3 DEF Moves
<1> QED BY <1>2, <1>4

-----------------------------------------------------------------------------
(* The upload. *)

LEMMA ReserveInv ==
  ASSUME ImportInv, NEW k \in Key, NEW c \in Content, Reserve(k, c)
  PROVE  ImportInv' /\ Unapplied
<1>1. UpShape' /\ UpOK'
  BY DEF Reserve, Idle, UpShape, UpOK
<1> QED BY <1>1, UploadMoves DEF Reserve, stages

LEMMA MeasureInv == ASSUME ImportInv, Measure PROVE ImportInv' /\ Unapplied
<1>1. UNCHANGED <<job, run, task, preview, dec, tab>>
  BY DEF Measure, stages
<1>2. ASSUME up' = [up EXCEPT !.at = "stream", !.used = SourceBytes] PROVE ImportInv' /\ Unapplied
  <2>1. UpShape' /\ UpOK'
    BY <1>2 DEF Measure, UpShape, UpOK, ImportInv, Shape
  <2> QED BY <1>1, <2>1, UploadMoves
<1> QED BY <1>1, <1>2, Leaves DEF Measure

LEMMA StreamInv == ASSUME ImportInv, Stream PROVE ImportInv' /\ Unapplied
<1>1. UNCHANGED <<job, run, task, preview, dec, tab>>
  BY DEF Stream, stages
<1>2. ASSUME up' = [up EXCEPT !.got = @ + 1] PROVE ImportInv' /\ Unapplied
  <2>1. UpShape' /\ UpOK'
    BY <1>2 DEF Stream, UpShape, UpOK, ImportInv, Shape
  <2> QED BY <1>1, <2>1, UploadMoves
<1> QED BY <1>1, <1>2, Leaves DEF Stream

LEMMA UploadFailsInv == ASSUME ImportInv, UploadFails PROVE ImportInv' /\ Unapplied
BY Leaves DEF UploadFails, stages

\* Steps of the upload that change the row of its key, and that only before a
\* parse is open or by putting the file in place.
LEMMA UploadWrites ==
  ASSUME ImportInv, NEW k \in Key, UNCHANGED <<run, task, preview, dec, tab>>,
         UpShape', UpOK', job' \in [Key -> JobRow], JobOK(k)',
         \A j \in Key \ {k} : job'[j] = job[j],
         \/ job[k].state \in {"none", "receiving"} /\ job'[k].state \in {"receiving", "queued_parse"}
         \/ job'[k].state = job[k].state /\ job'[k].ver = job[k].ver /\ job'[k].source = job[k].source,
         job[k].state = "completed" => job'[k] = job[k]
  PROVE  ImportInv' /\ Unapplied
<1>1. Shape'
  BY DEF ImportInv, Shape
<1>2. \A j \in Key : (JobOK(j) /\ TaskOK(j) /\ RunOK(j))'
  BY DEF ImportInv, JobOK, TaskOK, RunOK, Parts
<1>3. \A t \in Tab : TabOK(t)'
  BY DEF ImportInv, TabOK, Groups, Members
<1>4. Unapplied
  BY DEF Unapplied
<1> QED BY <1>1, <1>2, <1>3, <1>4 DEF ImportInv

LEMMA CreateImportInv == ASSUME ImportInv, CreateImport PROVE ImportInv' /\ Unapplied
<1>1. up.key \in Key /\ up.file \in Content /\ UNCHANGED <<run, task, preview, dec, tab>>
  BY DEF CreateImport, ImportInv, Shape, UpShape, stages
<1>2. PICK k \in Key : k = up.key
  BY <1>1
<1>3. CASE /\ job[k].state = "none"
           /\ job' = [job EXCEPT ![k] = [state |-> "receiving", ver |-> 1, source |-> up.file,
                                         stored |-> FALSE]]
           /\ up' = [up EXCEPT !.at = "publish", !.saw = "receiving", !.ver = 1, !.fresh = TRUE]
  <2>1. /\ job' \in [Key -> JobRow] /\ JobOK(k)' /\ job'[k].state = "receiving"
        /\ \A j \in Key \ {k} : job'[j] = job[j]
    BY <1>1, <1>3 DEF ImportInv, Shape, JobRow, JobOK, JobState
  <2>2. UpShape' /\ UpOK'
    BY <1>1, <1>3 DEF CreateImport, ImportInv, Shape, UpShape, UpOK
  <2> QED BY <1>1, <1>3, <2>1, <2>2, UploadWrites
<1>4. CASE up' = [up EXCEPT !.at = "publish", !.saw = job[k].state, !.ver = job[k].ver] /\ job' = job
  <2>1. UpShape' /\ UpOK'
    BY <1>1, <1>4 DEF CreateImport, ImportInv, Shape, UpShape, UpOK, JobRow
  <2> QED BY <1>1, <1>4, <2>1, UploadMoves
<1>5. CASE Leave /\ job' = job
  BY <1>1, <1>5, Leaves
<1> QED BY <1>2, <1>3, <1>4, <1>5 DEF CreateImport

LEMMA PublishUploadInv == ASSUME ImportInv, PublishUpload PROVE ImportInv' /\ Unapplied
<1>1. up.key \in Key /\ UNCHANGED <<run, task, preview, dec, tab>>
  BY DEF PublishUpload, ImportInv, Shape, UpShape, stages
<1>2. PICK k \in Key : k = up.key
  BY <1>1
<1>3. job' = [job EXCEPT ![k].stored = TRUE]
  BY <1>2 DEF PublishUpload
<1>4. job \in [Key -> JobRow]
  BY DEF ImportInv, Shape
<1>5. /\ job' \in [Key -> JobRow] /\ \A j \in Key \ {k} : job'[j] = job[j]
      /\ job'[k].state = job[k].state /\ job'[k].ver = job[k].ver /\ job'[k].source = job[k].source
      /\ job'[k].stored /\ (job[k].stored => job'[k] = job[k])
  BY <1>3, <1>4 DEF JobRow
<1>6. JobOK(k)' /\ (job[k].state = "completed" => job'[k] = job[k])
  BY <1>5 DEF ImportInv, JobOK
<1>7. UpShape'
  BY DEF PublishUpload, ImportInv, Shape, UpShape
<1>8. UpOK'
  BY <1>2, <1>5 DEF PublishUpload, ImportInv, Shape, UpShape, UpOK
<1> QED BY <1>1, <1>5, <1>6, <1>7, <1>8, UploadWrites

LEMMA QueueImportInv == ASSUME ImportInv, QueueImport PROVE ImportInv' /\ Unapplied
<1>1. up.key \in Key /\ UNCHANGED <<run, task, preview, dec, tab>>
  BY DEF QueueImport, ImportInv, Shape, UpShape, stages
<1>2. PICK k \in Key : k = up.key
  BY <1>1
<1>3. /\ job[k].state = "receiving" /\ job[k].stored /\ job[k].ver = 1 /\ up.ver = 1
      /\ job[k].source \in Content
  BY <1>2 DEF QueueImport, ImportInv, UpOK, JobOK
<1>4. Moves(job, job', k, "queued_parse", 2)
  <2>1. job' = [job EXCEPT ![k].state = "queued_parse", ![k].ver = 2]
    BY <1>2, <1>3 DEF QueueImport
  <2> QED BY <2>1, RowMoves DEF ImportInv, Shape, JobState
<1>5. JobOK(k)'
  BY <1>3, <1>4 DEF Moves, JobOK
<1>6. UpShape' /\ UpOK'
  <2>1. up' = [up EXCEPT !.at = "reply", !.ver = 2, !.saw = "queued_parse"]
    BY <1>3 DEF QueueImport
  <2>2. up.at = "queue"
    BY DEF QueueImport
  <2> QED BY <1>1, <2>1, <2>2 DEF ImportInv, Shape, UpShape, UpOK
<1> QED BY <1>1, <1>3, <1>4, <1>5, <1>6, UploadWrites DEF Moves

LEMMA ReplyInv == ASSUME ImportInv, Reply PROVE ImportInv' /\ Unapplied
<1>1. UNCHANGED <<job, run, preview, dec, tab>> /\ UpShape' /\ UpOK' /\ up.key \in Key /\ up.ver \in Nat
  BY DEF Reply, Leave, Idle, UpShape, UpOK, ImportInv, Shape
<1>2. CASE task' = task
  BY <1>1, <1>2, UploadMoves
<1>3. CASE up.fresh /\ task' = [task EXCEPT ![up.key] = [at |-> "begin", ver |-> up.ver]]
  <2>1. Shape'
    BY <1>1, <1>3 DEF ImportInv, Shape, TaskAt
  <2>2. \A k \in Key : (JobOK(k) /\ TaskOK(k) /\ RunOK(k))'
    BY <1>1, <1>3 DEF Reply, ImportInv, Shape, UpOK, JobOK, TaskOK, RunOK, Parts
  <2>3. \A t \in Tab : TabOK(t)'
    BY <1>1 DEF ImportInv, TabOK, Groups, Members
  <2> QED BY <1>1, <2>1, <2>2, <2>3 DEF ImportInv, Unapplied
<1> QED BY <1>2, <1>3 DEF Reply

-----------------------------------------------------------------------------
(* The parse task. *)

\* A step of the task of k, whose run is not complete: no tab looks at k.
LEMMA ParseWrites ==
  ASSUME ImportInv, NEW k \in Key, UNCHANGED <<up, tab>>, Shape',
         \A j \in Key \ {k} : /\ job'[j] = job[j] /\ run'[j] = run[j] /\ task'[j] = task[j]
                              /\ preview'[j] = preview[j] /\ dec'[j] = dec[j],
         JobOK(k)', TaskOK(k)', RunOK(k)', job[k].stored => job'[k].stored,
         run[k].state # "complete", job[k].state # "completed", job'[k].state # "completed"
  PROVE  ImportInv' /\ Unapplied
<1>1. UpOK'
  BY DEF ImportInv, Shape, UpShape, UpOK
<1>2. \A j \in Key : (JobOK(j) /\ TaskOK(j) /\ RunOK(j))'
  BY DEF ImportInv, JobOK, TaskOK, RunOK, Parts
<1>3. \A t \in Tab : TabOK(t)'
  BY DEF ImportInv, TabOK, Groups, Members
<1>4. Unapplied
  BY DEF Unapplied
<1> QED BY <1>1, <1>2, <1>3, <1>4 DEF ImportInv

\* Where the task stands is what it knows of its run.
LEMMA TaskKnows ==
  ASSUME ImportInv, NEW k \in Key
  PROVE  /\ task[k].at = "begin" /\ job[k].ver = task[k].ver =>
              job[k].state = "queued_parse" /\ run[k].state \notin {"running", "finalizing", "complete"}
         /\ task[k].at \in {"append", "publish", "fail"} =>
              run[k].state \in {"running", "finalizing"} /\ job[k].state = "parsing" /\ job[k].ver = 3
         /\ job[k].state \in {"queued_parse", "parsing"} => job[k].stored /\ job[k].source \in Content
<1>1. JobOK(k) /\ TaskOK(k) /\ RunOK(k) /\ job[k].state \in JobState
  BY DEF ImportInv, Shape, JobRow
<1>2. ASSUME task[k].at = "begin", job[k].ver = task[k].ver PROVE job[k].state = "queued_parse"
  BY <1>1, <1>2 DEF JobOK, TaskOK, JobState
<1> QED BY <1>1, <1>2 DEF JobOK, TaskOK, RunOK

LEMMA BeginParseInv == ASSUME ImportInv, NEW k \in Key, BeginParse(k) PROVE ImportInv' /\ Unapplied
<1>1. /\ job[k].state = "queued_parse" /\ job[k].ver = 2 /\ task[k].ver = 2
      /\ run[k].state # "complete" /\ job[k].stored /\ job[k].source \in Content
  BY TaskKnows DEF BeginParse, ImportInv, TaskOK
<1>2. Moves(job, job', k, "parsing", 3)
  <2>1. job' = [job EXCEPT ![k].state = "parsing", ![k].ver = 3]
    BY <1>1 DEF BeginParse
  <2> QED BY <2>1, RowMoves DEF ImportInv, Shape, JobState
<1>3. run' = [run EXCEPT ![k] = [state |-> "running", chunks |-> 0, cands |-> {}]]
  <2>1. [NoRun EXCEPT !.state = "running"] = [state |-> "running", chunks |-> 0, cands |-> {}]
    BY DEF NoRun
  <2> QED BY <2>1 DEF BeginParse
<1>4. task' = [task EXCEPT ![k] = [at |-> "append", ver |-> 3]] /\ UNCHANGED <<up, tab, preview, dec>>
  BY <1>1 DEF BeginParse
<1>5. Shape'
  BY <1>2, <1>3, <1>4 DEF ImportInv, Shape, UpShape, Moves, RunState, TaskAt
<1>6. JobOK(k)' /\ TaskOK(k)'
  BY <1>1, <1>2, <1>3, <1>4 DEF Moves, JobOK, TaskOK, ImportInv, Shape
<1>7. RunOK(k)'
  <2>1. run'[k] = [state |-> "running", chunks |-> 0, cands |-> {}]
    BY <1>3 DEF ImportInv, Shape
  <2>2. Len(Parts(k)') \in Nat
    BY <1>1, <1>2, ContentAssumption DEF Moves, Parts
  <2> QED BY <1>2, <2>1, <2>2 DEF Moves, RunOK
<1> QED BY <1>1, <1>2, <1>3, <1>4, <1>5, <1>6, <1>7, ParseWrites DEF Moves, ImportInv, Shape

\* One more chunk in the union of the chunks.
LEMMA UnionWith ==
  ASSUME NEW f, NEW I, NEW n
  PROVE  UNION {f[i] : i \in I \cup {n}} = (UNION {f[i] : i \in I}) \cup f[n]
<1> DEFINE L == UNION {f[i] : i \in I \cup {n}}
           S == UNION {f[i] : i \in I}
<1>1. ASSUME NEW x, x \in L PROVE x \in S \/ x \in f[n]
  <2>1. PICK i \in I \cup {n} : x \in f[i]
    BY <1>1
  <2> QED BY <2>1
<1>2. ASSUME NEW x, x \in S PROVE x \in L
  <2>1. PICK i \in I : x \in f[i]
    BY <1>2
  <2>2. f[i] \in {f[j] : j \in I \cup {n}}
    OBVIOUS
  <2> QED BY <2>1, <2>2
<1>3. ASSUME NEW x, x \in f[n] PROVE x \in L
  <2>2. f[n] \in {f[j] : j \in I \cup {n}}
    OBVIOUS
  <2> QED BY <1>3, <2>2
<1>4. L = S \cup f[n]
  <2> HIDE DEF L, S
  <2> QED BY <1>1, <1>2, <1>3
<1> QED BY <1>4

LEMMA AppendChunkInv == ASSUME ImportInv, NEW k \in Key, AppendChunk(k) PROVE ImportInv' /\ Unapplied
<1> DEFINE n == run[k].chunks + 1
           C == run[k].cands \cup Parts(k)[n]
<1>1. /\ job[k].state = "parsing" /\ run[k].state = "running" /\ task[k].at = "append"
      /\ job[k].source \in Content /\ UNCHANGED <<up, tab, job, task, preview, dec>>
  BY TaskKnows DEF AppendChunk
<1>2. /\ Parts(k) \in Seq(SUBSET Url) /\ run[k].chunks \in Nat /\ run[k].cands \subseteq Url
      /\ n \in Nat \ {0} /\ n <= Len(Parts(k)) /\ C \subseteq Url
  <2>1. Parts(k) \in Seq(SUBSET Url) /\ run[k].chunks \in Nat /\ run[k].cands \subseteq Url
    BY <1>1, ContentAssumption DEF Parts, ImportInv, Shape
  <2>2. n <= Len(Parts(k))
    BY DEF AppendChunk
  <2> QED BY <2>1, <2>2
<1>3. run'[k] = [state |-> "running", chunks |-> n, cands |-> C] /\ \A j \in Key \ {k} : run'[j] = run[j]
  <2>1. run' = [run EXCEPT ![k].chunks = n, ![k].cands = C]
    BY DEF AppendChunk, Staged
  <2> HIDE DEF n, C
  <2> DEFINE m == [run EXCEPT ![k].chunks = n]
  <2>2. m \in [Key -> [state : RunState, chunks : Nat, cands : SUBSET Url]]
        /\ m[k].state = "running" /\ m[k].chunks = n /\ \A j \in Key \ {k} : m[j] = run[j]
    BY ZenonT(60), <1>1, <1>2 DEF ImportInv, Shape
  <2>3. run' = [m EXCEPT ![k].cands = C]
    BY <2>1
  <2> HIDE DEF m
  <2> QED BY <2>2, <2>3
<1>4. UNION {Parts(k)[i] : i \in 1 .. n} = (UNION {Parts(k)[i] : i \in 1 .. run[k].chunks}) \cup Parts(k)[n]
  <2>1. 1 .. n = 1 .. run[k].chunks \cup {n}
    BY <1>2
  <2>2. UNION {Parts(k)[i] : i \in 1 .. run[k].chunks \cup {n}}
          = (UNION {Parts(k)[i] : i \in 1 .. run[k].chunks}) \cup Parts(k)[n]
    BY UnionWith
  <2> QED BY <2>1, <2>2
<1>5. RunOK(k)'
  BY <1>1, <1>2, <1>3, <1>4 DEF RunOK, Parts, ImportInv
<1>6. Shape'
  <2>1. DOMAIN run' = Key /\ run' = [j \in Key |-> run'[j]]
    BY DEF AppendChunk, ImportInv, Shape
  <2>2. run'[k] \in [state : RunState, chunks : Nat, cands : SUBSET Url]
    BY <1>2, <1>3 DEF RunState
  <2>3. \A j \in Key : run'[j] \in [state : RunState, chunks : Nat, cands : SUBSET Url]
    BY <1>3, <2>2 DEF ImportInv, Shape
  <2>4. run' \in [Key -> [state : RunState, chunks : Nat, cands : SUBSET Url]]
    BY <2>1, <2>3
  <2> QED BY <1>1, <2>4 DEF ImportInv, Shape, UpShape
<1>7. JobOK(k)' /\ TaskOK(k)'
  BY <1>1, <1>3 DEF JobOK, TaskOK, ImportInv
<1> QED BY <1>1, <1>3, <1>5, <1>6, <1>7, ParseWrites

\* Only the state of the run and the place of the task change.
LEMMA RunTurns ==
  ASSUME ImportInv, NEW k \in Key, NEW s \in {"running", "finalizing"}, NEW where \in {"publish", "fail", "lost"},
         UNCHANGED <<up, tab, job, preview, dec>>, run[k].state \in {"running", "finalizing"},
         run' = [run EXCEPT ![k].state = s], task' = [task EXCEPT ![k].at = where]
  PROVE  ImportInv' /\ Unapplied
<1>1. /\ run' \in [Key -> [state : RunState, chunks : Nat, cands : SUBSET Url]]
      /\ run'[k].state = s /\ run'[k].chunks = run[k].chunks /\ run'[k].cands = run[k].cands
      /\ \A j \in Key \ {k} : run'[j] = run[j]
  BY DEF ImportInv, Shape, RunState
<1>2. /\ task' \in [Key -> [at : TaskAt, ver : Nat]]
      /\ task'[k].at = where /\ \A j \in Key \ {k} : task'[j] = task[j]
  BY DEF ImportInv, Shape, TaskAt
<1>3. Shape'
  BY <1>1, <1>2 DEF ImportInv, Shape, UpShape
<1>4. JobOK(k)' /\ TaskOK(k)' /\ RunOK(k)'
  BY <1>1, <1>2 DEF ImportInv, JobOK, TaskOK, RunOK, Parts
<1>5. job[k].state = "parsing"
  BY DEF ImportInv, RunOK
<1> QED BY <1>1, <1>2, <1>3, <1>4, <1>5, ParseWrites

LEMMA SealRunInv == ASSUME ImportInv, NEW k \in Key, SealRun(k) PROVE ImportInv' /\ Unapplied
BY RunTurns DEF SealRun, Goto

LEMMA ParseErrorInv == ASSUME ImportInv, NEW k \in Key, ParseError(k) PROVE ImportInv' /\ Unapplied
<1>1. /\ run[k].state \in {"running", "finalizing"} /\ UNCHANGED <<up, tab, job, preview, dec>>
      /\ task' = [task EXCEPT ![k].at = "fail"]
  BY TaskKnows DEF ParseError, Goto
<1>2. PICK s \in {"running", "finalizing"} : run' = [run EXCEPT ![k].state = s]
  <2>1. run = [run EXCEPT ![k].state = run[k].state]
    BY DEF ImportInv, Shape
  <2> QED BY <1>1, <2>1 DEF ParseError
<1> QED BY <1>1, <1>2, RunTurns

LEMMA ParseLostInv == ASSUME ImportInv, NEW k \in Key, ParseLost(k) PROVE ImportInv' /\ Unapplied
<1>1. UNCHANGED <<up, tab, job, run, preview, dec>> /\ task' = [task EXCEPT ![k].at = "lost"]
  BY DEF ParseLost, Goto
<1>2. /\ task' \in [Key -> [at : TaskAt, ver : Nat]]
      /\ task'[k].at = "lost" /\ \A j \in Key \ {k} : task'[j] = task[j]
  BY <1>1 DEF ImportInv, Shape, TaskAt
<1>3. Shape'
  BY <1>1, <1>2 DEF ImportInv, Shape, UpShape
<1>4. UpOK' /\ \A j \in Key : (JobOK(j) /\ TaskOK(j) /\ RunOK(j))'
  BY <1>1, <1>2 DEF ImportInv, UpOK, JobOK, TaskOK, RunOK, Parts
<1>5. \A t \in Tab : TabOK(t)'
  BY <1>1 DEF ImportInv, TabOK, Groups, Members
<1> QED BY <1>1, <1>3, <1>4, <1>5 DEF ImportInv, Unapplied

LEMMA PublishPreviewInv == ASSUME ImportInv, NEW k \in Key, PublishPreview(k) PROVE ImportInv' /\ Unapplied
<1> DEFINE view == [cands |-> run[k].cands, skip |-> Matched(k),
                    homes |-> {s \in Site : HomeOf(s) \in library}, seen |-> library]
           first == [NoDec EXCEPT !.ver = 1]
<1>1. /\ job[k].state = "parsing" /\ job[k].ver = 3 /\ run[k].state = "finalizing"
      /\ job[k].stored /\ job[k].source \in Content /\ run[k].chunks = Len(Parts(k))
      /\ UNCHANGED <<up, tab>>
  BY TaskKnows DEF PublishPreview, StagingComplete
<1>2. Moves(job, job', k, "parse_preview_ready", 4)
  <2>1. job' = [job EXCEPT ![k].state = "parse_preview_ready", ![k].ver = 4]
    BY <1>1 DEF PublishPreview
  <2> QED BY <2>1, RowMoves DEF ImportInv, Shape, JobState
<1>3. /\ run' \in [Key -> [state : RunState, chunks : Nat, cands : SUBSET Url]]
      /\ run'[k].state = "complete" /\ run'[k].chunks = run[k].chunks /\ run'[k].cands = run[k].cands
      /\ \A j \in Key \ {k} : run'[j] = run[j]
  <2>1. run' = [run EXCEPT ![k].state = "complete"]
    BY DEF PublishPreview
  <2> QED BY <2>1 DEF ImportInv, Shape, RunState
<1>4. /\ task' \in [Key -> [at : TaskAt, ver : Nat]]
      /\ task'[k].at = "none" /\ \A j \in Key \ {k} : task'[j] = task[j]
  <2>1. task' = [task EXCEPT ![k].at = "none"]
    BY DEF PublishPreview, Goto
  <2> QED BY <2>1 DEF ImportInv, Shape, TaskAt
<1>5. preview' = [j \in Key |-> preview'[j]] /\ preview'[k] = view /\ \A j \in Key \ {k} : preview'[j] = preview[j]
  <2>1. preview' = [preview EXCEPT ![k] = view]
    BY DEF PublishPreview
  <2> HIDE DEF view
  <2> QED BY <2>1 DEF ImportInv, Shape
<1>6. dec' \in [Key -> ChoiceRow] /\ \A j \in Key \ {k} : dec'[j] = dec[j]
  <2>1. first \in ChoiceRow
    BY DEF NoDec, ChoiceRow, Choice
  <2>2. dec' = [dec EXCEPT ![k] = first]
    BY DEF PublishPreview
  <2> HIDE DEF first
  <2> QED BY <2>1, <2>2 DEF ImportInv, Shape
<1>7. Shape'
  BY <1>1, <1>2, <1>3, <1>4, <1>5, <1>6 DEF Moves, ImportInv, Shape, UpShape
<1>8. JobOK(k)' /\ TaskOK(k)'
  BY <1>1, <1>2, <1>4 DEF Moves, JobOK, TaskOK
<1>9. RunOK(k)'
  <2>1. run[k].cands = UNION {Parts(k)[i] : i \in 1 .. run[k].chunks} /\ run[k].chunks <= Len(Parts(k))
    BY <1>1 DEF ImportInv, RunOK
  <2>2. Parts(k)' = Parts(k)
    BY <1>2 DEF Moves, Parts
  <2>3. /\ preview'[k].cands = run[k].cands /\ preview'[k].skip \subseteq preview'[k].seen
        /\ preview'[k].homes = {s \in Site : HomeOf(s) \in preview'[k].seen}
    BY <1>5 DEF Matched
  <2> QED BY <1>1, <1>2, <1>3, <2>1, <2>2, <2>3 DEF Moves, RunOK
<1> QED BY <1>1, <1>2, <1>3, <1>4, <1>5, <1>6, <1>7, <1>8, <1>9, ParseWrites DEF Moves

LEMMA FailRunInv == ASSUME ImportInv, NEW k \in Key, FailRun(k) PROVE ImportInv' /\ Unapplied
<1>1. /\ job[k].state = "parsing" /\ job[k].ver = 3 /\ job[k].stored /\ job[k].source \in Content
      /\ run[k].state # "complete" /\ UNCHANGED <<up, tab, preview, dec>>
  BY TaskKnows DEF FailRun
<1>2. Moves(job, job', k, "failed", 4)
  <2>1. job' = [job EXCEPT ![k].state = "failed", ![k].ver = 4]
    BY <1>1 DEF FailRun
  <2> QED BY <2>1, RowMoves DEF ImportInv, Shape, JobState
<1>3. /\ run' \in [Key -> [state : RunState, chunks : Nat, cands : SUBSET Url]]
      /\ run'[k].state = "failed" /\ \A j \in Key \ {k} : run'[j] = run[j]
  <2>1. run' = [run EXCEPT ![k].state = "failed"]
    BY DEF FailRun
  <2> QED BY <2>1 DEF ImportInv, Shape, RunState
<1>4. /\ task' \in [Key -> [at : TaskAt, ver : Nat]]
      /\ task'[k].at = "none" /\ \A j \in Key \ {k} : task'[j] = task[j]
  <2>1. task' = [task EXCEPT ![k].at = "none"]
    BY DEF FailRun, Goto
  <2> QED BY <2>1 DEF ImportInv, Shape, TaskAt
<1>5. Shape'
  BY <1>1, <1>2, <1>3, <1>4 DEF Moves, ImportInv, Shape, UpShape
<1>6. JobOK(k)' /\ TaskOK(k)' /\ RunOK(k)'
  BY <1>1, <1>2, <1>3, <1>4 DEF Moves, JobOK, TaskOK, RunOK
<1> QED BY <1>1, <1>2, <1>3, <1>4, <1>5, <1>6, ParseWrites DEF Moves

-----------------------------------------------------------------------------
(* The tabs, and the rest of the environment. *)

Tabs == [at : {"idle", "applying"}, key : Key \cup {None}, ver : Nat, dec : ChoiceRow]

\* A tab reads, or asks for its confirmation.
LEMMA TabReads ==
  ASSUME ImportInv, NEW t \in Tab, NEW r \in Tabs, tab' = [tab EXCEPT ![t] = r],
         UNCHANGED <<up, job, run, task, preview, dec>>, TabOK(t)'
  PROVE  ImportInv' /\ Unapplied
<1>1. Shape'
  BY DEF ImportInv, Shape, UpShape, Tabs
<1>2. UpOK' /\ \A k \in Key : (JobOK(k) /\ TaskOK(k) /\ RunOK(k))'
  BY DEF ImportInv, UpOK, JobOK, TaskOK, RunOK, Parts
<1>3. \A u \in Tab \ {t} : tab'[u] = tab[u]
  BY DEF ImportInv, Shape
<1>4. \A u \in Tab : TabOK(u)'
  BY <1>3 DEF ImportInv, TabOK, Groups, Members
<1> QED BY <1>1, <1>2, <1>4 DEF ImportInv, Unapplied

LEMMA LookInv == ASSUME ImportInv, NEW t \in Tab, NEW k \in Key, Look(t, k) PROVE ImportInv' /\ Unapplied
<1> DEFINE r == [at |-> "idle", key |-> k, ver |-> job[k].ver, dec |-> dec[k]]
<1>1. r \in Tabs /\ tab' = [tab EXCEPT ![t] = r] /\ UNCHANGED <<up, job, run, task, preview, dec>>
  BY DEF Look, ImportInv, Shape, JobRow, Tabs, stages
<1>2. TabOK(t)'
  <2>1. tab'[t] = r
    BY <1>1 DEF ImportInv, Shape
  <2>2. dec[k].ver \in Nat
    BY DEF ImportInv, Shape, ChoiceRow
  <2> QED BY <1>1, <2>1, <2>2 DEF Look, TabOK
<1> QED BY <1>1, <1>2, TabReads

\* The choices of k get a new version d, made by a tab that has read the last.
LEMMA ChoicesMove ==
  ASSUME ImportInv, NEW t \in Tab, NEW k \in Key, k = tab[t].key, tab[t].at = "idle",
         NEW d \in ChoiceRow, d.ver = dec[k].ver + 1, dec' = [dec EXCEPT ![k] = d],
         tab' = [tab EXCEPT ![t].dec = d], UNCHANGED <<up, job, run, task, preview>>
  PROVE  ImportInv' /\ Unapplied
<1>1. dec' \in [Key -> ChoiceRow] /\ dec'[k] = d /\ \A j \in Key \ {k} : dec'[j] = dec[j]
  BY DEF ImportInv, Shape
<1>2. tab \in [Tab -> Tabs]
  BY DEF ImportInv, Shape, Tabs
<1>3. /\ tab' \in [Tab -> Tabs] /\ tab'[t].at = "idle" /\ tab'[t].key = k /\ tab'[t].dec = d
      /\ \A u \in Tab \ {t} : tab'[u] = tab[u]
  BY <1>2 DEF Tabs
<1>4. Shape'
  BY <1>1, <1>3 DEF ImportInv, Shape, UpShape, Tabs
<1>5. UpOK' /\ \A j \in Key : (JobOK(j) /\ TaskOK(j) /\ RunOK(j))'
  BY DEF ImportInv, UpOK, JobOK, TaskOK, RunOK, Parts
<1>6. d.ver \in Nat /\ dec[k].ver \in Nat /\ dec[k].ver < d.ver
  BY DEF ImportInv, Shape, ChoiceRow
<1>7. TabOK(t)'
  BY <1>1, <1>3, <1>6 DEF ImportInv, TabOK
<1>8. ASSUME NEW u \in Tab \ {t} PROVE TabOK(u)'
  <2>1. tab[u].dec.ver \in Nat
    BY <1>2 DEF Tabs, ChoiceRow
  <2> QED BY <1>1, <1>3, <1>6, <2>1 DEF ImportInv, TabOK, Groups, Members
<1> QED BY <1>4, <1>5, <1>7, <1>8 DEF ImportInv, Unapplied

LEMMA DecideInv ==
  ASSUME ImportInv, NEW t \in Tab, NEW s \in Site, NEW c \in {"merge_to_homepage", "keep_originals"}, Decide(t, s, c)
  PROVE  ImportInv' /\ Unapplied
<1>1. tab[t].key \in Key /\ tab[t].at = "idle"
  BY DEF Decide, ImportInv, Shape
<1>2. PICK k \in Key : k = tab[t].key
  BY <1>1
<1> DEFINE d == [ver |-> dec[k].ver + 1, of |-> [dec[k].of EXCEPT ![s] = c]]
<1>3. dec \in [Key -> ChoiceRow]
  BY DEF ImportInv, Shape
<1>4. d \in ChoiceRow
  BY <1>3 DEF ChoiceRow, Choice
<1>5. [dec EXCEPT ![k].of[s] = c, ![k].ver = @ + 1] = [dec EXCEPT ![k] = d]
  <2> DEFINE m == [dec EXCEPT ![k].of[s] = c]
  <2>1. m \in [Key -> ChoiceRow] /\ m[k] = [ver |-> dec[k].ver, of |-> [dec[k].of EXCEPT ![s] = c]]
        /\ \A j \in Key \ {k} : m[j] = dec[j]
    BY <1>3 DEF ChoiceRow, Choice
  <2>2. [dec EXCEPT ![k].of[s] = c, ![k].ver = @ + 1] = [m EXCEPT ![k].ver = dec[k].ver + 1]
    BY <2>1
  <2> HIDE DEF m
  <2>3. [m EXCEPT ![k].ver = dec[k].ver + 1] = [dec EXCEPT ![k] = d]
    <3>1. [m[k] EXCEPT !.ver = dec[k].ver + 1] = d
      BY <2>1
    <3>2. [m EXCEPT ![k].ver = dec[k].ver + 1] = [m EXCEPT ![k] = [m[k] EXCEPT !.ver = dec[k].ver + 1]]
      OBVIOUS
    <3> HIDE DEF d
    <3>3. [m EXCEPT ![k] = d] = [dec EXCEPT ![k] = d]
      BY <1>3, <2>1
    <3> QED BY <3>1, <3>2, <3>3
  <2> QED BY <2>2, <2>3
<1>6. dec' = [dec EXCEPT ![k] = d] /\ tab' = [tab EXCEPT ![t].dec = d] /\ UNCHANGED <<up, job, run, task, preview>>
  <2>1. dec' = [dec EXCEPT ![k] = d]
    BY <1>2, <1>5 DEF Decide
  <2>2. dec'[k] = d
    BY <1>3, <2>1
  <2> QED BY <1>2, <2>1, <2>2 DEF Decide
<1> HIDE DEF d
<1>7. d.ver = dec[k].ver + 1
  BY DEF d
<1> QED BY <1>1, <1>2, <1>4, <1>6, <1>7, ChoicesMove

LEMMA KeepAllInv == ASSUME ImportInv, NEW t \in Tab, KeepAll(t) PROVE ImportInv' /\ Unapplied
<1>1. tab[t].key \in Key /\ tab[t].at = "idle"
  BY DEF KeepAll, ImportInv, Shape
<1>2. PICK k \in Key : k = tab[t].key
  BY <1>1
<1> DEFINE open == {s \in Groups(preview[k]) : dec[k].of[s] = "unresolved"}
           o == [s \in Site |-> IF s \in open THEN "keep_originals" ELSE dec[k].of[s]]
           d == [ver |-> dec[k].ver + 1, of |-> o]
<1>3. dec \in [Key -> ChoiceRow]
  BY DEF ImportInv, Shape
<1>4. o \in [Site -> Choice] /\ d \in ChoiceRow
  BY <1>3 DEF ChoiceRow, Choice
<1>5. [dec EXCEPT ![k].ver = @ + 1, ![k].of = o] = [dec EXCEPT ![k] = d]
  <2> HIDE DEF o
  <2> DEFINE m == [dec EXCEPT ![k].ver = @ + 1]
  <2>1. m \in [Key -> ChoiceRow] /\ m[k] = [ver |-> dec[k].ver + 1, of |-> dec[k].of]
        /\ \A j \in Key \ {k} : m[j] = dec[j]
    BY <1>3 DEF ChoiceRow
  <2>2. [dec EXCEPT ![k].ver = @ + 1, ![k].of = o] = [m EXCEPT ![k].of = o]
    OBVIOUS
  <2> HIDE DEF m
  <2>3. [m EXCEPT ![k].of = o] = [m EXCEPT ![k] = [m[k] EXCEPT !.of = o]]
    OBVIOUS
  <2>4. [m[k] EXCEPT !.of = o] = d
    BY <2>1
  <2> HIDE DEF d
  <2>5. [m EXCEPT ![k] = d] = [dec EXCEPT ![k] = d]
    BY <1>3, <2>1
  <2> QED BY <2>2, <2>3, <2>4, <2>5
<1>6. dec' = [dec EXCEPT ![k] = d] /\ tab' = [tab EXCEPT ![t].dec = d] /\ UNCHANGED <<up, job, run, task, preview>>
  <2>1. dec' = [dec EXCEPT ![k].ver = @ + 1, ![k].of = o]
    BY <1>2 DEF KeepAll
  <2>2. dec' = [dec EXCEPT ![k] = d]
    BY <1>5, <2>1
  <2>3. dec'[k] = d
    BY <1>3, <2>2
  <2> QED BY <1>2, <2>2, <2>3 DEF KeepAll
<1>7. d.ver = dec[k].ver + 1
  OBVIOUS
<1> HIDE DEF d
<1> QED BY <1>1, <1>2, <1>4, <1>6, <1>7, ChoicesMove

LEMMA CheckApplyInv == ASSUME ImportInv, NEW t \in Tab, CheckApply(t) PROVE ImportInv' /\ Unapplied
<1>1. tab[t].key \in Key /\ tab \in [Tab -> Tabs] /\ tab' = [tab EXCEPT ![t].at = "applying"]
      /\ UNCHANGED <<up, job, run, task, preview, dec>>
  BY DEF CheckApply, ImportInv, Shape, Tabs, stages
<1> DEFINE r == [at |-> "applying", key |-> tab[t].key, ver |-> tab[t].ver, dec |-> tab[t].dec]
<1>2. r \in Tabs /\ tab' = [tab EXCEPT ![t] = r]
  <2>1. r \in Tabs /\ [tab[t] EXCEPT !.at = "applying"] = r
    BY <1>1 DEF Tabs
  <2>2. tab' = [tab EXCEPT ![t] = [tab[t] EXCEPT !.at = "applying"]]
    BY <1>1
  <2> QED BY <2>1, <2>2
<1>3. tab'[t] = r
  BY <1>1, <1>2
<1>4. TabOK(t)'
  BY <1>1, <1>3 DEF CheckApply, Current, ImportInv, TabOK, Groups, Members
<1> HIDE DEF r
<1> QED BY <1>1, <1>2, <1>4, TabReads

LEMMA EditLibraryInv == ASSUME ImportInv, EditLibrary PROVE ImportInv' /\ Unapplied
<1>1. UNCHANGED <<up, job, run, task, preview, dec, tab>>
  BY DEF EditLibrary, stages
<1>2. UpShape' /\ UpOK'
  BY <1>1 DEF ImportInv, Shape, UpShape, UpOK
<1> QED BY <1>1, <1>2, UploadMoves

LEMMA CrashInv == ASSUME ImportInv, Crash PROVE ImportInv' /\ Unapplied
<1>1. /\ up' = Idle /\ task' = [k \in Key |-> NoTask] /\ tab' = [t \in Tab |-> [tab[t] EXCEPT !.at = "idle"]]
      /\ UNCHANGED <<run, preview, dec>>
  BY DEF Crash
<1>2. /\ job' \in [Key -> JobRow]
      /\ \A k \in Key : /\ job'[k].state = job[k].state /\ job'[k].ver = job[k].ver /\ job'[k].source = job[k].source
                        /\ job[k].stored => job'[k] = job[k]
  <2>1. CASE job' = job
    BY <2>1 DEF ImportInv, Shape
  <2>2. CASE up.at = "publish" /\ job' = [job EXCEPT ![up.key].stored = TRUE]
    <3>1. PICK k \in Key : k = up.key
      BY <2>2 DEF ImportInv, Shape, UpShape
    <3>2. job \in [Key -> JobRow] /\ job' = [job EXCEPT ![k].stored = TRUE]
      BY <2>2, <3>1 DEF ImportInv, Shape
    <3>3. /\ job' \in [Key -> JobRow] /\ \A j \in Key \ {k} : job'[j] = job[j]
          /\ job'[k].state = job[k].state /\ job'[k].ver = job[k].ver /\ job'[k].source = job[k].source
          /\ (job[k].stored => job'[k] = job[k])
      BY <3>2 DEF JobRow
    <3> QED BY <3>3
  <2> QED BY <2>1, <2>2 DEF Crash
<1>3. tab' \in [Tab -> Tabs] /\ \A t \in Tab : tab'[t].at = "idle" /\ tab'[t].key = tab[t].key /\ tab'[t].dec = tab[t].dec
  BY <1>1 DEF ImportInv, Shape, Tabs
<1>4. UpShape' /\ UpOK'
  BY <1>1 DEF Idle, UpShape, UpOK
<1>5. Shape'
  BY <1>1, <1>2, <1>3, <1>4 DEF ImportInv, Shape, Tabs, NoTask, TaskAt
<1>6. \A k \in Key : (JobOK(k) /\ TaskOK(k) /\ RunOK(k))'
  BY <1>1, <1>2 DEF ImportInv, JobOK, TaskOK, RunOK, Parts, NoTask
<1>7. \A t \in Tab : TabOK(t)'
  BY <1>1, <1>3 DEF ImportInv, TabOK
<1>8. Unapplied
  BY <1>2 DEF ImportInv, JobOK, Unapplied
<1> QED BY <1>4, <1>5, <1>6, <1>7, <1>8 DEF ImportInv

-----------------------------------------------------------------------------
\* What a confirmation writes leaves no candidate without a site, unless the
\* library has lost pages since the preview.
LEMMA WrittenKeeps ==
  ASSUME NEW k \in Key, NEW u \in preview[k].cands, preview[k].cands \subseteq Url,
         preview[k].skip \subseteq preview[k].seen,
         preview[k].homes = {s \in Site : HomeOf(s) \in preview[k].seen},
         library' = library \cup Written(k)
  PROVE  \/ u \in library'
         \/ /\ SiteOf(u) \in Merged(k)
            /\ \/ Canonical(preview[k], SiteOf(u)) \in library'
               \/ preview[k].seen \ library # {}
<1> DEFINE p == preview[k]
           s == SiteOf(u)
<1>1. CASE s \notin Merged(k)
  <2>1. u \in {v \in p.cands : SiteOf(v) \notin Merged(k)}
    BY <1>1
  <2> HIDE DEF s
  <2> QED BY <2>1 DEF Written
<1>2. CASE s \in Merged(k) /\ p.seen \subseteq library
  <2>1. s \in Site /\ u \in Members(p, s)
    BY SiteAssumption DEF Members
  <2>2. CASE MergeCreates(p, s) = 1
    <3>1. Canonical(p, s) \in {Canonical(p, m) : m \in {m \in Merged(k) : MergeCreates(p, m) = 1}}
      BY <1>2, <2>2
    <3> QED BY <1>2, <3>1 DEF Written
  <2>3. CASE MergeCreates(p, s) # 1
    <3>1. s \in p.homes \/ Canonical(p, s) \in p.skip \/ Members(p, s) \cap Creates(p) = {}
      BY <2>3 DEF MergeCreates
    <3>2. CASE s \in p.homes
      <4>1. Canonical(p, s) = HomeOf(s) /\ HomeOf(s) \in p.seen
        BY <3>2 DEF Canonical
      <4> QED BY <1>2, <4>1
    <3>3. CASE Canonical(p, s) \in p.skip
      BY <1>2, <3>3
    <3>4. CASE Members(p, s) \cap Creates(p) = {}
      BY <1>2, <2>1, <3>4 DEF Creates
    <3> QED BY <3>1, <3>2, <3>3, <3>4
  <2> QED BY <2>2, <2>3
<1> QED BY <1>1, <1>2

LEMMA CommitApplyInv ==
  ASSUME ImportInv, NEW t \in Tab, CommitApply(t)
  PROVE  ImportInv' /\ \A k \in Key : AppliedStep(k) /\ KeptStep(k)
<1>1. PICK k \in Key : k = tab[t].key
  BY DEF CommitApply, ImportInv, TabOK
<1>2. tab \in [Tab -> Tabs] /\ tab' = [tab EXCEPT ![t].at = "idle"] /\ UNCHANGED <<up, run, task, preview, dec>>
  BY DEF CommitApply, ImportInv, Shape, Tabs, stages
<1>3. /\ tab' \in [Tab -> Tabs] /\ tab'[t].at = "idle" /\ tab'[t].key = k /\ tab'[t].dec = tab[t].dec
      /\ \A u \in Tab \ {t} : tab'[u] = tab[u]
  BY <1>1, <1>2 DEF Tabs
<1>4. \A u \in Tab : TabOK(u)'
  BY <1>1, <1>2, <1>3 DEF ImportInv, TabOK, Groups, Members
<1>5. CASE job' = job
  <2>1. Shape' /\ UpOK' /\ \A j \in Key : (JobOK(j) /\ TaskOK(j) /\ RunOK(j))'
    BY SMTT(30), <1>2, <1>3, <1>5 DEF ImportInv, Shape, Tabs, UpShape, UpOK, JobOK, TaskOK, RunOK, Parts
  <2>2. Unapplied
    BY <1>5 DEF Unapplied
  <2> QED BY <1>4, <2>1, <2>2, UnappliedIsFine DEF ImportInv
<1>6. CASE /\ Current(t) /\ library' = library \cup Written(k)
           /\ job' = [job EXCEPT ![k].state = "completed", ![k].ver = @ + 1]
  <2>1. /\ job[k].state = "parse_preview_ready" /\ job[k].ver = 4 /\ job[k].stored /\ job[k].source \in Content
        /\ run[k].state = "complete" /\ tab[t].dec = dec[k]
        /\ \A s \in Groups(preview[k]) : tab[t].dec.of[s] # "unresolved"
    <3>1. JobOK(k) /\ job[k].state = "parse_preview_ready" /\ tab[t].dec.ver = dec[k].ver /\ TabOK(t)
      BY <1>1, <1>6 DEF Current, Previews, ImportInv, Shape, JobRow, JobState
    <3> QED BY <1>1, <3>1 DEF CommitApply, TabOK, JobOK
  <2>2. Moves(job, job', k, "completed", 5)
    <3>1. job' = [job EXCEPT ![k].state = "completed", ![k].ver = 5]
      BY <1>6, <2>1
    <3> QED BY <3>1, RowMoves DEF ImportInv, Shape, JobState
  <2>3. Shape'
    BY <1>2, <1>3, <2>2 DEF Moves, ImportInv, Shape, Tabs, UpShape
  <2>4. UpOK'
    BY <1>2, <2>1, <2>2 DEF Moves, ImportInv, Shape, UpShape, UpOK
  <2>5. \A j \in Key : (JobOK(j) /\ TaskOK(j) /\ RunOK(j))'
    <3>1. JobOK(k)' /\ TaskOK(k)' /\ RunOK(k)'
      BY <1>2, <2>1, <2>2 DEF Moves, ImportInv, JobOK, TaskOK, RunOK, Parts
    <3>2. ASSUME NEW j \in Key \ {k} PROVE (JobOK(j) /\ TaskOK(j) /\ RunOK(j))'
      BY <1>2, <2>2 DEF Moves, ImportInv, JobOK, TaskOK, RunOK, Parts
    <3> QED BY <3>1, <3>2
  <2>6. \A j \in Key : AppliedStep(j)
    <3>1. AppliedStep(k)
      BY <1>1, <1>3, <2>1 DEF CommitApply, AppliedStep
    <3>2. ASSUME NEW j \in Key \ {k} PROVE AppliedStep(j)
      BY <2>2 DEF Moves, AppliedStep, Completes, Previews
    <3> QED BY <3>1, <3>2
  <2>7. \A j \in Key : KeptStep(j)
    <3>1. KeptStep(k)
      <4>1. /\ preview[k].cands \subseteq Url /\ preview[k].skip \subseteq preview[k].seen
            /\ preview[k].homes = {s \in Site : HomeOf(s) \in preview[k].seen}
        BY <2>1 DEF ImportInv, RunOK, Shape
      <4> QED BY <1>6, <4>1, WrittenKeeps DEF KeptStep
    <3>2. ASSUME NEW j \in Key \ {k} PROVE KeptStep(j)
      BY <2>2 DEF Moves, KeptStep, Completes, Previews
    <3> QED BY <3>1, <3>2
  <2> QED BY <1>4, <2>3, <2>4, <2>5, <2>6, <2>7 DEF ImportInv
<1> QED BY <1>1, <1>5, <1>6 DEF CommitApply

-----------------------------------------------------------------------------
\* The confirmation is the only step that ends a job completed.
LEMMA OnlyApply ==
  ASSUME ImportInv, Next
  PROVE  (ImportInv' /\ Unapplied) \/ \E t \in Tab : CommitApply(t)
<1> DEFINE Done == ImportInv' /\ Unapplied
<1>1. ASSUME NEW k \in Key, NEW c \in Content, Reserve(k, c) PROVE Done
  BY <1>1, ReserveInv
<1>2. ASSUME Handle PROVE Done
  BY <1>2, MeasureInv, StreamInv, CreateImportInv, PublishUploadInv, QueueImportInv, ReplyInv DEF Handle
<1>3. ASSUME UploadFails PROVE Done
  BY <1>3, UploadFailsInv
<1>4. ASSUME NEW k \in Key, Parse(k) \/ ParseLost(k) PROVE Done
  BY <1>4, BeginParseInv, AppendChunkInv, SealRunInv, PublishPreviewInv, ParseErrorInv, FailRunInv, ParseLostInv DEF Parse
<1>5. ASSUME NEW t \in Tab, Browse(t), ~CommitApply(t) PROVE Done
  BY <1>5, LookInv, DecideInv, KeepAllInv, CheckApplyInv DEF Browse
<1>6. ASSUME EditLibrary \/ Crash PROVE Done
  BY <1>6, EditLibraryInv, CrashInv
<1> HIDE DEF Done
<1>7. Done \/ \E t \in Tab : CommitApply(t)
  BY <1>1, <1>2, <1>3, <1>4, <1>5, <1>6 DEF Next
<1> QED BY <1>7 DEF Done

LEMMA StepImport ==
  ImportInv /\ [Next]_vars => ImportInv' /\ [\A k \in Key : AppliedStep(k)]_vars /\ [\A k \in Key : KeptStep(k)]_vars
<1> SUFFICES ASSUME ImportInv, [Next]_vars
             PROVE  ImportInv' /\ [\A k \in Key : AppliedStep(k)]_vars /\ [\A k \in Key : KeptStep(k)]_vars
  OBVIOUS
<1>1. CASE Next
  <2>1. CASE ImportInv' /\ Unapplied
    BY <2>1, UnappliedIsFine
  <2>2. ASSUME NEW t \in Tab, CommitApply(t)
        PROVE  ImportInv' /\ \A k \in Key : AppliedStep(k) /\ KeptStep(k)
    BY <2>2, CommitApplyInv
  <2> QED BY <1>1, <2>1, <2>2, OnlyApply
<1>2. CASE UNCHANGED vars
  <2>1. UNCHANGED <<up, job, run, task, preview, dec, tab>>
    BY <1>2 DEF vars
  <2>2. UpShape' /\ UpOK'
    BY <2>1 DEF ImportInv, Shape, UpShape, UpOK
  <2> QED BY <1>2, <2>1, <2>2, UploadMoves
<1> QED BY <1>1, <1>2

\* The preview of a complete run shows the file that is stored, all of it.
LEMMA InvIsWhole == ImportInv => PreviewIsWhole
<1> SUFFICES ASSUME ImportInv, NEW k \in Key, run[k].state = "complete"
             PROVE  job[k].stored /\ preview[k].cands = UNION {Parts(k)[i] : i \in DOMAIN Parts(k)}
  BY DEF PreviewIsWhole
<1>1. /\ job[k].stored /\ job[k].source \in Content
      /\ preview[k].cands = UNION {Parts(k)[i] : i \in 1 .. Len(Parts(k))}
  BY DEF ImportInv, RunOK, JobOK
<1>2. DOMAIN Parts(k) = 1 .. Len(Parts(k))
  BY <1>1, ContentAssumption DEF Parts
<1> QED BY <1>1, <1>2

\* A preview shows the whole of the file that was stored, for any file, any
\* faults and any number of uploads.
THEOREM PreviewsWhole == Spec => []PreviewIsWhole
BY InitImport, StepImport, InvIsWhole, PTL DEF Spec

\* A confirmation applies the choices its tab saw, and applies them once.
THEOREM AppliedOnceAsSeen == Spec => AppliedAsSeen
BY InitImport, StepImport, PTL DEF Spec, AppliedAsSeen

\* No candidate of a confirmed import is without a site.
THEOREM CandidatesKept == Spec => NothingLost
BY InitImport, StepImport, PTL DEF Spec, NothingLost

-----------------------------------------------------------------------------
(* Sums over a finite set, as MapThenSumSet takes them: element by element *)
(* in the order of CHOOSE. They do not depend on that order.               *)

\* Induction over a set of numbers.
LEMMA NatSet ==
  ASSUME NEW S, 0 \in S, \A n \in Nat : n \in S => n + 1 \in S
  PROVE  Nat \subseteq S
<1> SUFFICES ASSUME ~(Nat \subseteq S) PROVE FALSE
  OBVIOUS
<1> DEFINE T == Nat \ S
<1>1. PICK m \in T : \A n \in T : ~(<<n, m>> \in OpToRel(<, Nat))
  BY NatLessThanWellFounded, WFMin
<1>2. m # 0 /\ m \in Nat /\ m \notin S
  OBVIOUS
<1>3. m - 1 \in Nat /\ m - 1 < m /\ (m - 1) + 1 = m
  BY <1>2
<1>4. m - 1 \in T
  BY <1>2, <1>3
<1> QED BY <1>1, <1>2, <1>3, <1>4 DEF OpToRel

\* Induction over the parts of a finite set.
LEMMA SetInduct ==
  ASSUME NEW S, IsFiniteSet(S), NEW G,
         \A T \in SUBSET S : (\A U \in SUBSET T : U # T => U \in G) => T \in G
  PROVE  SUBSET S \subseteq G
<1> SUFFICES ASSUME ~(SUBSET S \subseteq G) PROVE FALSE
  OBVIOUS
<1> DEFINE B == (SUBSET S) \ G
<1>1. IsWellFoundedOn(StrictSubsetOrdering(S), SUBSET S)
  <2>1. FiniteSubsetsOf(S) = SUBSET S
    BY FS_FiniteSubsetsOfFinite
  <2>2. IsWellFoundedOn(StrictSubsetOrdering(S), FiniteSubsetsOf(S))
    BY FS_StrictSubsetOrderingWellFounded
  <2> QED BY <2>1, <2>2
<1>2. PICK T \in B : \A U \in B : ~(<<U, T>> \in StrictSubsetOrdering(S))
  <2>1. B \subseteq SUBSET S /\ B # {}
    OBVIOUS
  <2> HIDE DEF B
  <2> QED BY <1>1, <2>1, WFMin
<1>3. \A U \in SUBSET T : U # T => U \in G
  BY <1>2 DEF StrictSubsetOrdering
<1> QED BY <1>2, <1>3

Pick(s) == CHOOSE x \in s : TRUE

\* g is the sum of f over every set in D, and over every part of S.
SummingOn(g, f, D) == g = [s \in D |-> IF s = {} THEN 0 ELSE f[Pick(s)] + g[s \ {Pick(s)}]]
Summing(g, f, S)   == SummingOn(g, f, SUBSET S)

LEMMA PickIs == \A s : s # {} => Pick(s) \in s
BY DEF Pick

\* There is one such function.
LEMMA SumsExist ==
  ASSUME NEW S, IsFiniteSet(S), NEW f
  PROVE  \E g : Summing(g, f, S)
<1> DEFINE Small(n) == {s \in SUBSET S : Cardinality(s) <= n}
           N == {n \in Nat : \E g : SummingOn(g, f, Small(n))}
<1>1. \A T \in SUBSET S : IsFiniteSet(T) /\ Cardinality(T) \in Nat /\ Cardinality(T) <= Cardinality(S)
  BY FS_Subset, FS_CardinalityType
<1>0. \A T \in SUBSET S : Cardinality(T) = 0 => T = {}
  BY <1>1, FS_EmptySet
<1>2. 0 \in N
  <2>1. \A s \in Small(0) : s = {}
    BY <1>0, <1>1
  <2>2. PICK g : g = [s \in Small(0) |-> 0]
    OBVIOUS
  <2>3. g = [s \in Small(0) |-> IF s = {} THEN 0 ELSE f[Pick(s)] + g[s \ {Pick(s)}]]
    BY <2>1, <2>2
  <2>4. SummingOn(g, f, Small(0))
    BY <2>3 DEF SummingOn
  <2> QED BY <2>4
<1>3. ASSUME NEW n \in Nat, n \in N PROVE n + 1 \in N
  <2>0. PICK g : SummingOn(g, f, Small(n))
    BY <1>3
  <2>1. g = [s \in Small(n) |-> IF s = {} THEN 0 ELSE f[Pick(s)] + g[s \ {Pick(s)}]]
    BY <2>0 DEF SummingOn
  <2>2. PICK h : h = [s \in Small(n + 1) |-> IF s = {} THEN 0 ELSE f[Pick(s)] + g[s \ {Pick(s)}]]
    OBVIOUS
  <2>3. \A s \in Small(n) : h[s] = g[s]
    <3>1. \A s \in Small(n) : s \in Small(n + 1)
      BY <1>1
    <3> QED BY <2>1, <2>2, <3>1
  <2>4. \A s \in Small(n + 1) : s # {} => s \ {Pick(s)} \in Small(n)
    <3> SUFFICES ASSUME NEW s \in Small(n + 1), s # {} PROVE s \ {Pick(s)} \in Small(n)
      OBVIOUS
    <3>1. Pick(s) \in s /\ IsFiniteSet(s) /\ Cardinality(s) \in Nat
      BY <1>1, PickIs
    <3>2. Cardinality(s \ {Pick(s)}) = Cardinality(s) - 1
      BY <3>1, FS_RemoveElement
    <3> QED BY <3>1, <3>2
  <2>5. h = [s \in Small(n + 1) |-> IF s = {} THEN 0 ELSE f[Pick(s)] + h[s \ {Pick(s)}]]
    BY <2>2, <2>3, <2>4
  <2>6. SummingOn(h, f, Small(n + 1))
    BY <2>5 DEF SummingOn
  <2> HIDE DEF Small
  <2> QED BY <2>6
<1>4. Cardinality(S) \in N
  <2> HIDE DEF N
  <2>1. Cardinality(S) \in Nat
    BY <1>1
  <2> QED BY <1>2, <1>3, <2>1, NatSet
<1>5. Small(Cardinality(S)) = SUBSET S
  BY <1>1
<1> QED BY <1>4, <1>5 DEF Summing, SummingOn

\* Its values are numbers, and any element may be counted first.
SumLaw(g, f, S) ==
  /\ g[{}] = 0 /\ g \in [SUBSET S -> Int]
  /\ \A T \in SUBSET S : \A x \in T : g[T] = f[x] + g[T \ {x}]

LEMMA SumsAre ==
  ASSUME NEW S, IsFiniteSet(S), NEW f \in [S -> Int], NEW g, Summing(g, f, S)
  PROVE  SumLaw(g, f, S)
<1>1. g[{}] = 0 /\ \A T \in SUBSET S : T # {} => g[T] = f[Pick(T)] + g[T \ {Pick(T)}]
  BY DEF Summing, SummingOn
<1>2. \A T \in SUBSET S : T # {} => Pick(T) \in T
  BY PickIs
<1> DEFINE G == {T \in SUBSET S : g[T] \in Int}
<1>3. SUBSET S \subseteq G
  <2>1. ASSUME NEW T \in SUBSET S, \A U \in SUBSET T : U # T => U \in G PROVE T \in G
    <3>1. CASE T = {}
      BY <1>1, <3>1
    <3>2. CASE T # {}
      <4>1. PICK p \in T : g[T] = f[p] + g[T \ {p}]
        BY <1>1, <1>2, <3>2
      <4>2. T \ {p} \in SUBSET T /\ T \ {p} # T
        BY <4>1
      <4> QED BY <2>1, <4>1, <4>2
    <3> QED BY <3>1, <3>2
  <2> HIDE DEF G
  <2> QED BY <2>1, SetInduct
<1>4. \A T \in SUBSET S : g[T] \in Int
  BY <1>3
<1> DEFINE H == {T \in SUBSET S : \A x \in T : g[T] = f[x] + g[T \ {x}]}
<1>5. SUBSET S \subseteq H
  <2>1. ASSUME NEW T \in SUBSET S, \A U \in SUBSET T : U # T => U \in H PROVE T \in H
    <3> SUFFICES ASSUME NEW x \in T PROVE g[T] = f[x] + g[T \ {x}]
      OBVIOUS
    <3>1. PICK p \in T : g[T] = f[p] + g[T \ {p}]
      BY <1>1, <1>2
    <3>2. CASE x # p
      <4>1. T \ {p} \in H /\ T \ {x} \in H
        <5>1. T \ {p} \in SUBSET T /\ T \ {p} # T /\ T \ {x} \in SUBSET T /\ T \ {x} # T
          BY <3>1
        <5> QED BY <2>1, <5>1
      <4>2. g[T \ {p}] = f[x] + g[(T \ {p}) \ {x}] /\ g[T \ {x}] = f[p] + g[(T \ {x}) \ {p}]
        BY <3>1, <3>2, <4>1
      <4>3. (T \ {p}) \ {x} = (T \ {x}) \ {p} /\ (T \ {p}) \ {x} \in SUBSET S
        OBVIOUS
      <4>4. f[x] \in Int /\ f[p] \in Int /\ g[(T \ {p}) \ {x}] \in Int
        BY <1>4, <3>1, <4>3
      <4> DEFINE a == g[(T \ {p}) \ {x}]
      <4>5. g[T] = f[p] + (f[x] + a) /\ g[T \ {x}] = f[p] + a /\ a \in Int
        BY <3>1, <4>2, <4>3, <4>4
      <4> HIDE DEF a
      <4> QED BY <4>4, <4>5
    <3> QED BY <3>1, <3>2
  <2> HIDE DEF H
  <2> QED BY <2>1, SetInduct
<1>6. g = [s \in SUBSET S |-> g[s]]
  BY DEF Summing, SummingOn
<1> QED BY <1>1, <1>4, <1>5, <1>6 DEF SumLaw

\* The sum over a part depends only on the terms of that part.
LEMMA SumsAgree ==
  ASSUME NEW S, IsFiniteSet(S), NEW f \in [S -> Int], NEW g, Summing(g, f, S),
         NEW T \in SUBSET S, NEW e \in [T -> Int], NEW h, Summing(h, e, T),
         \A x \in T : e[x] = f[x]
  PROVE  h[T] = g[T]
<1>1. IsFiniteSet(T)
  BY FS_Subset
<1>2. SumLaw(g, f, S) /\ SumLaw(h, e, T)
  BY <1>1, SumsAre
<1>3. /\ g[{}] = 0 /\ h[{}] = 0 /\ g \in [SUBSET S -> Int]
      /\ \A U \in SUBSET S : \A x \in U : g[U] = f[x] + g[U \ {x}]
      /\ \A U \in SUBSET T : \A x \in U : h[U] = e[x] + h[U \ {x}]
  BY <1>2 DEF SumLaw
<1> DEFINE G == {U \in SUBSET T : h[U] = g[U]}
<1>4. SUBSET T \subseteq G
  <2>1. ASSUME NEW U \in SUBSET T, \A V \in SUBSET U : V # U => V \in G PROVE U \in G
    <3>1. CASE U = {}
      BY <1>3, <3>1
    <3>2. CASE U # {}
      <4>1. PICK x \in U : TRUE
        BY <3>2
      <4>2. U \ {x} \in G
        <5>1. U \ {x} \in SUBSET U /\ U \ {x} # U
          BY <4>1
        <5> QED BY <2>1, <5>1
      <4>3. h[U] = e[x] + h[U \ {x}] /\ g[U] = f[x] + g[U \ {x}]
        BY <1>3, <4>1
      <4> QED BY <4>1, <4>2, <4>3
    <3> QED BY <3>1, <3>2
  <2> HIDE DEF G
  <2> QED BY <1>1, <2>1, SetInduct
<1> QED BY <1>4

-----------------------------------------------------------------------------
\* The sum of f over S, as a value.
Total(f, S) == (CHOOSE g : Summing(g, f, S))[S]

\* What the proofs below need of sums.
LEMMA TotalIs ==
  ASSUME NEW S, IsFiniteSet(S), NEW f \in [S -> Int]
  PROVE  /\ Total(f, S) \in Int
         /\ S = {} => Total(f, S) = 0
         /\ (\A x \in S : f[x] \in Nat) => Total(f, S) \in Nat
<1>1. PICK g : g = (CHOOSE q : Summing(q, f, S)) /\ Summing(g, f, S)
  BY SumsExist
<1>2. /\ g[{}] = 0 /\ g \in [SUBSET S -> Int]
      /\ \A U \in SUBSET S : \A x \in U : g[U] = f[x] + g[U \ {x}]
  <2>1. SumLaw(g, f, S)
    BY <1>1, SumsAre
  <2> QED BY <2>1 DEF SumLaw
<1>3. Total(f, S) = g[S] /\ S \in SUBSET S
  BY <1>1 DEF Total
<1>4. ASSUME \A x \in S : f[x] \in Nat PROVE g[S] \in Nat
  <2> DEFINE G == {U \in SUBSET S : g[U] \in Nat}
  <2>1. ASSUME NEW U \in SUBSET S, \A V \in SUBSET U : V # U => V \in G PROVE U \in G
    <3>1. CASE U = {}
      BY <1>2, <3>1
    <3>2. CASE U # {}
      <4>1. PICK x \in U : TRUE
        BY <3>2
      <4>2. U \ {x} \in G
        <5>1. U \ {x} \in SUBSET U /\ U \ {x} # U
          BY <4>1
        <5> QED BY <2>1, <5>1
      <4>3. g[U] = f[x] + g[U \ {x}] /\ f[x] \in Nat
        BY <1>2, <1>4, <4>1
      <4> QED BY <4>2, <4>3
    <3> QED BY <3>1, <3>2
  <2>2. SUBSET S \subseteq G
    <3> HIDE DEF G
    <3> QED BY <2>1, SetInduct
  <2> QED BY <2>2
<1>5. S = {} => g[S] = 0
  BY <1>2
<1>6. g[S] \in Int
  BY <1>2
<1> QED BY <1>3, <1>4, <1>5, <1>6

LEMMA TotalAdds ==
  ASSUME NEW S, IsFiniteSet(S), NEW f \in [S -> Int], NEW x \in S,
         NEW e \in [S \ {x} -> Int], \A y \in S \ {x} : e[y] = f[y]
  PROVE  Total(f, S) = Total(e, S \ {x}) + f[x]
<1>1. PICK g : g = (CHOOSE q : Summing(q, f, S)) /\ Summing(g, f, S)
  BY SumsExist
<1>2. IsFiniteSet(S \ {x})
  BY FS_Subset
<1>3. PICK h : h = (CHOOSE q : Summing(q, e, S \ {x})) /\ Summing(h, e, S \ {x})
  BY <1>2, SumsExist
<1>4. Total(f, S) = g[S] /\ Total(e, S \ {x}) = h[S \ {x}]
  BY <1>1, <1>3 DEF Total
<1>5. g[S] = f[x] + g[S \ {x}] /\ g \in [SUBSET S -> Int]
  <2>1. SumLaw(g, f, S)
    BY <1>1, SumsAre
  <2> QED BY <2>1 DEF SumLaw
<1>6. h[S \ {x}] = g[S \ {x}]
  <2>1. S \ {x} \in SUBSET S
    OBVIOUS
  <2> DEFINE R == S \ {x}
  <2> HIDE DEF R
  <2>2. R \in SUBSET S /\ e \in [R -> Int] /\ Summing(h, e, R) /\ \A y \in R : e[y] = f[y]
    BY <1>3 DEF R
  <2>3. h[R] = g[R]
    BY <1>1, <2>2, SumsAgree
  <2> QED BY <2>3 DEF R
<1>7. g[S \ {x}] \in Int /\ f[x] \in Int
  BY <1>5
<1> QED BY <1>4, <1>5, <1>6, <1>7

-----------------------------------------------------------------------------
(* The account's bytes on disk. *)

\* The published files of the jobs q, their sizes and their bytes.
Held(q)      == {k \in Key : q[k].stored}
Sizes(q)     == [k \in Held(q) |-> q[k].source.size]
Published(q) == MapThenSumSet(LAMBDA k : q[k].source.size, Held(q))

FilesKnown(q) == IsFiniteSet(Held(q)) /\ \A k \in Held(q) : q[k].source \in Content

LEMMA SizesAre ==
  ASSUME NEW q, FilesKnown(q)
  PROVE  Sizes(q) \in [Held(q) -> Int] /\ \A k \in Held(q) : Sizes(q)[k] \in Nat
BY ContentAssumption DEF FilesKnown, Sizes

LEMMA PublishedIs ==
  ASSUME NEW q, FilesKnown(q)
  PROVE  Published(q) = Total(Sizes(q), Held(q))
<1> DEFINE S == Held(q)
           f == Sizes(q)
           Fold(g) == g = [s \in SUBSET S |-> IF s = {} THEN 0 ELSE q[Pick(s)].source.size + g[s \ {Pick(s)}]]
<1>1. ASSUME NEW g PROVE Fold(g) <=> Summing(g, f, S)
  <2>1. \A s \in SUBSET S : s # {} => f[Pick(s)] = q[Pick(s)].source.size
    BY PickIs DEF Sizes
  <2> HIDE DEF S, f
  <2>2. [s \in SUBSET S |-> IF s = {} THEN 0 ELSE q[Pick(s)].source.size + g[s \ {Pick(s)}]]
          = [s \in SUBSET S |-> IF s = {} THEN 0 ELSE f[Pick(s)] + g[s \ {Pick(s)}]]
    BY <2>1
  <2> QED BY <2>2 DEF Summing, SummingOn
<1>2. Published(q) = (CHOOSE g : Fold(g))[S]
  BY DEF Published, MapThenSumSet, MapThenFoldSet, Pick
<1> HIDE DEF Fold
<1>3. IsFiniteSet(S) /\ f \in [S -> Int]
  BY SizesAre DEF FilesKnown
<1> HIDE DEF S, f
<1>4. PICK c : c = (CHOOSE g : Fold(g)) /\ Fold(c)
  <2>1. \E g : Fold(g)
    BY <1>1, <1>3, SumsExist
  <2> QED BY <2>1
<1>5. PICK d : d = (CHOOSE g : Summing(g, f, S)) /\ Summing(d, f, S)
  BY <1>3, SumsExist
<1>6. c[S] = d[S]
  <2>1. Summing(c, f, S) /\ S \in SUBSET S
    BY <1>1, <1>4
  <2> QED BY <1>3, <1>5, <2>1, SumsAgree
<1>7. Published(q) = Total(f, S)
  BY <1>2, <1>4, <1>5, <1>6 DEF Total
<1> QED BY <1>7 DEF f, S

LEMMA PublishedIsNat == ASSUME NEW q, FilesKnown(q) PROVE Published(q) \in Nat
<1>1. IsFiniteSet(Held(q))
  BY DEF FilesKnown
<1>2. Total(Sizes(q), Held(q)) \in Nat
  BY <1>1, SizesAre, TotalIs
<1> QED BY <1>2, PublishedIs

\* Rows that keep their files keep the bytes.
LEMMA SameFiles ==
  ASSUME NEW q, NEW r, FilesKnown(q),
         \A k \in Key : r[k].stored = q[k].stored /\ (q[k].stored => r[k].source = q[k].source)
  PROVE  FilesKnown(r) /\ Published(r) = Published(q)
<1>1. Held(r) = Held(q)
  BY DEF Held
<1>2. Sizes(r) = Sizes(q)
  <2>1. \A k \in Held(q) : r[k].source.size = q[k].source.size
    BY DEF Held
  <2> QED BY <1>1, <2>1 DEF Sizes
<1>3. FilesKnown(r)
  BY <1>1 DEF FilesKnown, Held
<1> QED BY <1>1, <1>2, <1>3, PublishedIs

\* A file that is put in place adds its size.
LEMMA OneMoreFile ==
  ASSUME NEW q, NEW r, FilesKnown(q), NEW k \in Key, ~q[k].stored, r[k].stored, r[k].source \in Content,
         \A j \in Key \ {k} : r[j].stored = q[j].stored /\ (q[j].stored => r[j].source = q[j].source)
  PROVE  FilesKnown(r) /\ Published(r) = Published(q) + r[k].source.size
<1> DEFINE S == Held(r)
           f == Sizes(r)
           e == Sizes(q)
<1>1. Held(q) = S \ {k} /\ S = Held(q) \cup {k} /\ k \in S
  BY DEF Held
<1>2. FilesKnown(r)
  <2>1. IsFiniteSet(S)
    <3>1. IsFiniteSet(Held(q))
      BY DEF FilesKnown
    <3>2. IsFiniteSet(Held(q) \cup {k})
      BY <3>1, FS_AddElement
    <3> QED BY <1>1, <3>2
  <2> QED BY <2>1 DEF FilesKnown, Held
<1>3. IsFiniteSet(S) /\ f \in [S -> Int] /\ e \in [S \ {k} -> Int]
  BY <1>1, <1>2, SizesAre DEF FilesKnown
<1>4. \A j \in S \ {k} : e[j] = f[j]
  BY <1>1 DEF Sizes, Held
<1>5. f[k] = r[k].source.size
  BY <1>1 DEF Sizes
<1>6. Published(r) = Total(f, S) /\ Published(q) = Total(e, S \ {k})
  BY <1>1, <1>2, PublishedIs
<1> HIDE DEF S, f, e
<1>7. Total(f, S) = Total(e, S \ {k}) + f[k]
  BY <1>1, <1>3, <1>4, TotalAdds
<1> QED BY <1>2, <1>5, <1>6, <1>7

\* What is on disk, and how far the upload in progress is with its own file.
DiskInv ==
  /\ FilesKnown(job) /\ \A k \in Key : job[k].stored => job[k].state # "none"
  /\ litter = [bytes |-> litter.bytes, shared |-> litter.shared]
  /\ litter.bytes \in Nat /\ litter.shared \in Nat /\ litter.shared <= litter.bytes
  /\ up.got \in Nat /\ up.used \in Nat
  /\ up.at \notin {"stream", "publish"} => up.got = 0
  /\ up.at = "stream" => /\ up.used = Published(job) + litter.bytes
                         /\ up.used + up.got <= Quota /\ up.got <= up.file.size
  /\ up.at = "publish" => /\ up.got = up.file.size
                          /\ job[up.key].state # "none" /\ job[up.key].source = up.file
  /\ Published(job) + up.got + litter.bytes - litter.shared <= Quota

\* The jobs keep their files.
FilesKept ==
  \A k \in Key :
    /\ job'[k].stored = job[k].stored
    /\ job[k].stored => job'[k].source = job[k].source
    /\ job[k].state # "none" => job'[k].state # "none"

LEMMA KeptBytes ==
  ASSUME DiskInv, FilesKept
  PROVE  FilesKnown(job') /\ Published(job') = Published(job) /\ Published(job) \in Nat
BY SameFiles, PublishedIsNat DEF DiskInv, FilesKept

\* Steps that leave the upload alone, and steps that end it.
LEMMA DiskAlone ==
  ASSUME DiskInv, FilesKept, UNCHANGED <<up, litter>>,
         up.at = "publish" => up.key \in Key /\ job'[up.key].source = job[up.key].source
  PROVE  DiskInv'
<1>1. FilesKnown(job)' /\ Published(job)' = Published(job)
  BY KeptBytes
<1> QED BY <1>1 DEF DiskInv, FilesKept

LEMMA DiskLeaves ==
  ASSUME DiskInv, UNCHANGED <<job, litter>>, Leave
  PROVE  DiskInv'
<1>1. FilesKept
  BY DEF FilesKept
<1>2. FilesKnown(job)' /\ Published(job)' = Published(job) /\ Published(job) \in Nat
  BY <1>1, KeptBytes
<1>3. up'.got = 0 /\ up'.used = 0 /\ up'.at = "idle"
  BY DEF Leave, Idle
<1> QED BY <1>1, <1>2, <1>3, LimitsAssumption DEF DiskInv, FilesKept, Held

LEMMA DiskInit == Init => DiskInv
<1> SUFFICES ASSUME Init PROVE DiskInv
  OBVIOUS
<1>1. Held(job) = {}
  BY DEF Init, NoJob, Held
<1>2. FilesKnown(job)
  BY <1>1, FS_EmptySet DEF FilesKnown
<1>3. Published(job) = 0
  <2>1. IsFiniteSet(Held(job)) /\ Sizes(job) \in [Held(job) -> Int]
    BY <1>2, SizesAre DEF FilesKnown
  <2>2. Total(Sizes(job), Held(job)) = 0
    BY <1>1, <2>1, TotalIs
  <2> QED BY <1>2, <2>2, PublishedIs
<1>4. up = Idle /\ litter = [bytes |-> 0, shared |-> 0]
  BY DEF Init
<1>5. \A k \in Key : ~job[k].stored
  BY <1>1 DEF Held
<1> QED BY <1>2, <1>3, <1>4, <1>5, LimitsAssumption DEF DiskInv, Idle

LEMMA ReserveDisk ==
  ASSUME DiskInv, NEW k \in Key, NEW c \in Content, Reserve(k, c) PROVE DiskInv'
<1>1. FilesKept /\ UNCHANGED <<job, litter>>
  BY DEF FilesKept, Reserve
<1>2. FilesKnown(job)' /\ Published(job)' = Published(job)
  BY <1>1, KeptBytes
<1>3. up'.at = "measure" /\ up'.got = 0 /\ up'.used = 0 /\ up.got = 0
  BY DEF Reserve, Idle, DiskInv
<1> QED BY <1>1, <1>2, <1>3 DEF DiskInv

LEMMA MeasureDisk == ASSUME ImportInv, DiskInv, Measure PROVE DiskInv'
<1>1. FilesKept /\ UNCHANGED <<job, litter>> /\ up.at = "measure" /\ up.got = 0
  BY DEF FilesKept, Measure, DiskInv
<1>2. FilesKnown(job)' /\ Published(job)' = Published(job) /\ Published(job) \in Nat
  BY <1>1, KeptBytes
<1>3. up.file.size \in Nat
  BY <1>1, ContentAssumption DEF ImportInv, Shape, UpShape
<1>4. SourceBytes = Published(job) + litter.bytes + up.got
  BY DEF SourceBytes, Published, Held, Stored
<1>5. PICK declared \in {0, up.file.size} :
        IF WithinQuota(SourceBytes, declared)
        THEN up' = [up EXCEPT !.at = "stream", !.used = SourceBytes]
        ELSE Leave
  BY DEF Measure
<1>6. CASE WithinQuota(SourceBytes, declared)
  <2>1. up' = [up EXCEPT !.at = "stream", !.used = SourceBytes]
    BY <1>5, <1>6
  <2>2. up'.at = "stream" /\ up'.used = SourceBytes /\ up'.got = 0 /\ up'.file = up.file
    BY <1>1, <2>1 DEF ImportInv, Shape, UpShape
  <2>3. SourceBytes = Published(job) + litter.bytes /\ SourceBytes \in Nat /\ SourceBytes <= Quota
    BY <1>1, <1>2, <1>3, <1>4, <1>6, LimitsAssumption DEF WithinQuota, DiskInv
  <2> QED BY <1>1, <1>2, <1>3, <2>2, <2>3 DEF DiskInv
<1>7. CASE ~WithinQuota(SourceBytes, declared)
  BY <1>1, <1>5, <1>7, DiskLeaves
<1> QED BY <1>6, <1>7

LEMMA StreamDisk == ASSUME ImportInv, DiskInv, Stream PROVE DiskInv'
<1>1. FilesKept /\ UNCHANGED <<job, litter>> /\ up.at = "stream" /\ up.got < up.file.size
  BY DEF FilesKept, Stream
<1>2. FilesKnown(job)' /\ Published(job)' = Published(job) /\ Published(job) \in Nat
  BY <1>1, KeptBytes
<1>3. up.file.size \in Nat
  BY <1>1, ContentAssumption DEF ImportInv, Shape, UpShape
<1>4. CASE WithinQuota(up.used + up.got, 1) /\ up' = [up EXCEPT !.got = @ + 1]
  <2>1. up'.at = "stream" /\ up'.used = up.used /\ up'.got = up.got + 1 /\ up'.file = up.file
    BY <1>1, <1>4 DEF ImportInv, Shape, UpShape
  <2>2. up.used + (up.got + 1) <= Quota
    BY <1>4, LimitsAssumption DEF WithinQuota, DiskInv
  <2> QED BY <1>1, <1>2, <1>3, <2>1, <2>2, LimitsAssumption DEF DiskInv
<1>5. CASE Leave
  BY <1>1, <1>5, DiskLeaves
<1> QED BY <1>4, <1>5 DEF Stream

LEMMA CreateImportDisk == ASSUME ImportInv, DiskInv, CreateImport PROVE DiskInv'
<1>1. /\ up.key \in Key /\ up.file \in Content /\ UNCHANGED litter /\ job \in [Key -> JobRow]
      /\ up.at = "stream" /\ up.got = up.file.size
  BY DEF CreateImport, ImportInv, Shape, UpShape
<1>2. PICK k \in Key : k = up.key
  BY <1>1
<1>3. CASE /\ job[k].state = "none"
           /\ job' = [job EXCEPT ![k] = [state |-> "receiving", ver |-> 1, source |-> up.file,
                                         stored |-> FALSE]]
           /\ up' = [up EXCEPT !.at = "publish", !.saw = "receiving", !.ver = 1, !.fresh = TRUE]
  <2>1. ~job[k].stored
    BY <1>3 DEF DiskInv
  <2>2. FilesKept /\ job'[k].source = up.file
    BY <1>1, <1>3, <2>1 DEF FilesKept, JobRow
  <2>3. FilesKnown(job)' /\ Published(job)' = Published(job) /\ Published(job) \in Nat
    BY <2>2, KeptBytes
  <2>4. up'.at = "publish" /\ up'.got = up.got /\ up'.used = up.used /\ up'.file = up.file /\ up'.key = k
    BY <1>2, <1>3 DEF ImportInv, Shape, UpShape
  <2>5. job'[k].state # "none"
    BY <1>1, <1>3
  <2> QED BY <1>1, <2>2, <2>3, <2>4, <2>5 DEF DiskInv, FilesKept
<1>4. CASE /\ job[k].state # "none" /\ job[k].source = up.file /\ job' = job
           /\ up' = [up EXCEPT !.at = "publish", !.saw = job[k].state, !.ver = job[k].ver]
  <2>1. up'.at = "publish" /\ up'.got = up.got /\ up'.used = up.used /\ up'.file = up.file /\ up'.key = k
    BY <1>2, <1>4 DEF ImportInv, Shape, UpShape
  <2>2. FilesKept
    BY <1>4 DEF FilesKept
  <2>3. FilesKnown(job)' /\ Published(job)' = Published(job) /\ Published(job) \in Nat
    BY <2>2, KeptBytes
  <2> QED BY <1>1, <1>4, <2>1, <2>3 DEF DiskInv
<1>5. CASE Leave /\ job' = job
  BY <1>1, <1>5, DiskLeaves
<1> QED BY <1>2, <1>3, <1>4, <1>5 DEF CreateImport

LEMMA PublishUploadDisk == ASSUME ImportInv, DiskInv, PublishUpload PROVE DiskInv'
<1>1. /\ up.key \in Key /\ up.file \in Content /\ UNCHANGED litter /\ job \in [Key -> JobRow]
      /\ up.at = "publish" /\ up.got = up.file.size /\ job[up.key].source = up.file /\ job[up.key].state # "none"
  BY DEF PublishUpload, ImportInv, Shape, UpShape, DiskInv
<1>2. PICK k \in Key : k = up.key
  BY <1>1
<1>3. job' = [job EXCEPT ![k].stored = TRUE]
  BY <1>2 DEF PublishUpload
<1>4. /\ job'[k].stored /\ job'[k].source = up.file /\ job'[k].state # "none"
      /\ \A j \in Key \ {k} : job'[j] = job[j]
  BY <1>1, <1>2, <1>3 DEF JobRow
<1>5. up'.at \in {"queue", "reply"} /\ up'.got = 0 /\ up'.used = up.used
  BY DEF PublishUpload, ImportInv, Shape, UpShape
<1>6. Published(job) \in Nat /\ FilesKnown(job)
  BY PublishedIsNat DEF DiskInv
<1>7. FilesKnown(job)' /\ Published(job)' \in Nat /\ Published(job)' <= Published(job) + up.got
  <2>1. CASE job[k].stored
    <3>1. FilesKept
      BY <1>1, <1>2, <1>4, <2>1 DEF FilesKept, JobRow
    <3> QED BY <1>6, <3>1, KeptBytes DEF DiskInv
  <2>2. CASE ~job[k].stored
    <3>1. FilesKnown(job') /\ Published(job') = Published(job) + job'[k].source.size
      BY <1>1, <1>4, <1>6, <2>2, OneMoreFile
    <3> QED BY <1>1, <1>4, <1>6, <3>1 DEF DiskInv
  <2> QED BY <2>1, <2>2 DEF JobRow
<1> QED BY <1>1, <1>4, <1>5, <1>6, <1>7, LimitsAssumption DEF DiskInv

LEMMA QueueImportDisk == ASSUME ImportInv, DiskInv, QueueImport PROVE DiskInv'
<1>1. up.key \in Key /\ UNCHANGED litter /\ up.at = "queue"
  BY DEF QueueImport, ImportInv, Shape, UpShape
<1>2. PICK k \in Key : k = up.key
  BY <1>1
<1>3. job[k].ver \in Nat
  BY DEF ImportInv, Shape, JobRow
<1>4. Moves(job, job', k, "queued_parse", job[k].ver + 1)
  <2>1. job' = [job EXCEPT ![k].state = "queued_parse", ![k].ver = job[k].ver + 1]
    BY <1>2 DEF QueueImport
  <2>2. "queued_parse" \in JobState /\ job \in [Key -> JobRow]
    BY DEF JobState, ImportInv, Shape
  <2>3. job[k].ver + 1 \in Nat
    BY <1>3
  <2> QED BY <2>1, <2>2, <2>3, RowMoves
<1>5. FilesKept
  BY <1>4 DEF Moves, FilesKept
<1>6. FilesKnown(job)' /\ Published(job)' = Published(job)
  BY <1>5, KeptBytes
<1>7. up'.at = "reply" /\ up'.got = up.got /\ up'.used = up.used
  BY DEF QueueImport, ImportInv, Shape, UpShape
<1> QED BY <1>1, <1>5, <1>6, <1>7 DEF DiskInv, FilesKept

LEMMA CrashDisk == ASSUME ImportInv, DiskInv, Crash PROVE DiskInv'
<1>1. up'.at = "idle" /\ up'.got = 0 /\ up'.used = 0
  BY DEF Crash, Idle
<1>2. Published(job) \in Nat /\ FilesKnown(job) /\ job \in [Key -> JobRow]
  BY PublishedIsNat DEF DiskInv, ImportInv, Shape
<1>3. CASE litter' = [litter EXCEPT !.bytes = @ + up.got] /\ job' = job
  <2>1. litter'.bytes = litter.bytes + up.got /\ litter'.shared = litter.shared
        /\ litter' = [bytes |-> litter'.bytes, shared |-> litter'.shared]
    BY <1>3 DEF DiskInv
  <2>2. FilesKnown(job)' /\ Published(job)' = Published(job)
    BY <1>2, <1>3
  <2> QED BY <1>1, <1>2, <1>3, <2>1, <2>2, LimitsAssumption DEF DiskInv
<1>4. CASE /\ up.at = "publish" /\ up.saw = "receiving" /\ ~job[up.key].stored
           /\ job' = [job EXCEPT ![up.key].stored = TRUE]
           /\ litter' = [bytes |-> litter.bytes + up.got, shared |-> litter.shared + up.got]
  <2>1. /\ up.key \in Key /\ up.file \in Content /\ up.got = up.file.size /\ job[up.key].source = up.file
    BY <1>4 DEF ImportInv, Shape, UpShape, DiskInv
  <2>2. PICK k \in Key : k = up.key
    BY <2>1
  <2>3. /\ job'[k].stored /\ job'[k].source = up.file /\ job'[k].state = job[k].state
        /\ \A j \in Key \ {k} : job'[j] = job[j]
    BY <1>2, <1>4, <2>1, <2>2 DEF JobRow
  <2>4. FilesKnown(job') /\ Published(job') = Published(job) + up.got
    <3>1. ~job[k].stored /\ job'[k].source \in Content /\ FilesKnown(job)
      BY <1>2, <1>4, <2>1, <2>2, <2>3
    <3>2. FilesKnown(job') /\ Published(job') = Published(job) + job'[k].source.size
      BY <2>3, <3>1, OneMoreFile
    <3> QED BY <2>1, <2>3, <3>2
  <2>5. litter'.bytes = litter.bytes + up.got /\ litter'.shared = litter.shared + up.got
        /\ litter' = [bytes |-> litter'.bytes, shared |-> litter'.shared]
    BY <1>4
  <2>6. \A j \in Key : job'[j].stored => job'[j].state # "none"
    BY <1>4, <2>2, <2>3 DEF DiskInv
  <2> QED BY <1>1, <1>2, <2>4, <2>5, <2>6, LimitsAssumption DEF DiskInv
<1> QED BY <1>3, <1>4 DEF Crash

\* The steps of the parse and of the tabs change no file.
LEMMA OthersKeepFiles ==
  ASSUME ImportInv, (\E k \in Key : Parse(k) \/ ParseLost(k)) \/ (\E t \in Tab : Browse(t))
  PROVE  /\ UNCHANGED <<up, litter>>
         /\ \A k \in Key :
              /\ job'[k].stored = job[k].stored /\ job'[k].source = job[k].source
              /\ job[k].state # "none" => job'[k].state # "none"
<1> DEFINE Keeps ==
             /\ UNCHANGED <<up, litter>>
             /\ \A k \in Key :
                  /\ job'[k].stored = job[k].stored /\ job'[k].source = job[k].source
                  /\ job[k].state # "none" => job'[k].state # "none"
<1>0. job \in [Key -> JobRow]
  BY DEF ImportInv, Shape
<1>1. ASSUME UNCHANGED <<up, litter, job>> PROVE Keeps
  BY <1>1
<1>2. ASSUME UNCHANGED <<up, litter>>, NEW k \in Key, NEW s \in JobState,
             job' = [job EXCEPT ![k].state = s, ![k].ver = @ + 1], s # "none"
      PROVE  Keeps
  <2>1. job[k].ver + 1 \in Nat
    BY <1>0 DEF JobRow
  <2>2. Moves(job, job', k, s, job[k].ver + 1)
    BY <1>0, <1>2, <2>1, RowMoves
  <2> QED BY <1>2, <2>2 DEF Moves
<1> HIDE DEF Keeps
<1>3. ASSUME NEW k \in Key, Parse(k) \/ ParseLost(k) PROVE Keeps
  <2>1. BeginParse(k) => Keeps
    BY <1>2 DEF BeginParse, JobState
  <2>2. PublishPreview(k) => Keeps
    BY <1>2 DEF PublishPreview, JobState
  <2>3. FailRun(k) => Keeps
    BY <1>2 DEF FailRun, JobState
  <2>4. AppendChunk(k) \/ SealRun(k) \/ ParseError(k) \/ ParseLost(k) => Keeps
    BY <1>1 DEF AppendChunk, SealRun, ParseError, ParseLost
  <2> QED BY <1>3, <2>1, <2>2, <2>3, <2>4 DEF Parse
<1>4. ASSUME NEW t \in Tab, Browse(t) PROVE Keeps
  <2>1. ASSUME NEW k \in Key, Look(t, k) PROVE Keeps
    BY <1>1, <2>1 DEF Look
  <2>2. ASSUME NEW s \in Site, NEW c, Decide(t, s, c) PROVE Keeps
    BY <1>1, <2>2 DEF Decide
  <2>3. KeepAll(t) \/ CheckApply(t) => Keeps
    BY <1>1 DEF KeepAll, CheckApply
  <2>4. CommitApply(t) => Keeps
    <3> SUFFICES ASSUME CommitApply(t) PROVE Keeps
      OBVIOUS
    <3>1. tab[t].key \in Key /\ UNCHANGED <<up, litter>>
      BY DEF CommitApply, ImportInv, TabOK
    <3> QED BY <1>1, <1>2, <3>1 DEF CommitApply, JobState
  <2> QED BY <1>4, <2>1, <2>2, <2>3, <2>4 DEF Browse
<1> QED BY <1>3, <1>4 DEF Keeps

LEMMA StepDisk == ImportInv /\ DiskInv /\ [Next]_vars => DiskInv'
<1> SUFFICES ASSUME ImportInv, DiskInv, [Next]_vars PROVE DiskInv'
  OBVIOUS
<1>1. ASSUME NEW k \in Key, NEW c \in Content, Reserve(k, c) PROVE DiskInv'
  BY <1>1, ReserveDisk
<1>2. ASSUME Handle PROVE DiskInv'
  <2>1. Reply => DiskInv'
    BY DiskLeaves DEF Reply
  <2> QED BY <1>2, <2>1, MeasureDisk, StreamDisk, CreateImportDisk, PublishUploadDisk, QueueImportDisk DEF Handle
<1>3. ASSUME UploadFails PROVE DiskInv'
  BY <1>3, DiskLeaves DEF UploadFails
<1>4. ASSUME (\E k \in Key : Parse(k) \/ ParseLost(k)) \/ (\E t \in Tab : Browse(t)) PROVE DiskInv'
  <2>1. /\ UNCHANGED <<up, litter>>
        /\ \A k \in Key :
             /\ job'[k].stored = job[k].stored /\ job'[k].source = job[k].source
             /\ job[k].state # "none" => job'[k].state # "none"
    BY <1>4, OthersKeepFiles
  <2>2. FilesKept
    BY <2>1 DEF FilesKept
  <2>3. up.at = "publish" => up.key \in Key
    BY DEF ImportInv, Shape, UpShape
  <2> QED BY <2>1, <2>2, <2>3, DiskAlone
<1>5. ASSUME EditLibrary \/ UNCHANGED vars PROVE DiskInv'
  <2>1. UNCHANGED <<up, litter, job>>
    BY <1>5 DEF EditLibrary, vars
  <2>2. FilesKept /\ (up.at = "publish" => up.key \in Key)
    BY <2>1 DEF FilesKept, ImportInv, Shape, UpShape
  <2> QED BY <2>1, <2>2, DiskAlone
<1>6. ASSUME Crash PROVE DiskInv'
  BY <1>6, CrashDisk
<1> QED BY <1>1, <1>2, <1>3, <1>4, <1>5, <1>6 DEF Next

LEMMA DiskWithin == DiskInv => QuotaKept
<1> SUFFICES ASSUME DiskInv PROVE QuotaKept
  OBVIOUS
<1>1. MapThenSumSet(LAMBDA k : job[k].source.size, Stored) = Published(job)
  BY DEF Published, Held, Stored
<1> QED BY <1>1 DEF DiskInv, QuotaKept

\* The bytes the account has on disk stay within its quota.
THEOREM QuotaIsKept == Spec => []QuotaKept
BY InitImport, StepImport, DiskInit, StepDisk, DiskWithin, PTL DEF Spec

-----------------------------------------------------------------------------
\* What the shape above leaves out of the types.
RestOK ==
  /\ up.at \in {"idle", "measure", "stream", "publish", "queue", "reply"}
  /\ up.key \in Key \cup {None} /\ up.fresh \in BOOLEAN
  /\ \A k \in Key : /\ preview[k].skip = preview[k].cands \cap preview[k].seen
                      /\ preview[k].cands \subseteq Url
                      /\ IsFiniteSet(run[k].cands)
  /\ library \subseteq Url

LEMMA RestInit == Init => RestOK
<1> SUFFICES ASSUME Init PROVE RestOK
  OBVIOUS
<1>1. \A k \in Key : run[k].cands = {} /\ preview[k].cands = {} /\ preview[k].skip = {}
  BY DEF Init, NoRun, NoView
<1>2. IsFiniteSet({})
  BY FS_EmptySet
<1>3. up = Idle /\ library \subseteq Url
  BY LibraryAssumption DEF Init
<1> QED BY <1>1, <1>2, <1>3 DEF RestOK, Idle

LEMMA CanonicalIsUrl == ASSUME NEW p, NEW s \in Site, p.cands \subseteq Url PROVE Canonical(p, s) \in Url
BY SiteAssumption DEF Canonical, Members

LEMMA RestAlone == ASSUME RestOK, UNCHANGED <<run, preview, library>>, UNCHANGED up \/ Leave PROVE RestOK'
<1>1. CASE UNCHANGED up
  BY <1>1 DEF RestOK
<1>2. CASE Leave
  BY <1>2 DEF RestOK, Leave, Idle
<1> QED BY <1>1, <1>2

LEMMA StepRest == ImportInv /\ RestOK /\ [Next]_vars => RestOK'
<1> SUFFICES ASSUME ImportInv, RestOK, [Next]_vars PROVE RestOK'
  OBVIOUS
<1>1. ASSUME NEW k \in Key, NEW c \in Content, Reserve(k, c) PROVE RestOK'
  BY <1>1 DEF Reserve, RestOK, Idle, stages
<1>2. ASSUME Handle PROVE RestOK'
  <2>1. Measure => RestOK'
    <3> SUFFICES ASSUME Measure PROVE RestOK'
      OBVIOUS
    <3>1. UNCHANGED <<run, preview, library>>
      BY DEF Measure, stages
    <3>2. CASE up' = [up EXCEPT !.at = "stream", !.used = SourceBytes]
      BY <3>1, <3>2 DEF RestOK, ImportInv, Shape, UpShape
    <3> QED BY <3>1, <3>2, RestAlone DEF Measure
  <2>2. Stream => RestOK'
    <3> SUFFICES ASSUME Stream PROVE RestOK'
      OBVIOUS
    <3>1. UNCHANGED <<run, preview, library>>
      BY DEF Stream, stages
    <3>2. CASE up' = [up EXCEPT !.got = @ + 1]
      BY <3>1, <3>2 DEF RestOK, ImportInv, Shape, UpShape
    <3> QED BY <3>1, <3>2, RestAlone DEF Stream
  <2>3. CreateImport => RestOK'
    <3> SUFFICES ASSUME CreateImport PROVE RestOK'
      OBVIOUS
    <3>1. UNCHANGED <<run, preview, library>>
      BY DEF CreateImport, stages
    <3>2. CASE up' = [up EXCEPT !.at = "publish", !.saw = "receiving", !.ver = 1, !.fresh = TRUE]
      BY <3>1, <3>2 DEF RestOK, ImportInv, Shape, UpShape
    <3>3. CASE up' = [up EXCEPT !.at = "publish", !.saw = job[up.key].state, !.ver = job[up.key].ver]
      BY <3>1, <3>3 DEF RestOK, ImportInv, Shape, UpShape
    <3> QED BY <3>1, <3>2, <3>3, RestAlone DEF CreateImport
  <2>4. PublishUpload => RestOK'
    BY DEF PublishUpload, stages, RestOK, ImportInv, Shape, UpShape
  <2>5. QueueImport => RestOK'
    BY DEF QueueImport, stages, RestOK, ImportInv, Shape, UpShape
  <2>6. Reply => RestOK'
    BY RestAlone DEF Reply
  <2> QED BY <1>2, <2>1, <2>2, <2>3, <2>4, <2>5, <2>6 DEF Handle
<1>3. ASSUME UploadFails PROVE RestOK'
  BY <1>3, RestAlone DEF UploadFails, stages
<1>4. ASSUME NEW k \in Key, Parse(k) \/ ParseLost(k) PROVE RestOK'
  <2>1. PublishPreview(k) => RestOK'
    <3> SUFFICES ASSUME PublishPreview(k) PROVE RestOK'
      OBVIOUS
    <3>1. /\ UNCHANGED <<up, library>> /\ run[k].cands \subseteq Url /\ preview = [j \in Key |-> preview[j]]
          /\ preview' = [preview EXCEPT ![k] =
                   [cands |-> run[k].cands, skip |-> Matched(k),
                    homes |-> {s \in Site : HomeOf(s) \in library}, seen |-> library]]
      BY DEF PublishPreview, ImportInv, Shape
    <3>0. run' = [run EXCEPT ![k].state = "complete"] /\ run \in [Key -> [state : RunState, chunks : Nat, cands : SUBSET Url]]
      BY DEF PublishPreview, ImportInv, Shape
    <3>2. /\ preview'[k].cands = run[k].cands /\ preview'[k].skip = Matched(k)
          /\ preview'[k].seen = library /\ \A j \in Key : run'[j].cands = run[j].cands
          /\ \A j \in Key \ {k} : preview'[j] = preview[j]
      BY <3>0, <3>1
    <3> QED BY <3>1, <3>2 DEF RestOK, Matched
  <2>3. run \in [Key -> [state : RunState, chunks : Nat, cands : SUBSET Url]] /\ IsFiniteSet(run[k].cands)
    BY DEF RestOK, ImportInv, Shape
  <2>2. ASSUME UNCHANGED <<up, preview, library>>, run' = [run EXCEPT ![k] = run'[k]], IsFiniteSet(run'[k].cands)
        PROVE  RestOK'
    <3>1. \A j \in Key \ {k} : run'[j] = run[j]
      BY <2>2, <2>3
    <3> QED BY <2>2, <3>1 DEF RestOK
  <2>4. BeginParse(k) => RestOK'
    <3> SUFFICES ASSUME BeginParse(k) PROVE RestOK'
      OBVIOUS
    <3>1. UNCHANGED <<up, preview, library>> /\ run' = [run EXCEPT ![k] = [NoRun EXCEPT !.state = "running"]]
      BY DEF BeginParse
    <3>2. run'[k].cands = {} /\ run' = [run EXCEPT ![k] = run'[k]]
      BY <2>3, <3>1 DEF NoRun
    <3> QED BY <2>2, <3>1, <3>2, FS_EmptySet
  <2>5. AppendChunk(k) => RestOK'
    <3> DEFINE n == run[k].chunks + 1
    <3> SUFFICES ASSUME AppendChunk(k) PROVE RestOK'
      OBVIOUS
    <3>1. /\ UNCHANGED <<up, preview, library>> /\ n <= Len(Parts(k)) /\ task[k].at = "append"
          /\ run' = [run EXCEPT ![k].chunks = n, ![k].cands = Staged(k, n)]
      BY DEF AppendChunk
    <3>2. run'[k].cands = run[k].cands \cup Parts(k)[n] /\ run' = [run EXCEPT ![k] = run'[k]]
      BY <2>3, <3>1 DEF Staged
    <3>3. job[k].source \in Content
      BY <3>1, TaskKnows
    <3>4. IsFiniteSet(Parts(k)[n])
      <4>1. Parts(k) = job[k].source.parts /\ n \in 1 .. Len(Parts(k))
        BY <2>3, <3>1, <3>3, ContentAssumption DEF Parts
      <4> HIDE DEF n
      <4> QED BY <3>3, <4>1, ContentAssumption
    <3> QED BY <2>2, <2>3, <3>1, <3>2, <3>4, FS_Union
  <2>6. ASSUME UNCHANGED <<up, preview, library>>, NEW z, run' = [run EXCEPT ![k].state = z] PROVE RestOK'
    <3>1. run'[k].cands = run[k].cands /\ run' = [run EXCEPT ![k] = run'[k]]
      BY <2>3, <2>6
    <3> QED BY <2>2, <2>3, <2>6, <3>1
  <2>7. SealRun(k) \/ FailRun(k) => RestOK'
    BY <2>6 DEF SealRun, FailRun
  <2>8. ParseError(k) => RestOK'
    BY <2>6, RestAlone DEF ParseError
  <2>9. ParseLost(k) => RestOK'
    BY RestAlone DEF ParseLost
  <2> QED BY <1>4, <2>1, <2>4, <2>5, <2>7, <2>8, <2>9 DEF Parse
<1>5. ASSUME NEW t \in Tab, Browse(t) PROVE RestOK'
  <2>1. ASSUME NEW k \in Key, Look(t, k) PROVE RestOK'
    BY <2>1, RestAlone DEF Look, stages
  <2>2. ASSUME NEW s \in Site, NEW c, Decide(t, s, c) PROVE RestOK'
    BY <2>2, RestAlone DEF Decide
  <2>3. KeepAll(t) \/ CheckApply(t) => RestOK'
    BY RestAlone DEF KeepAll, CheckApply, stages
  <2>4. CommitApply(t) => RestOK'
    <3> SUFFICES ASSUME CommitApply(t) PROVE RestOK'
      OBVIOUS
    <3>1. PICK k \in Key : k = tab[t].key
      BY DEF CommitApply, ImportInv, TabOK
    <3>2. UNCHANGED <<up, run, preview>>
      BY DEF CommitApply, stages
    <3>3. Written(k) \subseteq Url
      <4>1. \A s \in Merged(k) : s \in Site
        BY DEF Merged, Groups
      <4>2. preview[k].cands \subseteq Url
        BY DEF RestOK
      <4>3. \A s \in Merged(k) : Canonical(preview[k], s) \in Url
        BY <4>1, <4>2, CanonicalIsUrl
      <4> QED BY <4>2, <4>3 DEF Written
    <3>4. library' = library \/ library' = library \cup Written(k)
      BY <3>1 DEF CommitApply
    <3> QED BY <3>2, <3>3, <3>4 DEF RestOK
  <2> QED BY <1>5, <2>1, <2>2, <2>3, <2>4 DEF Browse
<1>6. ASSUME EditLibrary PROVE RestOK'
  BY <1>6 DEF EditLibrary, RestOK, stages
<1>7. ASSUME Crash PROVE RestOK'
  BY <1>7, RestAlone DEF Crash, Leave
<1>8. ASSUME UNCHANGED vars PROVE RestOK'
  BY <1>8, RestAlone DEF vars, stages
<1> QED BY <1>1, <1>2, <1>3, <1>4, <1>5, <1>6, <1>7, <1>8 DEF Next

LEMMA InvTypes == ImportInv /\ DiskInv /\ RestOK => TypeOK
<1> SUFFICES ASSUME ImportInv, DiskInv, RestOK PROVE TypeOK
  OBVIOUS
<1>1. litter \in [bytes : Nat, shared : Nat] /\ up.got \in Nat /\ up.used \in Nat
  BY DEF DiskInv
<1>2. /\ up.at \in {"idle", "measure", "stream", "publish", "queue", "reply"}
      /\ up.key \in Key \cup {None} /\ up.ver \in Nat /\ up.fresh \in BOOLEAN /\ library \subseteq Url
  BY DEF RestOK, ImportInv, Shape, UpShape
<1>3. ASSUME NEW k \in Key
      PROVE  /\ job[k].state \in {"none", "receiving", "queued_parse", "parsing"} \cup Settled
             /\ job[k].ver \in 0..5 /\ job[k].stored \in BOOLEAN
             /\ run[k].state \in {"none", "running", "finalizing", "complete", "failed"}
             /\ run[k].cands \subseteq Url
             /\ task[k].at \in {"none", "begin", "append", "publish", "fail", "lost"}
             /\ preview[k].skip \subseteq preview[k].cands
             /\ dec[k].of \in [Site -> {"unresolved", "merge_to_homepage", "keep_originals"}]
  <2>1. job[k] \in JobRow /\ JobOK(k)
    BY DEF ImportInv, Shape
  <2>2. /\ job[k].state \in {"none", "receiving", "queued_parse", "parsing"} \cup Settled
        /\ job[k].ver \in 0..5 /\ job[k].stored \in BOOLEAN
    BY <2>1 DEF JobRow, JobState, JobOK, Settled, Previews
  <2>3. /\ run[k].state \in {"none", "running", "finalizing", "complete", "failed"}
        /\ run[k].cands \subseteq Url
        /\ task[k].at \in {"none", "begin", "append", "publish", "fail", "lost"}
        /\ dec[k].of \in [Site -> {"unresolved", "merge_to_homepage", "keep_originals"}]
    BY DEF ImportInv, Shape, RunState, TaskAt, ChoiceRow, Choice
  <2> QED BY <2>2, <2>3 DEF RestOK
<1>4. \A t \in Tab : tab[t].at \in {"idle", "applying"} /\ tab[t].key \in Key \cup {None}
  BY DEF ImportInv, Shape
<1> QED BY <1>1, <1>2, <1>3, <1>4 DEF TypeOK

\* Every variable keeps its shape.
THEOREM Types == Spec => []TypeOK
BY InitImport, StepImport, DiskInit, StepDisk, RestInit, StepRest, InvTypes, PTL DEF Spec

-----------------------------------------------------------------------------
(* The number a preview announces. *)

\* Of a preview p: the pages made one by one when the groups T are merged, and
\* the pages those groups become.
Singles(p, T)  == {u \in Creates(p) : SiteOf(u) \notin T}
Homes(p, T)    == {Canonical(p, s) : s \in {m \in T : MergeCreates(p, m) = 1}}
Less(p, s)     == Cardinality(Members(p, s) \cap Creates(p)) - MergeCreates(p, s)

\* The page a group becomes is a page of its authority.
LEMMA CanonicalIsOfSite == ASSUME NEW p, NEW s \in Site PROVE SiteOf(Canonical(p, s)) = s
BY SiteAssumption DEF Canonical, Members

LEMMA GroupsFinite ==
  ASSUME NEW p, IsFiniteSet(p.cands)
  PROVE  IsFiniteSet(Groups(p))
<1> DEFINE D == {u \in p.cands : SiteOf(u) \in Groups(p)}
           f == [u \in D |-> SiteOf(u)]
<1>1. IsFiniteSet(D)
  BY FS_Subset
<1>2. \A s \in Groups(p) : \E u \in D : f[u] = s
  <2> SUFFICES ASSUME NEW s \in Groups(p) PROVE \E u \in D : f[u] = s
    OBVIOUS
  <2>1. Members(p, s) # {}
    BY FS_EmptySet DEF Groups
  <2> QED BY <2>1 DEF Members
<1>3. f \in Surjection(D, Groups(p))
  BY <1>2 DEF Surjection
<1> HIDE DEF D, f
<1> QED BY <1>1, <1>3, FS_Surjection

\* Merging one more group.
LEMMA OneMoreGroup ==
  ASSUME NEW p, IsFiniteSet(p.cands), NEW T \in SUBSET Site, NEW x \in T, IsFiniteSet(Homes(p, T \ {x}))
  PROVE  /\ IsFiniteSet(Homes(p, T))
         /\ Cardinality(Singles(p, T)) + Cardinality(Homes(p, T))
              = (Cardinality(Singles(p, T \ {x})) + Cardinality(Homes(p, T \ {x}))) - Less(p, x)
         /\ Cardinality(Singles(p, T)) \in Int /\ Cardinality(Homes(p, T)) \in Int /\ Less(p, x) \in Int
<1> DEFINE U == T \ {x}
           A == Singles(p, T)
           B == Members(p, x) \cap Creates(p)
           H == Homes(p, U)
<1>1. IsFiniteSet(A) /\ IsFiniteSet(B) /\ IsFiniteSet(Singles(p, U))
  <2>1. A \subseteq p.cands /\ B \subseteq p.cands /\ Singles(p, U) \subseteq p.cands
    BY DEF Singles, Creates
  <2> HIDE DEF A, B, U
  <2> QED BY <2>1, FS_Subset
<1>2. Cardinality(Singles(p, U)) = Cardinality(A) + Cardinality(B)
  <2>1. Singles(p, U) = A \cup B /\ A \cap B = {}
    BY DEF Singles, Members, Creates
  <2> HIDE DEF A, B, U
  <2>2. Cardinality(A \cup B) = Cardinality(A) + Cardinality(B) - Cardinality(A \cap B)
    BY <1>1, FS_Union
  <2>3. Cardinality(A) \in Nat /\ Cardinality(B) \in Nat /\ Cardinality(A \cap B) = 0
    BY <1>1, <2>1, FS_CardinalityType, FS_EmptySet
  <2> QED BY <2>1, <2>2, <2>3
<1>3. /\ IsFiniteSet(Homes(p, T))
      /\ Cardinality(Homes(p, T)) = Cardinality(H) + MergeCreates(p, x)
      /\ MergeCreates(p, x) \in {0, 1}
  <2>0. MergeCreates(p, x) \in {0, 1}
    BY DEF MergeCreates
  <2>1. CASE MergeCreates(p, x) = 1
    <3>1. Homes(p, T) = H \cup {Canonical(p, x)}
      BY <2>1 DEF Homes
    <3>2. Canonical(p, x) \notin H
      <4> SUFFICES ASSUME NEW s \in U, Canonical(p, x) = Canonical(p, s) PROVE FALSE
        BY DEF Homes
      <4> QED BY CanonicalIsOfSite
    <3>3. IsFiniteSet(H)
      OBVIOUS
    <3> HIDE DEF H, U
    <3>4. IsFiniteSet(H \cup {Canonical(p, x)}) /\ Cardinality(H \cup {Canonical(p, x)}) = Cardinality(H) + 1
      BY <3>2, <3>3, FS_AddElement
    <3> QED BY <2>1, <3>1, <3>4
  <2>2. CASE MergeCreates(p, x) = 0
    <3>1. Homes(p, T) = H
      BY <2>2 DEF Homes
    <3>2. IsFiniteSet(H) /\ Cardinality(H) \in Nat
      BY FS_CardinalityType
    <3> QED BY <2>2, <3>1, <3>2
  <2> QED BY <2>0, <2>1, <2>2
<1>4. Less(p, x) = Cardinality(B) - MergeCreates(p, x)
  BY DEF Less
<1>5. IsFiniteSet(H)
  OBVIOUS
<1> HIDE DEF A, B, H, U
<1>6. Cardinality(A) \in Nat /\ Cardinality(B) \in Nat /\ Cardinality(H) \in Nat
  BY <1>1, <1>5, FS_CardinalityType
<1>7. /\ Cardinality(A) + Cardinality(Homes(p, T)) = (Cardinality(Singles(p, U)) + Cardinality(H)) - Less(p, x)
      /\ Cardinality(Homes(p, T)) \in Int /\ Less(p, x) \in Int
  BY <1>2, <1>3, <1>4, <1>6
<1> QED BY <1>3, <1>6, <1>7 DEF A, H, U

\* What the merged groups take off the number of pages.
LEMMA GroupsTake ==
  ASSUME NEW p, IsFiniteSet(p.cands), NEW M \in SUBSET Site, IsFiniteSet(M),
         NEW f \in [M -> Int], \A s \in M : f[s] = Less(p, s), NEW g, Summing(g, f, M)
  PROVE  /\ IsFiniteSet(Homes(p, M))
         /\ Cardinality(Singles(p, M)) + Cardinality(Homes(p, M)) = Cardinality(Creates(p)) - g[M]
<1>1. /\ g[{}] = 0 /\ g \in [SUBSET M -> Int]
      /\ \A T \in SUBSET M : \A x \in T : g[T] = f[x] + g[T \ {x}]
  <2>1. SumLaw(g, f, M)
    BY SumsAre
  <2> QED BY <2>1 DEF SumLaw
<1>2. IsFiniteSet(Creates(p)) /\ Cardinality(Creates(p)) \in Nat
  <2>1. Creates(p) \subseteq p.cands
    BY DEF Creates
  <2>2. IsFiniteSet(Creates(p))
    BY <2>1, FS_Subset
  <2> QED BY <2>2, FS_CardinalityType
<1> DEFINE Right(T) == /\ IsFiniteSet(Homes(p, T))
                       /\ Cardinality(Singles(p, T)) + Cardinality(Homes(p, T)) = Cardinality(Creates(p)) - g[T]
           G == {T \in SUBSET M : Right(T)}
<1>3. ASSUME NEW T \in SUBSET M, \A U \in SUBSET T : U # T => U \in G PROVE T \in G
  <2>1. CASE T = {}
    <3>1. Singles(p, {}) = Creates(p) /\ Homes(p, {}) = {}
      BY DEF Singles, Homes
    <3>2. IsFiniteSet({}) /\ Cardinality({}) = 0
      BY FS_EmptySet
    <3>3. Cardinality(Creates(p)) + 0 = Cardinality(Creates(p)) - g[{}]
      BY <1>1, <1>2
    <3>4. Right({})
      BY <3>1, <3>2, <3>3
    <3> HIDE DEF Right
    <3> QED BY <2>1, <3>4
  <2>2. CASE T # {}
    <3>1. PICK x \in T : TRUE
      BY <2>2
    <3>2. Right(T \ {x})
      <4>1. T \ {x} \in SUBSET T /\ T \ {x} # T
        BY <3>1
      <4> QED BY <1>3, <4>1
    <3>3. IsFiniteSet(Homes(p, T \ {x})) /\ T \in SUBSET Site
      BY <3>2
    <3>4. /\ IsFiniteSet(Homes(p, T))
          /\ Cardinality(Singles(p, T)) + Cardinality(Homes(p, T))
               = (Cardinality(Singles(p, T \ {x})) + Cardinality(Homes(p, T \ {x}))) - Less(p, x)
          /\ Less(p, x) \in Int
      BY <3>1, <3>3, OneMoreGroup
    <3>5. g[T] = Less(p, x) + g[T \ {x}] /\ g[T \ {x}] \in Int
      BY <1>1, <3>1
    <3>6. Cardinality(Singles(p, T)) + Cardinality(Homes(p, T)) = Cardinality(Creates(p)) - g[T]
      <4> DEFINE a == Cardinality(Singles(p, T \ {x})) + Cardinality(Homes(p, T \ {x}))
                 b == Cardinality(Singles(p, T)) + Cardinality(Homes(p, T))
                 c == g[T \ {x}]
                 d == Cardinality(Creates(p))
      <4>1. a = d - c
        BY <3>2
      <4>2. b = a - Less(p, x) /\ Less(p, x) \in Int
        BY <3>4
      <4>3. g[T] = Less(p, x) + c /\ c \in Int /\ d \in Int
        BY <1>2, <3>5
      <4> HIDE DEF a, b, c, d
      <4>4. b = d - g[T]
        BY <4>1, <4>2, <4>3
      <4> QED BY <4>4 DEF b, d
    <3> QED BY <3>4, <3>6
  <2> QED BY <2>1, <2>2
<1>4. SUBSET M \subseteq G
  <2> HIDE DEF G
  <2> QED BY <1>3, SetInduct
<1> QED BY <1>4

LEMMA ProjectedIs ==
  ASSUME NEW k \in Key, IsFiniteSet(preview[k].cands)
  PROVE  /\ IsFiniteSet(Homes(preview[k], Merged(k)))
         /\ Cardinality(Singles(preview[k], Merged(k))) + Cardinality(Homes(preview[k], Merged(k))) = Projected(k)
<1> DEFINE p == preview[k]
           M == Merged(k)
           f == [s \in M |-> Less(p, s)]
           Fold(g) == g = [s \in SUBSET M |-> IF s = {} THEN 0 ELSE Reduction(k, Pick(s)) + g[s \ {Pick(s)}]]
<1>1. M \in SUBSET Site /\ IsFiniteSet(M)
  <2>1. M \subseteq Groups(p) /\ Groups(p) \subseteq Site
    BY DEF Merged, Groups
  <2> HIDE DEF M, p
  <2>2. IsFiniteSet(Groups(p))
    BY GroupsFinite DEF p
  <2> QED BY <2>1, <2>2, FS_Subset
<1>2. \A s \in M : Less(p, s) = Reduction(k, s) /\ Less(p, s) \in Int
  <2> SUFFICES ASSUME NEW s \in M PROVE Less(p, s) = Reduction(k, s) /\ Less(p, s) \in Int
    OBVIOUS
  <2>1. MergeCreates(p, s) \in Int
    BY DEF MergeCreates
  <2>2. Members(p, s) \cap Creates(p) \in SUBSET p.cands
    BY DEF Creates
  <2>3. IsFiniteSet(Members(p, s) \cap Creates(p))
    BY <2>2, FS_Subset
  <2>4. Cardinality(Members(p, s) \cap Creates(p)) \in Int
    BY <2>3, FS_CardinalityType
  <2> QED BY <2>1, <2>4 DEF Less, Reduction
<1>3. ASSUME NEW g PROVE Fold(g) <=> Summing(g, f, M)
  <2>1. \A s \in SUBSET M : s # {} => f[Pick(s)] = Reduction(k, Pick(s))
    BY <1>2, PickIs
  <2> HIDE DEF M, f, p
  <2>2. [s \in SUBSET M |-> IF s = {} THEN 0 ELSE Reduction(k, Pick(s)) + g[s \ {Pick(s)}]]
          = [s \in SUBSET M |-> IF s = {} THEN 0 ELSE f[Pick(s)] + g[s \ {Pick(s)}]]
    BY <2>1
  <2> QED BY <2>2 DEF Summing, SummingOn
<1>4. Projected(k) = Cardinality(Creates(p)) - (CHOOSE g : Fold(g))[M]
  BY DEF Projected, MapThenSumSet, MapThenFoldSet, Pick
<1> HIDE DEF Fold
<1>5. f \in [M -> Int] /\ \A s \in M : f[s] = Less(p, s)
  BY <1>2
<1> HIDE DEF M, f, p
<1>6. PICK c : c = (CHOOSE g : Fold(g)) /\ Fold(c)
  <2>1. \E g : Fold(g)
    BY <1>1, <1>3, SumsExist
  <2> QED BY <2>1
<1>7. Summing(c, f, M) /\ IsFiniteSet(p.cands)
  BY <1>3, <1>6 DEF p
<1>8. /\ IsFiniteSet(Homes(p, M))
      /\ Cardinality(Singles(p, M)) + Cardinality(Homes(p, M)) = Cardinality(Creates(p)) - c[M]
  BY <1>1, <1>5, <1>7, GroupsTake
<1> QED BY <1>4, <1>6, <1>8 DEF M, p

\* What a confirmation adds to the library its preview was made with.
LEMMA WrittenCount ==
  ASSUME NEW k \in Key, IsFiniteSet(preview[k].cands), library = preview[k].seen,
         preview[k].skip = preview[k].cands \cap preview[k].seen,
         preview[k].homes = {s \in Site : HomeOf(s) \in preview[k].seen}
  PROVE  Cardinality(Written(k)) = Projected(k)
<1> DEFINE p == preview[k]
           M == Merged(k)
<1>1. M \in SUBSET Site
  BY DEF Merged, Groups
<1>2. \A s \in M : MergeCreates(p, s) = 1 => Canonical(p, s) \notin library
  <2> SUFFICES ASSUME NEW s \in M, MergeCreates(p, s) = 1 PROVE Canonical(p, s) \notin library
    OBVIOUS
  <2>1. s \notin p.homes /\ Canonical(p, s) \notin p.skip /\ s \in Site
    BY <1>1 DEF MergeCreates
  <2>2. Canonical(p, s) = HomeOf(s) \/ Canonical(p, s) \in p.cands
    BY DEF Canonical, Members
  <2> QED BY <2>1, <2>2
<1>3. Written(k) = Singles(p, M) \cup Homes(p, M)
  <2>1. Homes(p, M) \cap library = {}
    BY <1>2 DEF Homes
  <2>2. {u \in p.cands : SiteOf(u) \notin M} \ library = Singles(p, M)
    BY DEF Singles, Creates
  <2>3. Written(k) = ({u \in p.cands : SiteOf(u) \notin M} \cup Homes(p, M)) \ library
    BY DEF Written, Homes
  <2> QED BY <2>1, <2>2, <2>3
<1>4. Singles(p, M) \cap Homes(p, M) = {}
  BY <1>1, CanonicalIsOfSite DEF Singles, Homes
<1>5. IsFiniteSet(Singles(p, M)) /\ IsFiniteSet(Homes(p, M))
  <2>1. Singles(p, M) \in SUBSET p.cands
    BY DEF Singles, Creates
  <2> QED BY <2>1, ProjectedIs, FS_Subset
<1>6. Cardinality(Singles(p, M)) + Cardinality(Homes(p, M)) = Projected(k)
  BY ProjectedIs
<1> HIDE DEF p, M
<1>7. /\ Cardinality(Singles(p, M) \cup Homes(p, M))
           = Cardinality(Singles(p, M)) + Cardinality(Homes(p, M)) - Cardinality(Singles(p, M) \cap Homes(p, M))
      /\ Cardinality(Singles(p, M)) \in Nat /\ Cardinality(Homes(p, M)) \in Nat
      /\ Cardinality(Singles(p, M) \cap Homes(p, M)) = 0
  BY <1>4, <1>5, FS_Union, FS_CardinalityType, FS_EmptySet
<1> QED BY <1>3, <1>6, <1>7

\* The only step that ends a job completed is the confirmation of a tab.
LEMMA CompletesBy ==
  ASSUME ImportInv, [Next]_vars, NEW k \in Key, Completes(k)
  PROVE  run[k].state = "complete" /\ library' = library \cup Written(k)
<1>1. ~Unapplied
  BY DEF Unapplied, Completes, Previews
<1>2. Next
  BY <1>1 DEF Unapplied, vars
<1>3. PICK t \in Tab : CommitApply(t)
  BY <1>1, <1>2, OnlyApply
<1>4. CASE tab[t].key = k
  BY <1>3, <1>4 DEF CommitApply, Completes, Previews, ImportInv, TabOK
<1>5. CASE tab[t].key # k
  <2>1. job'[k] = job[k]
    <3>1. job \in [Key -> JobRow]
      BY DEF ImportInv, Shape
    <3> QED BY <1>3, <1>5, <3>1 DEF CommitApply
  <2> QED BY <2>1 DEF Completes, Previews
<1> QED BY <1>4, <1>5

\* A step keeps what its preview announced.
ProjectedStep(k) ==
  Completes(k) /\ library = preview[k].seen => Cardinality(library' \ library) = Projected(k)

LEMMA StepProjected == ImportInv /\ RestOK /\ [Next]_vars => [\A k \in Key : ProjectedStep(k)]_vars
<1> SUFFICES ASSUME ImportInv, RestOK, [Next]_vars, NEW k \in Key, Completes(k), library = preview[k].seen
             PROVE  Cardinality(library' \ library) = Projected(k)
  BY DEF ProjectedStep
<1>1. run[k].state = "complete" /\ library' = library \cup Written(k)
  BY CompletesBy
<1>2. library' \ library = Written(k)
  BY <1>1 DEF Written
<1>3. /\ IsFiniteSet(preview[k].cands)
      /\ preview[k].homes = {s \in Site : HomeOf(s) \in preview[k].seen}
      /\ preview[k].skip = preview[k].cands \cap preview[k].seen
  BY <1>1 DEF ImportInv, RunOK, RestOK
<1>4. Cardinality(Written(k)) = Projected(k)
  BY <1>3, WrittenCount
<1> QED BY <1>2, <1>4

\* The number of sites a preview announces is the number its confirmation
\* makes, unless the library changed in between.
THEOREM ProjectionIsKept == Spec => ProjectionKept
BY InitImport, StepImport, RestInit, StepRest, StepProjected, PTL DEF Spec, ProjectionKept, ProjectedStep
=============================================================================
