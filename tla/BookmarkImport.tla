---------------------------- MODULE BookmarkImport ----------------------------
(***************************************************************************)
(* The import of a browser's bookmarks into one account's library: an      *)
(* upload admitted, streamed to disk and turned into a job; the detached   *)
(* task that parses the stored file chunk by chunk and publishes a         *)
(* preview; the reader's choices about groups of pages of one site; and    *)
(* the confirmation that writes the staged candidates as sites.            *)
(*                                                                         *)
(* The API is one process, and an account has one upload at a time in it,  *)
(* so `up' is that upload; a job is known by the Idempotency-Key of the    *)
(* request that made it.  A crash keeps the database, the files and the    *)
(* browser's tabs and loses everything else.                               *)
(***************************************************************************)
EXTENDS Integers, Sequences, FiniteSets, FiniteSetsExt, SequencesExt

CONSTANTS
  Key,            \* idempotency keys of the account's uploads
  Content,        \* the files a client may send: [size, parts]
  Url, Site,      \* identity URLs, and the authorities they belong to
  SiteOf(_),      \* the authority of an identity URL
  HomeOf(_),      \* the clean root of an authority
  Above(_, _),    \* the first page's path is an ancestor of the second's
  Tab,            \* browser tabs
  Quota,          \* bytes the account may keep on disk
  InitLibrary,    \* the identity URLs in the library at first
  None,
  MaxRequests, MaxFaults, MaxCrashes, MaxEdits, MaxChoices   \* bounds of an instance

ASSUME LimitsAssumption ==
  /\ Quota \in Nat \ {0}
  /\ {MaxRequests, MaxFaults, MaxCrashes, MaxEdits, MaxChoices} \subseteq Nat

ASSUME ContentAssumption ==
  \A c \in Content : /\ c.size \in Nat \ {0} /\ c.parts \in Seq(SUBSET Url)
                      /\ \A n \in 1 .. Len(c.parts) : IsFiniteSet(c.parts[n])

ASSUME SiteAssumption ==
  /\ \A u \in Url : SiteOf(u) \in Site
  /\ \A s \in Site : HomeOf(s) \in Url /\ SiteOf(HomeOf(s)) = s

ASSUME LibraryAssumption == InitLibrary \subseteq Url

ASSUME NoneAssumption == None \notin Key

VARIABLES
  up,        \* the account's upload in progress
  litter,    \* abandoned files under incoming/: bytes counted, bytes that share an inode
  job,       \* the job of each key, with its stored file
  run,       \* the parse run of each job
  task,      \* the detached parse task of each job
  preview,   \* what the published run proposes
  dec,       \* the choice about each group, and the version of the choices
  tab,       \* what each tab last read, and how far its confirmation is
  library,   \* the identity URLs of the account's sites
  load       \* counters of the environment's bounded events

stages  == <<run, task, preview, dec>>
vars    == <<up, litter, job, run, task, preview, dec, tab, library, load>>

Idle     == [at |-> "idle", key |-> None, file |-> None, got |-> 0, used |-> 0,
             saw |-> None, ver |-> 0, fresh |-> FALSE]
NoJob    == [state |-> "none", ver |-> 0, source |-> None, stored |-> FALSE]
NoRun    == [state |-> "none", chunks |-> 0, cands |-> {}]
NoTask   == [at |-> "none", ver |-> 0]
NoView   == [cands |-> {}, skip |-> {}, homes |-> {}, seen |-> {}]
NoDec    == [ver |-> 0, of |-> [s \in Site |-> "unresolved"]]
NoTab    == [at |-> "idle", key |-> None, ver |-> 0, dec |-> NoDec]
Previews == {"parse_preview_ready", "final_preview_ready"}
Settled  == Previews \cup {"failed", "completed"}

Init ==
  /\ up = Idle
  /\ litter = [bytes |-> 0, shared |-> 0]
  /\ job = [k \in Key |-> NoJob]
  /\ run = [k \in Key |-> NoRun]
  /\ task = [k \in Key |-> NoTask]
  /\ preview = [k \in Key |-> NoView]
  /\ dec = [k \in Key |-> NoDec]
  /\ tab = [t \in Tab |-> NoTab]
  /\ library = InitLibrary
  /\ load = [requests |-> 0, faults |-> 0, crashes |-> 0, edits |-> 0]

Spend(what) == load' = [load EXCEPT ![what] = @ + 1]
MayFail     == load.faults < MaxFaults /\ Spend("faults")

-----------------------------------------------------------------------------
(* Admission: the account's slot and its quota.                            *)

Stored == {k \in Key : job[k].stored}

\* Every file under the account's directories counts, also one that an
\* interrupted upload left behind.
SourceBytesPublished == MapThenSumSet(LAMBDA k : job[k].source.size, Stored)
SourceBytes == MapThenSumSet(LAMBDA k : job[k].source.size, Stored) + litter.bytes + up.got

WithinQuota(used, more) == used + more <= Quota

Reserve(k, c) ==
  /\ up.at = "idle"
  /\ load.requests < MaxRequests
  /\ up' = [Idle EXCEPT !.at = "measure", !.key = k, !.file = c]
  /\ Spend("requests")
  /\ UNCHANGED <<litter, job, stages, tab, library>>

\* The request ends: the staged file is discarded and the slot is released.
Leave == up' = Idle

\* A declared length is checked before a byte is read; a request without one
\* declares nothing.
Measure ==
  /\ up.at = "measure"
  /\ \E declared \in {0, up.file.size} :
       IF WithinQuota(SourceBytes, declared)
       THEN up' = [up EXCEPT !.at = "stream", !.used = SourceBytes]
       ELSE Leave
  /\ UNCHANGED <<litter, job, stages, tab, library, load>>

Stream ==
  /\ up.at = "stream"
  /\ up.got < up.file.size
  /\ IF WithinQuota(up.used + up.got, 1)
     THEN up' = [up EXCEPT !.got = @ + 1]
     ELSE Leave
  /\ UNCHANGED <<litter, job, stages, tab, library, load>>

-----------------------------------------------------------------------------
(* Intake: the job, the stored file, the queue.                            *)

\* The key is looked up before a job is made: the same file replays the job,
\* another file is refused.
CreateImport ==
  /\ up.at = "stream"
  /\ up.got = up.file.size
  /\ LET k == up.key IN
     \/ /\ job[k].state = "none"
        /\ job' = [job EXCEPT ![k] = [state |-> "receiving", ver |-> 1, source |-> up.file,
                                      stored |-> FALSE]]
        /\ up' = [up EXCEPT !.at = "publish", !.saw = "receiving", !.ver = 1, !.fresh = TRUE]
     \/ /\ job[k].state # "none" /\ job[k].source = up.file
        /\ up' = [up EXCEPT !.at = "publish", !.saw = job[k].state, !.ver = job[k].ver]
        /\ UNCHANGED job
     \/ /\ job[k].state # "none" /\ job[k].source # up.file
        /\ Leave
        /\ UNCHANGED job
  /\ UNCHANGED <<litter, stages, tab, library, load>>

\* The staged file becomes the job's, by a hard link that never overwrites; a
\* file already there is kept and the staged one discarded.
PublishUpload ==
  /\ up.at = "publish"
  /\ LET k == up.key
         replay == IF job[k].stored THEN FALSE ELSE up.fresh IN
     /\ job[k].stored \/ up.saw = "receiving"
     /\ job' = [job EXCEPT ![k].stored = TRUE]
     /\ up' = [up EXCEPT !.at = IF up.saw = "receiving" THEN "queue" ELSE "reply",
                         !.got = 0, !.fresh = replay]
  /\ UNCHANGED <<litter, stages, tab, library, load>>

QueueImport ==
  /\ up.at = "queue"
  /\ LET k == up.key IN
     /\ job[k].state = "receiving" /\ job[k].ver = up.ver
     /\ job' = [job EXCEPT ![k].state = "queued_parse", ![k].ver = @ + 1]
     /\ up' = [up EXCEPT !.at = "reply", !.ver = @ + 1, !.saw = "queued_parse"]
  /\ UNCHANGED <<litter, stages, tab, library, load>>

\* Only the request that made the job starts its parse.
Reply ==
  /\ up.at = "reply"
  /\ LET k == up.key IN
     /\ IF up.fresh
        THEN task' = [task EXCEPT ![k] = [at |-> "begin", ver |-> up.ver]]
        ELSE UNCHANGED task
     /\ Leave
  /\ UNCHANGED <<litter, job, run, preview, dec, tab, library, load>>

\* The file is not a bookmark export, the disk is full, the database is busy,
\* the client has gone: whatever the step, the staged file is removed and the
\* slot released, and what was committed stays.
UploadFails ==
  /\ up.at \in {"measure", "stream", "publish", "queue", "reply"}
  /\ MayFail
  /\ Leave
  /\ UNCHANGED <<litter, job, stages, tab, library>>

-----------------------------------------------------------------------------
(* The parse task.                                                         *)

Parts(k) == job[k].source.parts
Goto(k, where) == task' = [task EXCEPT ![k].at = where]

BeginParse(k) ==
  /\ task[k].at = "begin"
  /\ job[k].ver = task[k].ver
  /\ job[k].state \in {"queued_parse", "parse_preview_ready", "failed"}
  /\ job' = [job EXCEPT ![k].state = "parsing", ![k].ver = @ + 1]
  /\ run' = [run EXCEPT ![k] = [NoRun EXCEPT !.state = "running"]]
  /\ task' = [task EXCEPT ![k] = [at |-> "append", ver |-> task[k].ver + 1]]
  /\ UNCHANGED <<up, litter, preview, dec, tab, library, load>>

\* A page met again joins its candidate.
StagedAnew(k, n) == Parts(k)[n]
Staged(k, n)     == run[k].cands \cup Parts(k)[n]

\* One chunk, its folders, occurrences and candidates, and its checkpoint.
AppendChunk(k) ==
  LET n == run[k].chunks + 1 IN
  /\ task[k].at = "append"
  /\ n <= Len(Parts(k))
  /\ run[k].state = "running"
  /\ run' = [run EXCEPT ![k].chunks = n, ![k].cands = Staged(k, n)]
  /\ UNCHANGED <<up, litter, job, task, preview, dec, tab, library, load>>

\* The completion counts are sealed onto the run, in a transaction of its own.
SealRun(k) ==
  /\ task[k].at = "append"
  /\ run[k].chunks = Len(Parts(k))
  /\ run[k].state = "running"
  /\ job[k].ver = task[k].ver /\ job[k].state = "parsing"
  /\ run' = [run EXCEPT ![k].state = "finalizing"]
  /\ Goto(k, "publish")
  /\ UNCHANGED <<up, litter, job, preview, dec, tab, library, load>>

\* A run without events has no checkpoint: the task writes none for it.
StagingComplete(k) == run[k].chunks = Len(Parts(k)) /\ run[k].chunks > 0

MatchedAnywhere(k) == library
Matched(k)         == run[k].cands \cap library

\* Candidates are matched with the library of this moment, and the pages of
\* one authority are grouped.
PublishPreview(k) ==
  /\ task[k].at = "publish"
  /\ StagingComplete(k)
  /\ run[k].state = "finalizing"
  /\ job[k].ver = task[k].ver /\ job[k].state = "parsing"
  /\ run' = [run EXCEPT ![k].state = "complete"]
  /\ job' = [job EXCEPT ![k].state = "parse_preview_ready", ![k].ver = @ + 1]
  /\ preview' = [preview EXCEPT ![k] =
                   [cands |-> run[k].cands, skip |-> Matched(k),
                    homes |-> {s \in Site : HomeOf(s) \in library}, seen |-> library]]
  /\ dec' = [dec EXCEPT ![k] = [NoDec EXCEPT !.ver = 1]]
  /\ Goto(k, "none")
  /\ UNCHANGED <<up, litter, tab, library, load>>

\* An error of the file (unreadable, over a limit) or of its staging; when the
\* publication was the step that failed the seal is taken back first, if the
\* database lets it.
ParseError(k) ==
  /\ \/ task[k].at = "append" /\ UNCHANGED run
     \/ /\ task[k].at = "publish"
        /\ \E seal \in {"running", "finalizing"} : run' = [run EXCEPT ![k].state = seal]
  /\ Goto(k, "fail")
  /\ UNCHANGED <<up, litter, job, preview, dec, tab, library, load>>

FailSealedRun(k) ==
  /\ task[k].at = "fail"
  /\ job[k].ver = task[k].ver /\ job[k].state = "parsing"
  /\ run[k].state = "finalizing"
  /\ run' = [run EXCEPT ![k].state = "failed"]
  /\ job' = [job EXCEPT ![k].state = "failed", ![k].ver = @ + 1]
  /\ Goto(k, "none")
  /\ UNCHANGED <<up, litter, preview, dec, tab, library, load>>

FailRun(k) ==
  /\ task[k].at = "fail"
  /\ job[k].ver = task[k].ver /\ job[k].state = "parsing"
  /\ run[k].state \in {"running", "finalizing"}
  /\ run' = [run EXCEPT ![k].state = "failed"]
  /\ job' = [job EXCEPT ![k].state = "failed", ![k].ver = @ + 1]
  /\ Goto(k, "none")
  /\ UNCHANGED <<up, litter, preview, dec, tab, library, load>>

\* The two steps whose failure nothing records.
ParseLost(k) ==
  /\ task[k].at \in {"begin", "fail"}
  /\ MayFail
  /\ Goto(k, "lost")
  /\ UNCHANGED <<up, litter, job, run, preview, dec, tab, library>>

-----------------------------------------------------------------------------
(* The preview's groups, and what a confirmation writes.                   *)

Members(p, s) == {u \in p.cands : SiteOf(u) = s}
Groups(p)     == {s \in Site : Cardinality(Members(p, s)) >= 2}
Creates(p)    == p.cands \ p.skip

\* The page a merged group becomes: the authority's root when the library or
\* the import has it, else an imported page above all the others, else a root
\* made up for the group.
Canonical(p, s) ==
  LET trunk == {u \in Members(p, s) : \A v \in Members(p, s) : Above(u, v)} IN
  IF s \in p.homes \/ HomeOf(s) \in p.cands \/ trunk = {}
  THEN HomeOf(s) ELSE CHOOSE u \in trunk : TRUE

MergeCreatesAlways(p, s) == IF Members(p, s) \cap Creates(p) = {} THEN 0 ELSE 1

MergeCreates(p, s) ==
  IF s \in p.homes \/ Canonical(p, s) \in p.skip \/ Members(p, s) \cap Creates(p) = {}
  THEN 0 ELSE 1

Merged(k)  == {s \in Groups(preview[k]) : dec[k].of[s] = "merge_to_homepage"}
Reduction(k, s) ==
  Cardinality(Members(preview[k], s) \cap Creates(preview[k])) - MergeCreates(preview[k], s)
Projected(k) ==
  Cardinality(Creates(preview[k])) - MapThenSumSet(LAMBDA s : Reduction(k, s), Merged(k))

\* A merged group stands for its homepage, and makes it only when the import
\* itself would have made one of the group's pages; every other candidate is
\* made unless its address is already a site's.
WrittenWithoutGroups(k) ==
  LET p     == preview[k]
      single == {u \in p.cands : SiteOf(u) \notin Groups(p)}
      roots == {Canonical(p, s) : s \in {m \in Merged(k) : MergeCreates(p, m) = 1}}
  IN (single \cup roots) \ library

Written(k) ==
  LET p     == preview[k]
      single == {u \in p.cands : SiteOf(u) \notin Merged(k)}
      roots == {Canonical(p, s) : s \in {m \in Merged(k) : MergeCreates(p, m) = 1}}
  IN (single \cup roots) \ library

Look(t, k) ==
  /\ run[k].state = "complete"
  /\ tab[t].at = "idle"
  /\ tab' = [tab EXCEPT ![t] = [at |-> "idle", key |-> k, ver |-> job[k].ver, dec |-> dec[k]]]
  /\ tab'[t] # tab[t]
  /\ UNCHANGED <<up, litter, job, stages, library, load>>

CurrentJob(t) ==
  LET k == tab[t].key IN job[k].ver = tab[t].ver /\ job[k].state \in Previews

\* What every write of a tab is checked against.
Current(t) ==
  LET k == tab[t].key IN
  /\ job[k].ver = tab[t].ver
  /\ job[k].state \in Previews
  /\ dec[k].ver = tab[t].dec.ver

\* A choice for one group, answered with the new version; choosing again what
\* is chosen leaves the version.
Decide(t, s, choice) ==
  LET k == tab[t].key IN
  /\ tab[t].at = "idle" /\ k # None
  /\ s \in Groups(preview[k])
  /\ Current(t)
  /\ dec[k].of[s] # choice
  /\ dec[k].ver <= MaxChoices
  /\ dec' = [dec EXCEPT ![k].of[s] = choice, ![k].ver = @ + 1]
  /\ tab' = [tab EXCEPT ![t].dec = dec'[k]]
  /\ UNCHANGED <<up, litter, job, run, task, preview, library, load>>

KeepAll(t) ==
  LET k == tab[t].key
      open == {s \in Groups(preview[k]) : dec[k].of[s] = "unresolved"} IN
  /\ tab[t].at = "idle" /\ k # None
  /\ Current(t)
  /\ open # {}
  /\ dec[k].ver <= MaxChoices
  /\ dec' = [dec EXCEPT ![k].ver = @ + 1,
               ![k].of = [s \in Site |-> IF s \in open THEN "keep_originals" ELSE @[s]]]
  /\ tab' = [tab EXCEPT ![t].dec = dec'[k]]
  /\ UNCHANGED <<up, litter, job, run, task, preview, library, load>>

\* The confirmation reads the job and the choices first ...
CheckApply(t) ==
  LET k == tab[t].key IN
  /\ tab[t].at = "idle" /\ k # None
  /\ Current(t)
  /\ \A s \in Groups(preview[k]) : dec[k].of[s] # "unresolved"
  /\ tab' = [tab EXCEPT ![t].at = "applying"]
  /\ UNCHANGED <<up, litter, job, stages, library, load>>

\* ... and then claims the job and the choices, writes the sites and ends the
\* job in one transaction, or changes nothing.
CommitApply(t) ==
  LET k == tab[t].key IN
  /\ tab[t].at = "applying"
  /\ tab' = [tab EXCEPT ![t].at = "idle"]
  /\ \/ /\ Current(t)
        /\ library' = library \cup Written(k)
        /\ job' = [job EXCEPT ![k].state = "completed", ![k].ver = @ + 1]
     \/ /\ ~Current(t)
        /\ UNCHANGED <<library, job>>
  /\ UNCHANGED <<up, litter, stages, load>>

-----------------------------------------------------------------------------
(* The reader's own edits of the library, and the crash of the process.    *)

EditLibrary ==
  /\ load.edits < MaxEdits
  /\ \E u \in Url : library' = IF u \in library THEN library \ {u} ELSE library \cup {u}
  /\ Spend("edits")
  /\ UNCHANGED <<up, litter, job, stages, tab>>

\* Between the link and the removal of the staged name the file has both.
Crash ==
  /\ load.crashes < MaxCrashes
  /\ Spend("crashes")
  /\ up' = Idle
  /\ task' = [k \in Key |-> NoTask]
  /\ tab' = [t \in Tab |-> [tab[t] EXCEPT !.at = "idle"]]
  /\ \/ /\ litter' = [litter EXCEPT !.bytes = @ + up.got]
        /\ UNCHANGED job
     \/ /\ up.at = "publish" /\ up.saw = "receiving" /\ ~job[up.key].stored
        /\ job' = [job EXCEPT ![up.key].stored = TRUE]
        /\ litter' = [bytes |-> litter.bytes + up.got, shared |-> litter.shared + up.got]
  /\ UNCHANGED <<run, preview, dec, library>>

-----------------------------------------------------------------------------
Handle == Measure \/ Stream \/ CreateImport \/ PublishUpload \/ QueueImport \/ Reply

Parse(k) ==
  \/ BeginParse(k) \/ AppendChunk(k) \/ SealRun(k) \/ PublishPreview(k)
  \/ ParseError(k) \/ FailRun(k)

Browse(t) ==
  \/ \E k \in Key : Look(t, k)
  \/ \E s \in Site, c \in {"merge_to_homepage", "keep_originals"} : Decide(t, s, c)
  \/ KeepAll(t) \/ CheckApply(t) \/ CommitApply(t)

Next ==
  \/ \E k \in Key, c \in Content : Reserve(k, c)
  \/ Handle \/ UploadFails
  \/ \E k \in Key : Parse(k) \/ ParseLost(k)
  \/ \E t \in Tab : Browse(t)
  \/ EditLibrary \/ Crash

Spec == Init /\ [][Next]_vars

\* The event loop runs a request and a task to their ends while the process is up.
FairSpec == Spec /\ WF_vars(Handle) /\ \A k \in Key : WF_vars(Parse(k))

-----------------------------------------------------------------------------
(* What must hold.                                                         *)

\* Every variable keeps its shape: the columns of the import tables, the state
\* of the upload and of the parse task (db/models/bookmark_jobs.py).
TypeOK ==
  /\ up.at \in {"idle", "measure", "stream", "publish", "queue", "reply"}
  /\ up.key \in Key \cup {None} /\ up.got \in Nat /\ up.used \in Nat
  /\ up.ver \in Nat /\ up.fresh \in BOOLEAN
  /\ litter \in [bytes : Nat, shared : Nat]
  /\ \A k \in Key :
       /\ job[k].state \in {"none", "receiving", "queued_parse", "parsing"} \cup Settled
       /\ job[k].ver \in 0..5 /\ job[k].stored \in BOOLEAN
       /\ run[k].state \in {"none", "running", "finalizing", "complete", "failed"}
       /\ run[k].cands \subseteq Url
       /\ task[k].at \in {"none", "begin", "append", "publish", "fail", "lost"}
       /\ preview[k].skip \subseteq preview[k].cands
       /\ dec[k].of \in [Site -> {"unresolved", "merge_to_homepage", "keep_originals"}]
  /\ \A t \in Tab : tab[t].at \in {"idle", "applying"} /\ tab[t].key \in Key \cup {None}
  /\ library \subseteq Url

\* What the account has on disk, each inode once, stays within its quota:
\* published files, the upload in progress and what crashes left behind.
QuotaKept ==
  MapThenSumSet(LAMBDA k : job[k].source.size, Stored) + up.got
    + litter.bytes - litter.shared <= Quota

\* A preview shows the whole of the file that was stored: every chunk staged,
\* and no candidate missing (finalize_parse_run).
PreviewIsWhole ==
  \A k \in Key : run[k].state = "complete" =>
    /\ job[k].stored
    /\ preview[k].cands = UNION {Parts(k)[i] : i \in DOMAIN Parts(k)}

Completes(k) == job[k].state \in Previews /\ job'[k].state = "completed"

\* A confirmation writes what its tab showed: the choices it had read are the
\* choices applied, all made, and a finished job is not written again
\* (apply_import's versions).
AppliedStep(k) ==
  /\ job[k].state = "completed" => job'[k] = job[k]
  /\ Completes(k) =>
       \E t \in Tab :
         /\ tab[t].at = "applying" /\ tab'[t].at = "idle" /\ tab[t].key = k
         /\ tab[t].dec = dec[k]
         /\ \A s \in Groups(preview[k]) : tab[t].dec.of[s] # "unresolved"
AppliedAsSeen == [][\A k \in Key : AppliedStep(k)]_vars

\* The number of sites the preview announced (similarity_statistics) is the
\* number the confirmation makes, unless the library changed in between.
ProjectionKept ==
  [][\A k \in Key : Completes(k) /\ library = preview[k].seen =>
       Cardinality(library' \ library) = Projected(k)]_vars

\* No bookmark is dropped: after the confirmation each candidate, or the page
\* its group was merged into, is a site; a page the reader deleted since the
\* preview excepted.
KeptStep(k) ==
  Completes(k) =>
    \A u \in preview[k].cands :
      \/ u \in library'
      \/ /\ SiteOf(u) \in Merged(k)
         /\ \/ Canonical(preview[k], SiteOf(u)) \in library'
            \/ preview[k].seen \ library # {}
NothingLost == [][\A k \in Key : KeptStep(k)]_vars

\* A parse that began ends in a preview or in a failure on the job, unless the
\* process dies or even the failure could not be recorded (worker.run_parse).
ParseSettles ==
  \A k \in Key : (run[k].state = "running") ~>
    (job[k].state \in Settled \/ load.crashes > 0 \/ task[k].at = "lost")
=============================================================================
