--------------------------- MODULE AnalysisQueue ---------------------------
(***************************************************************************)
(* The in-memory scheduling of site analyses in one API process, for one   *)
(* account (services/api/src/webhub/ingestion/worker.py): the bounded,     *)
(* deduplicated queue with its consumers, the automatic sweep over the     *)
(* database, the requests that feed both, and the callers that wait for an *)
(* enrichment (analyze_and_wait).                                          *)
(*                                                                         *)
(* Everything runs on one asyncio loop, so an action is the code between   *)
(* two awaits.  A task that has returned and its done-callback are two     *)
(* actions: other handlers run in between.                                 *)
(***************************************************************************)
EXTENDS Integers, FiniteSets, Sequences, SequencesExt

CONSTANTS
    Site,          \* the account's sites
    Caller,        \* handlers of POST /library/sites/{id}/analyze
    Consumer,      \* tasks of _run_account (MAX_CONCURRENT_ANALYSES)
    Sweeper,       \* tasks of _run_auto_backfill (MAX_CONCURRENT_AUTO_ANALYSES)
    Foreign,       \* an analysis this process does not see (another process)
    NoOne,
    Slots,         \* permits of _GLOBAL_SEMAPHORE left to this account
    PerAccount,    \* MAX_QUEUED_ANALYSES_PER_ACCOUNT
    Overflow,      \* MAX_INTERACTIVE_QUEUE_OVERFLOW_PER_ACCOUNT
    GlobalLimit,   \* MAX_QUEUED_ANALYSES_GLOBAL
    GlobalOverflow,\* MAX_INTERACTIVE_QUEUE_OVERFLOW_GLOBAL
    Elsewhere,     \* what sites not modelled may have pending: [account, overflow, global]
    Batch,         \* AUTO_DISCOVERY_BATCH_SIZE
    Immediate,     \* _IMMEDIATE_IMPORTED_ANALYSIS_LIMIT, _VISIBLE_ANALYSIS_LIMIT
    Initial,       \* what a site may be at the start
    MaxRequests,   \* bound: requests that feed the queue or the sweep
    MaxEvents      \* bound: edits, deletions, foreign claims, errors and stops

ASSUME QueueLimits ==
    /\ {Slots, PerAccount, Overflow, GlobalLimit, GlobalOverflow, Batch, Immediate} \subseteq Nat \ {0}
    /\ {MaxRequests, MaxEvents} \subseteq Nat
    /\ Elsewhere # {}
    /\ \A e \in Elsewhere : {e.account, e.overflow, e.global} \subseteq Nat
ASSUME FiniteLibrary == IsFiniteSet(Site)
ASSUME Workers ==
    /\ Consumer \cap Sweeper = {}
    /\ {Foreign, NoOne} \cap (Consumer \cup Sweeper) = {} /\ Foreign # NoOne

Worker == Consumer \cup Sweeper

(***************************************************************************)
(* AnalysisIntent and the bulk flag of a request, as one order: a request  *)
(* for enrichment beats one for metadata, and of two enrichments the one   *)
(* that does not come from a batch wins (old and new, worker.py).          *)
(***************************************************************************)
Level == <<"none", "metadata", "bulk", "own">>
Rank(l) == CHOOSE i \in 1..4 : Level[i] = l
Higher(a, b) == IF Rank(a) < Rank(b) THEN b ELSE a
Enriches(l) == l \in {"bulk", "own"}
NoLevels == [s \in Site |-> "none"]

Status == {"absent", "new", "pending", "stale", "complete", "failed", "gone"}
ASSUME InitialStatus == Initial \subseteq Status \ {"pending", "gone"}

VARIABLES
    site,     \* the Site rows: analysis_status, owner of the pending stamp, model result present
    acct,     \* _ACCOUNTS[key]
    auto,     \* _AUTO_BACKFILLS[key]
    worker,   \* what each consumer and each sweeper is doing
    caller,   \* analyze_and_wait
    service,  \* "up", "stopping", "down"
    used,     \* how much of each bound of the environment is spent
    owed,     \* history: enrichments a request was told are queued
    announced \* history: new sites a handler left to the sweep, or gave to the queue itself

vars == <<site, acct, auto, worker, caller, service, used, owed, announced>>

NoAccount == [task |-> "none", queue |-> <<>>, pending |-> {}, overflow |-> {},
              want |-> NoLevels, run |-> NoLevels, follow |-> NoLevels]
NoSweep == [task |-> "none", candidates |-> {}, excluded |-> {}, pending |-> {},
            follow |-> NoLevels, rescan |-> FALSE]
Off == [pc |-> "off", site |-> NoOne, level |-> "none"]
Out == [pc |-> "out", site |-> NoOne, marked |-> FALSE, served |-> FALSE]

Queued(a) == ToSet(a.queue)
Up == service = "up"
Busy == acct.pending \cup auto.pending        \* pending_site_ids
Awaiting(c, s, pcs) == caller[c].site = s /\ caller[c].pc \in pcs
HoldsSlot == {w \in Worker : worker[w].pc = "busy"}

-----------------------------------------------------------------------------
(***************************************************************************)
(* schedule_analysis                                                       *)
(***************************************************************************)
RaisedButNotActive(a, s, level) ==       \* mutant: an active entry keeps its level
    IF Enriches(level) /\ s \in Queued(a) THEN [a EXCEPT !.want[s] = Higher(@, level)] ELSE a
\* The site is queued or running already: what the request adds to that entry.
Raised(a, s, level) ==
    IF ~Enriches(level) THEN a
    ELSE IF s \in Queued(a) THEN [a EXCEPT !.want[s] = Higher(@, level)]
    ELSE IF a.run[s] = "metadata" THEN [a EXCEPT !.follow[s] = Higher(@, level)]
    ELSE [a EXCEPT !.run[s] = Higher(@, level)]

AccountPending(a, others) == Cardinality(a.pending) + others.account
AccountFull(a, others) == AccountPending(a, others) >= PerAccount
Full(a, r, others) ==
    LET global == Cardinality(a.pending) + others.global
    IN  \/ ~Up
        \/ /\ AccountFull(a, others)
           /\ ~ /\ r.interactive
                /\ AccountPending(a, others) < PerAccount + Overflow
                /\ Cardinality(a.overflow) + others.overflow < Overflow
        \/ global >= GlobalLimit /\ ~(r.interactive /\ global < GlobalLimit + GlobalOverflow)

Admitted(a, r, s, others) ==
    [a EXCEPT !.pending = @ \cup {s},
              !.want[s] = r.level,
              !.overflow = IF AccountFull(a, others) THEN @ \cup {s} ELSE @,
              !.queue = IF r.priority THEN @ ELSE Append(@, s)]

\* One turn of the loop over the requested sites.
Placed(r, others, t, s) ==
    IF s \in t.acct.pending
    THEN [t EXCEPT !.acct = Raised(@, s, r.level), !.accepted = @ \cup {s}]
    ELSE IF s \in t.auto.pending
    THEN [t EXCEPT !.auto.follow[s] = IF Enriches(r.level) THEN Higher(@, r.level) ELSE @,
                   !.accepted = @ \cup {s}]
    ELSE IF Full(t.acct, r, others)
    THEN [t EXCEPT !.rejected = @ \cup {s}]
    ELSE [t EXCEPT !.acct = Admitted(@, r, s, others), !.accepted = @ \cup {s},
                   !.front = IF r.priority THEN Append(@, s) ELSE @]

\* _start: a task is created when work is queued and none is alive.
Started(a) == IF a.queue # <<>> /\ a.task \in {"none", "done"} THEN [a EXCEPT !.task = "created"] ELSE a

\* The loop over the requested sites; what has priority goes in front, in order.
Loop0(a, b) == [acct |-> a, auto |-> b, front |-> <<>>, accepted |-> {}, rejected |-> {}]
LoopOver(r, sites, a, b, others) ==
    LET turn[i \in 0..Len(sites)] ==
            IF i = 0 THEN Loop0(a, b) ELSE Placed(r, others, turn[i - 1], sites[i])
    IN  turn[Len(sites)]
Scheduled(r, sites, a, b, others) ==
    LET t == LoopOver(r, sites, a, b, others)
    IN  [t EXCEPT !.acct = Started([t.acct EXCEPT !.queue = t.front \o t.acct.queue])]

Request(priority, interactive, level) ==
    [priority |-> priority, interactive |-> interactive, level |-> level]

Owes(r, t) == IF Enriches(r.level) THEN t.accepted ELSE {}

(***************************************************************************)
(* ensure_auto_backfill: start a sweep, or ask the running one for another *)
(* pass.  A sweep that has returned but whose callback has not run yet is  *)
(* replaced.                                                               *)
(***************************************************************************)
Alive(b) == b.task \in {"running", "failing"}
Ensured(b, rescan) ==
    IF ~Up THEN b
    ELSE IF Alive(b) THEN [b EXCEPT !.rescan = @ \/ rescan]
    ELSE [NoSweep EXCEPT !.task = "running"]
\* What a handler that replaces a finished sweep takes from under its callback: the
\* sites a failed sweep had leased, and who waits for them.
Replaced(b) == IF Alive(b) /\ ~Alive(auto) THEN auto.pending ELSE {}
Abandoned(S) ==
    [c \in Caller |-> IF caller[c].site \in S /\ caller[c].pc \in {"join", "own", "behind"}
                      THEN [caller[c] EXCEPT !.pc = "lost"] ELSE caller[c]]
SweepersReady(started) ==
    [w \in Worker |-> IF started /\ w \in Sweeper THEN [Off EXCEPT !.pc = "ready"] ELSE worker[w]]

Without(s) == {a \in announced : a[2] # s}
New == {s \in Site : site[s].status = "new"}
Spend(what) == used' = [used EXCEPT ![what] = @ + 1]

\* A handler: schedule, then ensure a sweep, always or only after a rejection.
Handle(r, sites, always, rescan) ==
    /\ used.requests < MaxRequests
    /\ \E others \in Elsewhere :
         LET t == Scheduled(r, sites, acct, auto, others)
             ensures == always \/ t.rejected # {}
             b == IF ensures THEN Ensured(t.auto, rescan) ELSE t.auto
         IN  /\ acct' = t.acct
             /\ auto' = b
             /\ worker' = SweepersReady(Alive(b) /\ ~Alive(auto))
             /\ owed' = (owed \cup Owes(r, t)) \ Replaced(b)
             /\ caller' = Abandoned(Replaced(b))
             /\ announced' = announced
                   \cup (IF ensures /\ rescan /\ Up THEN {"sweep"} \X (New \ t.acct.pending) ELSE {})
                   \cup (IF r.interactive /\ Up THEN {"save"} \X (New \cap t.accepted) ELSE {})
    /\ Spend("requests")
    /\ UNCHANGED <<site, service>>

\* POST /library/sites, or PATCH that changes the address (_schedule_analysis).
Save(s) ==
    /\ site[s].status \in Status \ {"absent", "gone"}
    /\ Handle(Request(TRUE, TRUE, "own"), <<s>>, FALSE, TRUE)

\* GET /library: the visible sites that were never analysed.
List ==
    \E S \in SUBSET New :
      /\ Cardinality(S) <= Immediate
      /\ \E order \in SetToSeqs(S) : Handle(Request(TRUE, FALSE, "metadata"), order, TRUE, FALSE)

\* POST /library/sites/batch
SaveBatch ==
    \E S \in SUBSET New \ {{}} : \E order \in SetToSeqs(S) :
      Handle(Request(FALSE, FALSE, "bulk"), order, FALSE, TRUE)

\* POST /library/sites/analyze-missing: not_analyzed_site_ids, then the queue.
AnalyzeMissing ==
    LET missing == {s \in Site \ Busy : site[s].status \in {"new", "failed"}}
    IN  missing # {} /\ \E order \in SetToSeqs(missing) :
          Handle(Request(FALSE, FALSE, "metadata"), order, FALSE, TRUE)

\* POST /bookmarks/jobs/{id}/apply: recent_not_analyzed_site_ids, then the sweep.
Imported ==
    \E S \in SUBSET New :
      /\ Cardinality(S) = IF Cardinality(New) < Immediate THEN Cardinality(New) ELSE Immediate
      /\ \E order \in SetToSeqs(S) : Handle(Request(TRUE, FALSE, "bulk"), order, TRUE, TRUE)

-----------------------------------------------------------------------------
(***************************************************************************)
(* A completion is resolved: what the callers that await it do with the    *)
(* result.  "join" returns it; "own" goes on to look at the row when there *)
(* is none; "behind" waited for work that is not the enrichment it wants.  *)
(***************************************************************************)
ToldOutcomes(c, s, result) ==            \* mutant: who waits behind other work misses a null result
    IF caller[c].site = s /\ result \in {"complete", "failed"} /\ caller[c].pc \in {"join", "own", "behind"}
    THEN [caller[c] EXCEPT !.pc = "answered"] ELSE caller[c]
Heard(pc, result) ==
    IF result = "cancelled" THEN "cancelled"
    ELSE IF pc = "join" THEN "answered"
    ELSE IF pc = "own" THEN IF result = "none" THEN "poll" ELSE "answered"
    ELSE IF result = "failed" THEN "answered"
    ELSE IF result = "none" THEN "check" ELSE "look"
Told(c, s, result) ==
    IF Awaiting(c, s, {"join", "own", "behind"}) THEN [caller[c] EXCEPT !.pc = Heard(@, result)]
    ELSE caller[c]

\* Work on s is over that was an enrichment or failed; `wrote`: it stored a model result.
Noted(k, s, attempt, wrote) ==
    IF k.site # s THEN k
    ELSE [k EXCEPT !.served = @ \/ attempt, !.marked = @ \/ wrote]

Resolve(s, result, attempt, wrote) ==
    caller' = [c \in Caller |-> Noted(Told(c, s, result), s, attempt, wrote)]

-----------------------------------------------------------------------------
(***************************************************************************)
(* _run_account                                                            *)
(***************************************************************************)
Popped(a) ==
    LET s == Head(a.queue)
    IN  [a EXCEPT !.queue = Tail(@), !.want[s] = "none", !.run[s] = a.want[s]]
Took(a, w) ==
    IF a.queue = <<>> THEN [worker EXCEPT ![w] = Off]
    ELSE [worker EXCEPT ![w] = [pc |-> "slot", site |-> Head(a.queue), level |-> "none"]]
Next1(a) == IF a.queue = <<>> THEN a ELSE Popped(a)

\* The task runs for the first time: min(MAX_CONCURRENT_ANALYSES, len) consumers.
Spawn ==
    /\ acct.task = "created" /\ Up
    /\ \E C \in SUBSET Consumer :
         /\ Cardinality(C) = IF Len(acct.queue) < Cardinality(Consumer) THEN Len(acct.queue)
                             ELSE Cardinality(Consumer)
         /\ worker' = [w \in Worker |-> IF w \in C THEN [Off EXCEPT !.pc = "ready"] ELSE worker[w]]
    /\ acct' = [acct EXCEPT !.task = "running"]
    /\ UNCHANGED <<site, auto, caller, service, used, owed, announced>>

Take(w) ==
    /\ w \in Consumer /\ worker[w].pc = "ready" /\ Up
    /\ acct' = Next1(acct)
    /\ worker' = Took(acct, w)
    /\ UNCHANGED <<site, auto, caller, service, used, owed, announced>>

LeftWithFollow(a, s) ==                  \* mutant: the follow-up is not popped
    LET b == [a EXCEPT !.pending = @ \ {s}, !.overflow = @ \ {s}, !.run[s] = "none"]
    IN  IF Enriches(a.follow[s]) /\ Up
        THEN [b EXCEPT !.pending = @ \cup {s}, !.want[s] = a.follow[s], !.queue = <<s>> \o @] ELSE b
\* The entry of s ends; a follow-up goes back to the front of the queue.
Left(a, s) ==
    LET b == [a EXCEPT !.pending = @ \ {s}, !.overflow = @ \ {s}, !.run[s] = "none", !.follow[s] = "none"]
    IN  IF Enriches(a.follow[s]) /\ Up
        THEN [b EXCEPT !.pending = @ \cup {s}, !.want[s] = a.follow[s], !.queue = <<s>> \o @]
        ELSE b

\* What the next request or the callback sees when the last consumer is gone.
AccountEnds ==
    /\ acct.task \in {"running", "created"}
    /\ acct.task = "created" => ~Up
    /\ \A w \in Consumer : worker[w].pc = "off"
    /\ acct' = [acct EXCEPT !.task = "done"]
    /\ UNCHANGED <<site, auto, worker, caller, service, used, owed, announced>>

\* The done-callback of _start.  When the service stops it drops the account, with
\* the completions of what is still queued, before shutdown looks for them.
AccountFinished ==
    /\ acct.task = "done"
    /\ \/ acct.queue # <<>> /\ Up /\ acct' = Started(acct) /\ caller' = caller
       \/ /\ (acct.queue = <<>> /\ acct.pending = {}) \/ ~Up
          /\ acct' = NoAccount
          /\ caller' = Abandoned(acct.pending)
    /\ UNCHANGED <<site, auto, worker, service, used, owed, announced>>

-----------------------------------------------------------------------------
(***************************************************************************)
(* The analysis of one site: a permit of the global semaphore, the claim,  *)
(* the work, the result (analyze_in_background).  The level is read when   *)
(* the analysis starts.                                                    *)
(***************************************************************************)
SiteOf(w) == worker[w].site
Working(w) == worker[w].pc \in {"slot", "busy"}

\* Nobody has cancelled the task.
Runs(w) == Up /\ (w \in Sweeper => auto.task = "running")

MayStart(w) == worker[w].pc = "slot" /\ Runs(w) /\ Cardinality(HoldsSlot) < Slots
LevelAtStart(w) == IF w \in Consumer THEN acct.run[SiteOf(w)] ELSE "metadata"

\* _claim_analysis: a fresh pending row is never taken over; the sweep asks
\* for more than a foreground request, a batch for something that is missing.
Claimable(w) ==
    LET row == site[SiteOf(w)]
    IN  \/ row.status \in {"new", "stale"}
        \/ w \in Consumer /\ row.status = "failed"
        \/ w \in Consumer /\ row.status = "complete" /\ (LevelAtStart(w) = "bulk" => ~row.enriched)

Mine(w) == site[SiteOf(w)].owner = w
EndedStillOwned(s, status, enriched) ==  \* mutant: the claim is not released
    site' = [site EXCEPT ![s] = [status |-> status, owner |-> @.owner, enriched |-> @.enriched \/ enriched]]
Ended(s, status, enriched) ==
    site' = [site EXCEPT ![s] = [status |-> status, owner |-> NoOne, enriched |-> @.enriched \/ enriched]]

Start(w) ==
    /\ MayStart(w) /\ Claimable(w)
    /\ site' = [site EXCEPT ![SiteOf(w)] = [@ EXCEPT !.status = "pending", !.owner = w]]
    /\ worker' = [worker EXCEPT ![w].pc = "busy", ![w].level = LevelAtStart(w)]
    /\ announced' = Without(SiteOf(w))
    /\ UNCHANGED <<acct, auto, caller, service, used, owed>>

\* The finally block of a consumer, and its next turn in the same breath.
ConsumerLeaves(w, cancelled) ==
    LET a == Left(acct, SiteOf(w))
    IN  /\ acct' = IF cancelled THEN a ELSE Next1(a)
        /\ worker' = IF cancelled THEN [worker EXCEPT ![w] = Off] ELSE Took(a, w)
        /\ owed' = IF Enriches(acct.run[SiteOf(w)]) \/ ~Up THEN owed \ {SiteOf(w)} ELSE owed
        /\ UNCHANGED auto

\* The finally block of a sweeper: the follow-up asks the queue for a place.
SweeperLeaves(w, cancelled) ==
    LET s == SiteOf(w)
        b == [auto EXCEPT !.pending = @ \ {s}, !.follow[s] = "none"]
        level == auto.follow[s]
        r == Request(TRUE, level = "own", level)
    IN  /\ worker' = [worker EXCEPT ![w] = IF cancelled THEN Off ELSE [Off EXCEPT !.pc = "ready"]]
        /\ \/ /\ ~Enriches(level) \/ ~Up
              /\ auto' = b /\ acct' = acct
              /\ owed' = IF Up THEN owed ELSE owed \ {s}
           \/ /\ Enriches(level) /\ Up
              /\ \E others \in Elsewhere :
                   LET t == Scheduled(r, <<s>>, acct, b, others)
                   IN  auto' = t.auto /\ acct' = t.acct /\ owed' = owed \ t.rejected

Leaves(w, cancelled) ==
    IF w \in Consumer THEN ConsumerLeaves(w, cancelled) ELSE SweeperLeaves(w, cancelled)

\* The claim is refused: no result, and the row stays what it is.
Refused(w) ==
    /\ MayStart(w) /\ ~Claimable(w)
    /\ Leaves(w, FALSE)
    /\ Resolve(SiteOf(w), "none", Enriches(LevelAtStart(w)), FALSE)
    /\ UNCHANGED <<site, service, used, announced>>

\* The page was read and the result stored, if the claim is still this one's.
\* A batch tells its caller nothing when it stored nothing, and spends no model
\* call on a site that has its result.
Return(w, status) ==
    LET level == worker[w].level
        model == level = "own" \/ (level = "bulk" /\ ~site[SiteOf(w)].enriched)
        bulkMissed == level = "bulk" /\ ~Mine(w)
    IN  /\ worker[w].pc = "busy" /\ Runs(w)
        /\ \E answers \in BOOLEAN :          \* the model gives a usable answer
             /\ answers => model /\ status = "complete"
             /\ IF Mine(w) THEN Ended(SiteOf(w), status, answers) ELSE site' = site
             /\ Resolve(SiteOf(w), IF bulkMissed THEN "none" ELSE status, Enriches(level) \/ status = "failed", answers /\ Mine(w))
        /\ Leaves(w, FALSE)
        /\ UNCHANGED <<service, used, announced>>

\* An error after the claim: the row is marked failed, the caller gets nothing.
Breaks(w) ==
    /\ worker[w].pc = "busy" /\ Runs(w) /\ used.events < MaxEvents
    /\ IF Mine(w) THEN Ended(SiteOf(w), "failed", FALSE) ELSE site' = site
    /\ Resolve(SiteOf(w), "none", Enriches(worker[w].level), FALSE)
    /\ Leaves(w, FALSE)
    /\ Spend("events")
    /\ UNCHANGED <<service, announced>>

\* Cancelled by the shutdown or, for a sweeper, by the failure of its sibling:
\* the claim is given back, or the paid result of a batch stored first.  A claim
\* cut short in its commit may stay in the row and grow stale.
Cancelled(w) ==
    /\ Working(w) /\ ~Runs(w)
    /\ \/ site' = site /\ ~(worker[w].pc = "busy" /\ Mine(w))
       \/ worker[w].pc = "busy" /\ Mine(w) /\ Ended(SiteOf(w), "new", FALSE)
       \/ worker[w].pc = "busy" /\ Mine(w) /\ worker[w].level = "bulk" /\ Ended(SiteOf(w), "complete", TRUE)
       \/ worker[w].pc = "slot" /\ Claimable(w) /\ Ended(SiteOf(w), "stale", FALSE)
    /\ Resolve(SiteOf(w), "cancelled", FALSE, FALSE)
    /\ Leaves(w, TRUE)
    /\ UNCHANGED <<service, used, announced>>

-----------------------------------------------------------------------------
(***************************************************************************)
(* _run_auto_backfill                                                      *)
(***************************************************************************)
Discovering == {w \in Sweeper : worker[w].pc = "query"}       \* holds discovery_lock
Discoverable == {s \in Site : site[s].status \in {"new", "stale"}}

\* A discovery task that outlives its cancelled consumer still leases the site.
Leased(w, b, s) ==
    /\ auto' = [b EXCEPT !.candidates = @ \ {s}, !.pending = @ \cup {s}]
    /\ worker' = [worker EXCEPT ![w] = IF auto.task = "failing" THEN Off
                                       ELSE [pc |-> "slot", site |-> s, level |-> "none"]]

LookAgain(w) ==
    /\ auto' = [auto EXCEPT !.candidates = {}, !.excluded = Busy]
    /\ worker' = [worker EXCEPT ![w].pc = "query"]

PickUnchecked(w, found) ==               \* mutant: no second look at the queue
    \/ \E s \in found : Leased(w, [auto EXCEPT !.candidates = found], s)
    \/ found = {} /\ LookAgain(w)

\* Candidates that meanwhile entered the queue are skipped on the way.
Pick(w, found) ==
    \/ \E s \in found \ Busy : \E skipped \in SUBSET (found \cap Busy) :
         Leased(w, [auto EXCEPT !.candidates = found \ skipped], s)
    \/ found \subseteq Busy /\ LookAgain(w)

\* The permits of the background semaphores are there; the discovery task runs.  A
\* task that was created before the sweep failed still runs to its end.
Lease(w) ==
    /\ w \in Sweeper /\ worker[w].pc = "ready" /\ Discovering = {} /\ Up
    /\ Pick(w, auto.candidates)
    /\ UNCHANGED <<site, acct, caller, service, used, owed, announced>>

\* The rows come back: queued work may have changed while the query ran.
Discover(w) ==
    /\ w \in Sweeper /\ worker[w].pc = "query" /\ Up
    /\ LET eligible == Discoverable \ auto.excluded
       IN  \E found \in SUBSET eligible :
             /\ Cardinality(found) = IF Cardinality(eligible) < Batch THEN Cardinality(eligible) ELSE Batch
             /\ \/ found # {} /\ Pick(w, found)
                \/ found = {} /\ worker' = [worker EXCEPT ![w] = Off] /\ auto' = auto
    /\ UNCHANGED <<site, acct, caller, service, used, owed, announced>>

\* Discovery fails: the task group cancels the siblings.
DiscoveryFails(w) ==
    /\ w \in Sweeper /\ worker[w].pc = "query" /\ Up /\ used.events < MaxEvents
    /\ worker' = [worker EXCEPT ![w] = Off]
    /\ auto' = [auto EXCEPT !.task = "failing"]
    /\ Spend("events")
    /\ UNCHANGED <<site, acct, caller, service, owed, announced>>

\* A worker that holds no site leaves a stopped service or a failed sweep.
Idles(w) ==
    /\ \/ w \in Sweeper /\ worker[w].pc = "ready" /\ (~Up \/ auto.task = "failing")
       \/ worker[w].pc \in {"ready", "query"} /\ ~Up
    /\ worker' = [worker EXCEPT ![w] = Off]
    /\ UNCHANGED <<site, acct, auto, caller, service, used, owed, announced>>

SweepPassOnce ==                         \* mutant: the rescan flag is not looked at
    /\ Alive(auto) /\ \A w \in Sweeper : worker[w].pc = "off"
    /\ auto' = [auto EXCEPT !.task = "done"]
    /\ UNCHANGED <<site, acct, worker, caller, service, used, owed, announced>>

\* The task group is over: another pass, or the end of the sweep.
SweepPass ==
    /\ Alive(auto)
    /\ \A w \in Sweeper : worker[w].pc = "off"
    /\ LET again == auto.task = "running" /\ Up /\ auto.rescan
       IN  /\ auto' = IF again THEN [auto EXCEPT !.rescan = FALSE] ELSE [auto EXCEPT !.task = "done"]
           /\ worker' = SweepersReady(again)
           /\ announced' = IF auto.task = "failing" THEN {a \in announced : a[1] # "sweep"} ELSE announced
    /\ UNCHANGED <<site, acct, caller, service, used, owed>>

\* Its done-callback clears what a failed sweep left.
SweepFinished ==
    /\ auto.task = "done"
    /\ auto' = NoSweep
    /\ caller' = [c \in Caller |-> IF caller[c].site \in auto.pending THEN Told(c, caller[c].site, "cancelled") ELSE caller[c]]
    /\ owed' = owed \ {s \in Site : auto.follow[s] # "none"}
    /\ UNCHANGED <<site, acct, worker, service, used, announced>>

-----------------------------------------------------------------------------
(***************************************************************************)
(* analyze_and_wait                                                        *)
(***************************************************************************)
Ask(c, s) ==
    /\ caller[c].pc = "out" /\ site[s].status # "absent" /\ Up
    /\ caller' = [caller EXCEPT ![c] = [Out EXCEPT !.pc = "look", !.site = s]]
    /\ UNCHANGED <<site, acct, auto, worker, service, used, owed, announced>>

JoinAny(c) ==                            \* mutant: a metadata pass is taken for an enrichment
    /\ caller[c].pc = "look" /\ Up /\ caller[c].site \in acct.pending
    /\ caller' = [caller EXCEPT ![c].pc = "join"]
    /\ UNCHANGED <<site, acct, auto, worker, service, used, owed, announced>>

\* One turn of the outer loop, up to the next await.
Join(c) ==
    LET s == caller[c].site
    IN  /\ caller[c].pc = "look" /\ Up /\ s \in acct.pending
        /\ IF acct.run[s] = "metadata"
           THEN acct' = acct /\ caller' = [caller EXCEPT ![c].pc = "behind"] /\ owed' = owed
           ELSE /\ acct' = Raised(acct, s, "own")
                /\ caller' = [caller EXCEPT ![c].pc = "join"]
                /\ owed' = owed \cup {s}
        /\ UNCHANGED <<site, auto, worker, service, used, announced>>

JoinSweep(c) ==
    /\ caller[c].pc = "look" /\ Up
    /\ caller[c].site \in auto.pending \ acct.pending
    /\ caller' = [caller EXCEPT ![c].pc = "behind"]
    /\ UNCHANGED <<site, acct, auto, worker, service, used, owed, announced>>

AskQueue(c) ==
    LET s == caller[c].site
        r == Request(TRUE, TRUE, "own")
    IN  /\ caller[c].pc = "look" /\ Up /\ s \notin Busy
        /\ \E others \in Elsewhere :
             LET t == Scheduled(r, <<s>>, acct, auto, others)
             IN  /\ acct' = t.acct
                 /\ owed' = owed \cup t.accepted
                 /\ caller' = [caller EXCEPT ![c].pc = IF t.rejected # {} THEN "full" ELSE "own"]
        /\ UNCHANGED <<site, auto, worker, service, used, announced>>

\* site_is_failed, after work without a result.
Check(c) ==
    /\ caller[c].pc = "check"
    /\ caller' = [caller EXCEPT ![c].pc = IF site[caller[c].site].status = "failed" THEN "answered" ELSE "look"]
    /\ UNCHANGED <<site, acct, auto, worker, service, used, owed, announced>>

\* The poll of the row while another process may be working on it.
Poll(c) ==
    LET row == site[caller[c].site]
    IN  /\ caller[c].pc = "poll" /\ Up
        /\ row.status \notin {"pending", "stale"}
        /\ caller' = [caller EXCEPT ![c].pc =
                         IF row.status \in {"gone", "failed"} \/ caller[c].marked THEN "answered" ELSE "look"]
        /\ UNCHANGED <<site, acct, auto, worker, service, used, owed, announced>>

PollDeadline(c) ==
    /\ caller[c].pc = "poll" /\ Up
    /\ site[caller[c].site].status \in {"pending", "stale"}
    /\ caller' = [caller EXCEPT ![c].pc = "full"]
    /\ UNCHANGED <<site, acct, auto, worker, service, used, owed, announced>>

TurnedAway(c) ==
    /\ caller[c].pc \in {"look", "poll"} /\ ~Up
    /\ caller' = [caller EXCEPT ![c].pc = "full"]
    /\ UNCHANGED <<site, acct, auto, worker, service, used, owed, announced>>

-----------------------------------------------------------------------------
(***************************************************************************)
(* shutdown, and the environment                                           *)
(***************************************************************************)
Stop ==
    /\ Up /\ used.events < MaxEvents
    /\ service' = "stopping"
    /\ announced' = {}
    /\ Spend("events")
    /\ UNCHANGED <<site, acct, auto, worker, caller, owed>>

\* The cancelled tasks and their callbacks have run; the registries are cleared.
Down ==
    /\ service = "stopping"
    /\ acct.task = "none" /\ auto.task = "none"
    /\ \A w \in Worker : worker[w].pc = "off"
    /\ service' = "down"
    /\ acct' = NoAccount /\ auto' = NoSweep /\ owed' = {}
    /\ caller' = [c \in Caller |-> IF caller[c].site \in Busy THEN Told(c, caller[c].site, "cancelled") ELSE caller[c]]
    /\ UNCHANGED <<site, worker, used, announced>>

\* Sites appear (an import, a batch), change their address, or are deleted.
Commit(S) ==
    /\ S # {} /\ \A s \in S : site[s].status = "absent"
    /\ site' = [s \in Site |-> IF s \in S THEN [site[s] EXCEPT !.status = "new"] ELSE site[s]]
    /\ UNCHANGED <<acct, auto, worker, caller, service, used, owed, announced>>

Edit(s, status) ==
    /\ used.events < MaxEvents /\ site[s].status \notin {"absent", "gone"}
    /\ site' = [site EXCEPT ![s] = [status |-> status, owner |-> NoOne, enriched |-> FALSE]]
    /\ announced' = Without(s)
    /\ Spend("events")
    /\ UNCHANGED <<acct, auto, worker, caller, service, owed>>

ForeignClaims(s) ==
    /\ used.events < MaxEvents
    /\ site[s].status \in {"new", "stale", "complete", "failed"}
    /\ site' = [site EXCEPT ![s] = [@ EXCEPT !.status = "pending", !.owner = Foreign]]
    /\ announced' = Without(s)
    /\ Spend("events")
    /\ UNCHANGED <<acct, auto, worker, caller, service, owed>>

ForeignEnds(s) ==
    /\ site[s].owner = Foreign
    /\ \E status \in {"new", "complete", "failed", "stale"}, enriched \in BOOLEAN :
         /\ enriched => status = "complete"
         /\ Ended(s, status, enriched)
         /\ caller' = [c \in Caller |-> Noted(caller[c], s, FALSE, enriched)]
    /\ UNCHANGED <<acct, auto, worker, service, used, owed, announced>>

-----------------------------------------------------------------------------
Init ==
    /\ site \in [Site -> {[status |-> st, owner |-> NoOne, enriched |-> FALSE] : st \in Initial}]
    /\ acct = NoAccount /\ auto = NoSweep
    /\ worker = [w \in Worker |-> Off]
    /\ caller = [c \in Caller |-> Out]
    /\ service = "up"
    /\ used = [requests |-> 0, events |-> 0]
    /\ owed = {} /\ announced = {}

Asks == List \/ SaveBatch \/ AnalyzeMissing \/ Imported \/ \E s \in Site : Save(s)
Works(w) == \/ Take(w) \/ Start(w) \/ Refused(w) \/ Cancelled(w) \/ Idles(w)
            \/ Lease(w) \/ Discover(w)
            \/ \E status \in {"complete", "failed"} : Return(w, status)
Waits(c) == Join(c) \/ JoinSweep(c) \/ AskQueue(c) \/ Check(c) \/ Poll(c) \/ PollDeadline(c) \/ TurnedAway(c)
Loop == Spawn \/ AccountEnds \/ AccountFinished \/ SweepPass \/ SweepFinished \/ Down

\* Every request was served and nothing is left to do.
Quiet ==
    /\ \A w \in Worker : worker[w].pc = "off"
    /\ acct.task = "none" /\ auto.task = "none"
    /\ UNCHANGED vars

\* The asyncio loop never idles while one of its tasks is ready, and an analysis
\* elsewhere ends or grows stale.  Nobody has to send a request, and no order among
\* ready tasks is assumed: none of them can keep the loop busy for ever.
Ready ==
    \/ Loop
    \/ \E w \in Worker : Works(w)
    \/ \E c \in Caller : Waits(c)
    \/ \E s \in Site : ForeignEnds(s)
Next ==
    \/ Asks \/ Ready \/ Stop \/ Quiet
    \/ \E w \in Worker : Breaks(w) \/ DiscoveryFails(w)
    \/ \E c \in Caller, s \in Site : Ask(c, s)
    \/ \E S \in SUBSET Site : Commit(S)
    \/ \E s \in Site : Edit(s, "new") \/ Edit(s, "gone") \/ ForeignClaims(s)

Fairness == WF_vars(Ready)

Spec == Init /\ [][Next]_vars
FairSpec == Spec /\ Fairness

-----------------------------------------------------------------------------
(***************************************************************************)
(* Properties                                                              *)
(***************************************************************************)
CallerPC == {"out", "look", "join", "own", "behind", "check", "poll", "answered", "full", "cancelled", "lost"}
Over == {"out", "answered", "full", "cancelled"}

\* The type of the state; and a row that this process claimed is being worked on: no
\* cancellation, edit or error leaves a pending stamp of a task that is gone.
TypeOK ==
    /\ \A s \in Site : LET w == site[s].owner IN
          w \in Worker => site[s].status = "pending" /\ worker[w].pc = "busy" /\ SiteOf(w) = s
    /\ site \in [Site -> [status : Status, owner : Worker \cup {Foreign, NoOne}, enriched : BOOLEAN]]
    /\ acct.task \in {"none", "created", "running", "done"}
    /\ acct.queue \in Seq(Site) /\ acct.pending \subseteq Site /\ acct.overflow \subseteq Site
    /\ {acct.want, acct.run, acct.follow, auto.follow} \subseteq [Site -> ToSet(Level)]
    /\ auto.task \in {"none", "running", "failing", "done"} /\ auto.rescan \in BOOLEAN
    /\ {auto.candidates, auto.excluded, auto.pending, owed} \subseteq SUBSET Site
    /\ announced \subseteq {"sweep", "save"} \X Site
    /\ worker \in [Worker -> [pc : {"off", "ready", "query", "slot", "busy"},
                              site : Site \cup {NoOne}, level : ToSet(Level)]]
    /\ caller \in [Caller -> [pc : CallerPC, site : Site \cup {NoOne}, marked : BOOLEAN, served : BOOLEAN]]
    /\ service \in {"up", "stopping", "down"}

\* The queue and the sweep never work on one site at a time, and neither do two
\* workers of either: the page is fetched once (worker.py:320).
NoDoubleFetch ==
    /\ acct.pending \cap auto.pending = {}
    /\ \A v, w \in Worker : v # w /\ Working(v) /\ Working(w) => SiteOf(v) # SiteOf(w)

\* The eight maps of _AccountQueue describe the same entries through upgrades,
\* follow-ups, cancellation and restarts, and stay within their limits.
QueueAgrees ==
    /\ acct.pending = Queued(acct) \cup {s \in Site : acct.run[s] # "none"}
    /\ Cardinality(Queued(acct)) = Len(acct.queue)
    /\ \A s \in Site : /\ acct.want[s] # "none" <=> s \in Queued(acct)
                       /\ acct.run[s] # "none" <=> \E w \in Consumer : Working(w) /\ SiteOf(w) = s
                       /\ acct.follow[s] # "none" => acct.run[s] = "metadata" /\ Enriches(acct.follow[s])
    /\ acct.overflow \subseteq acct.pending /\ Cardinality(acct.overflow) <= Overflow

\* An enrichment that a request was told is queued is queued, running, or noted
\* as the follow-up of the work that is running (worker.py:927, 941).
NoLostEnrichment ==
    Up => \A s \in owed : \/ Enriches(acct.want[s]) \/ Enriches(acct.run[s])
                          \/ Enriches(acct.follow[s]) \/ Enriches(auto.follow[s])

\* A foreground caller that waits for an analysis when it starts does not get the
\* narrower one of a batch (worker.py:1029).
ForegroundWins ==
    [][\A w \in Consumer : worker[w].pc = "slot" /\ worker'[w].pc = "busy"
          /\ (\E c \in Caller : Awaiting(c, SiteOf(w), {"join", "own"})) => worker'[w].level = "own"]_vars

\* analyze_and_wait never takes a metadata pass for the enrichment: its answer
\* follows an enrichment of the site, or its failure or deletion (worker.py:998).
AnswerIsEnrichment ==
    [][\A c \in Caller : caller[c].pc # "answered" /\ caller'[c].pc = "answered" =>
          \/ caller'[c].served \/ caller'[c].marked
          \/ site[caller[c].site].status \in {"failed", "gone"}]_vars

\* A caller is answered as long as the service runs, whoever owns its site: a result,
\* none, a full queue, the deadline.  A task whose sweep failed may leave its callers behind ("lost").
AnsweredWhileUp == \A c \in Caller : caller[c].pc \notin Over ~> (caller[c].pc \in Over \cup {"lost"} \/ ~Up)

\* A new site that an ensure_auto_backfill with rescan covers is taken up, even if
\* the running sweep was at its last look (bookmarks/routes.py:596).
AnnouncedIsSwept == \A s \in Site : <<"sweep", s>> \in announced ~> <<"sweep", s>> \notin announced

\* A created or retargeted site is analysed without a later list request waking it
\* (library/routes.py:83).
SavedIsAnalysed == \A s \in Site : <<"save", s>> \in announced ~> <<"save", s>> \notin announced
=============================================================================
