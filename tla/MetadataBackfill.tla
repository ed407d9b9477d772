--------------------------- MODULE MetadataBackfill ---------------------------
(***************************************************************************)
(* One account's durable metadata backfill: the run and its frozen items   *)
(* with their leases, counters and Provider fuse; the coordinators of the  *)
(* API processes that advance it and their consumers; the pending claim    *)
(* each item puts on its Site.  User edits, deletions, foreground analyses *)
(* of the same sites, lost leases, storage errors and crashes interfere.   *)
(*                                                                         *)
(* Every database transaction is one action.  A timestamp is kept as what  *)
(* it is compared for: a lease is live or not, a cooldown over or not.     *)
(***************************************************************************)
EXTENDS Integers, FiniteSets

CONSTANTS
  Item,         \* targets; each names its Site
  Origin(_),    \* origin_key of a target
  Mode,         \* "full" or "metadata"
  Limit,        \* targets one run may freeze
  Coord,        \* API processes
  Consumer,     \* consumer tasks
  Of(_),        \* the process of a consumer
  Token,        \* lease tokens and claim timestamps, drawn unused
  Foreign,      \* the claim of an analysis that is not the backfill's
  None,         \* SQL NULL
  MaxFailures,  \* MAX_CONSECUTIVE_PROVIDER_FAILURES
  Rows(_),      \* states a Site may be in when the run is started
  MaxFaults, MaxEdits, MaxDeletes, MaxForeign   \* bounds on the environment

ASSUME BackfillAssumption ==
  /\ IsFiniteSet(Item)
  /\ Mode \in {"full", "metadata"}
  /\ Limit \in Nat \ {0} /\ MaxFailures \in Nat \ {0}
  /\ \A k \in Consumer : Of(k) \in Coord
  /\ None \notin Token /\ Foreign \notin Token \cup {None}
  /\ {MaxFaults, MaxEdits, MaxDeletes, MaxForeign} \subseteq Nat

\* A fresh uuid or timestamp always exists.
ASSUME EnoughTokens ==
  /\ IsFiniteSet(Coord) /\ IsFiniteSet(Consumer)
  /\ IsFiniteSet(Token) => /\ Cardinality(Token) > Cardinality(Item) + Cardinality(Coord) + 1
                          /\ Cardinality(Token) > Cardinality(Consumer) + 2

VARIABLES
  (* durable *)
  run,     \* the row of site_metadata_backfill_runs
  item,    \* its rows of site_metadata_backfill_items
  site,    \* the analysis columns of the sites
  (* the API processes *)
  coord,   \* _run_metadata_backfill
  task,    \* _consume_metadata_backfill
  (* the environment *)
  faults, edits, deletes, claims

vars == <<run, item, site, coord, task, faults, edits, deletes, claims>>
env  == <<faults, edits, deletes, claims>>

Terminal == {"complete", "failed", "skipped"}
Active   == {"queued", "running"}

\* count is the denormalised progress; the lease is live until it expires.
Run == [state: {"none"} \cup Active \cup {"completed", "completed_with_errors"},
        token: Token \cup {None}, live: BOOLEAN, stop: BOOLEAN, cooling: BOOLEAN,
        failures: 0..MaxFailures, count: [Active \cup Terminal -> Int], total: Int]
NoRun == [state |-> "none", token |-> None, live |-> FALSE, stop |-> FALSE,
          cooling |-> FALSE, failures |-> 0,
          count |-> [s \in Active \cup Terminal |-> 0], total |-> 0]

\* by stands for attempt_count: the attempt of a running item is its consumer's.
\* waits: available_at lies ahead. tried: attempt_count > 0.
Target == [state: {"none"} \cup Active \cup Terminal, llm: BOOLEAN, tried: BOOLEAN,
           token: Token \cup {None}, by: Consumer \cup {None}, live: BOOLEAN,
           claimed: Token \cup {None}, waits: BOOLEAN]
NewItem(needs) == [state |-> "queued", llm |-> needs, tried |-> FALSE, token |-> None,
                   by |-> None, live |-> FALSE, claimed |-> None, waits |-> FALSE]
NoItem == [NewItem(FALSE) EXCEPT !.state = "none"]

\* moved: the version is no longer the frozen one. stamp: analysis_updated_at of
\* a pending claim; stale: it is older than AUTO_PENDING_STALE_AFTER. page: the
\* page metadata is settled. llm: the model's fields are missing, settled, or
\* settled but for the summary.
Site == [there: BOOLEAN, moved: BOOLEAN, stale: BOOLEAN, page: BOOLEAN,
         status: {"not_analyzed", "pending", "complete", "failed"},
         stamp: Token \cup {None, Foreign}, llm: {"missing", "old", "settled"}]

\* Sites no analysis is working on. What was never analysed has no page; "old"
\* is what the model enriched before summaries existed.
AtRest == {s \in [there: {TRUE}, moved: {FALSE}, stale: {FALSE}, page: BOOLEAN,
                  status: {"not_analyzed", "complete", "failed"}, stamp: {None},
                  llm: {"missing", "old", "settled"}] :
             s.status = "not_analyzed" => ~s.page}

Coordinator == [pc: {"gone", "acquire", "work", "stop"}, token: Token \cup {None}]

Working == {"fetch", "snapshot", "permit", "call", "returned", "record", "refuse", "apply"}
PC == {"ended", "claim", "needs", "intent", "site", "miss", "defer", "finish",
       "unclaim", "fuse", "crashed", "release"} \cup Working
Task == [pc: PC, item: Item \cup {None}, llm: BOOLEAN, stamp: Token \cup {None},
         page: {"none", "complete", "failed"}, result: {"none", "ok", "retry", "fatal", "invalid"},
         out: Terminal, cut: BOOLEAN]
NoTask == [pc |-> "ended", item |-> None, llm |-> FALSE, stamp |-> None, page |-> "none",
           result |-> "none", out |-> "skipped", cut |-> FALSE]

TypeOK == /\ run \in Run /\ item \in [Item -> Target] /\ site \in [Item -> Site]
          /\ coord \in [Coord -> Coordinator] /\ task \in [Consumer -> Task]

Unused(used) == CHOOSE t \in Token : t \notin used
RunTokens    == {run.token} \cup {item[i].token : i \in Item} \cup {coord[c].token : c \in Coord}
Stamps(i)    == {site[i].stamp, item[i].claimed} \cup {task[k].stamp : k \in Consumer}

-----------------------------------------------------------------------------
(* Conditions of the statements. *)

Pending(i)   == site[i].status = "pending"
Fresh(i)     == Pending(i) /\ ~site[i].stale
Missing(i)   == site[i].llm # "settled"
PageMissing(i) == ~site[i].page

\* metadata_only_backfill_eligibility and metadata_backfill_eligibility.
EligiblePage(i) == site[i].there /\ PageMissing(i) /\ ~Fresh(i)
Eligible(i)     == EligiblePage(i) \/ (site[i].there /\ Missing(i) /\ ~Fresh(i))

Holds(c)     == run.state = "running" /\ run.token = coord[c].token
HoldsLive(c) == Holds(c) /\ run.live
HoldsItem(k) == LET i == task[k].item IN
                item[i].state = "running" /\ item[i].by = k
                /\ item[i].token = coord[Of(k)].token

\* item_execution_intent: None unless the item may start outbound work, and a
\* deleted Site joins to nothing.
MayWork(k)  == /\ HoldsLive(Of(k)) /\ ~run.stop /\ ~run.cooling
               /\ HoldsItem(k) /\ item[task[k].item].live
               /\ site[task[k].item].there
NeedsModel(i) == item[i].llm /\ Missing(i)

\* The claim of a task is still the one on its Site.
Claims(k)  == LET i == task[k].item IN Pending(i) /\ site[i].stamp = task[k].stamp
Current(k) == Claims(k) /\ ~site[task[k].item].moved

-----------------------------------------------------------------------------
(* Parts of transactions. *)

Settled(x, s) == [x EXCEPT !.state = s, !.token = None, !.by = None, !.live = FALSE,
                           !.claimed = None, !.waits = FALSE]
Requeued(x)   == [x EXCEPT !.state = "queued", !.token = None, !.by = None,
                           !.live = FALSE, !.waits = FALSE]

In(it, s)     == {i \in Item : it[i].state = s}
Expired       == {i \in In(item, "running") : ~item[i].live}

\* _adjust_run_counts.
Shift(n, from, to, count) == [count EXCEPT ![from] = @ - n, ![to] = @ + n]

\* Mutant: untouched targets are counted as failures.
FailAllQueuedCount(it, count) ==
  LET n == Cardinality(In(it, "queued")) IN Shift(n, "queued", "failed", count)

\* _fail_queued_items_locked: targets never tried are skipped, the others failed.
FailQueued(it) == [i \in Item |->
  IF it[i].state # "queued" THEN it[i]
  ELSE Settled(it[i], IF it[i].tried THEN "failed" ELSE "skipped")]
FailQueuedCount(it, count) ==
  LET tried == Cardinality({i \in In(it, "queued") : it[i].tried})
      rest  == Cardinality(In(it, "queued")) - tried
  IN Shift(tried, "queued", "failed", Shift(rest, "queued", "skipped", count))

\* A stopped run gives the pending claims of the targets it ends back.
Unclaimed(I) == [i \in Item |->
  IF i \in I /\ item[i].claimed # None /\ Pending(i) /\ site[i].stamp = item[i].claimed
  THEN [site[i] EXCEPT !.status = "not_analyzed", !.stamp = None, !.stale = FALSE]
  ELSE site[i]]

\* Mutant: a run is closed as soon as nothing is queued.
FinishedEarly(r) == IF r.count["queued"] # 0 THEN r
  ELSE [r EXCEPT !.state = IF r.count["failed"] > 0 THEN "completed_with_errors" ELSE "completed",
                 !.token = None, !.live = FALSE]

\* _finish_run_if_terminal.
Finished(r) == IF r.count["queued"] # 0 \/ r.count["running"] # 0 THEN r
  ELSE [r EXCEPT !.state = IF r.count["failed"] > 0 THEN "completed_with_errors" ELSE "completed",
                 !.token = None, !.live = FALSE]

Go(k, pc)   == task' = [task EXCEPT ![k].pc = pc]
End(k)      == task' = [task EXCEPT ![k] = NoTask]

-----------------------------------------------------------------------------
(* Starting and resuming. *)

Init ==
  /\ run = NoRun /\ item = [i \in Item |-> NoItem]
  /\ site \in [Item -> AtRest] /\ \A i \in Item : site[i] \in Rows(i)
  /\ coord = [c \in Coord |-> [pc |-> "gone", token |-> None]]
  /\ task = [k \in Consumer |-> NoTask]
  /\ faults = 0 /\ edits = 0 /\ deletes = 0 /\ claims = 0

\* The first Limit eligible targets, those that need the model first.
Selected(T) ==
  LET needs(i) == Mode = "full" /\ Missing(i)
      all == {i \in Item : IF Mode = "full" THEN Eligible(i) ELSE EligiblePage(i)}
  IN /\ T \subseteq all
     /\ T = all \/ Cardinality(T) = Limit
     /\ Cardinality(T) <= Limit
     /\ \A i \in T, j \in all \ T : needs(j) => needs(i)

\* start_metadata_backfill freezes the targets, the route wakes a coordinator.
Start(c) ==
  /\ run.state = "none" /\ coord[c].pc = "gone"
  /\ \E T \in SUBSET Item :
       /\ Selected(T)
       /\ item' = [i \in Item |-> IF i \in T THEN NewItem(Mode = "full" /\ Missing(i)) ELSE NoItem]
       /\ run' = [NoRun EXCEPT !.state = IF T = {} THEN "completed" ELSE "queued",
                               !.count["queued"] = Cardinality(T), !.total = Cardinality(T)]
       /\ coord' = [coord EXCEPT ![c].pc = IF T = {} THEN "gone" ELSE "acquire"]
  /\ UNCHANGED <<site, task, env>>

\* resume_metadata_backfills after a start of the process, or a second start
\* request that joins the active run.
Resume(c) ==
  /\ coord[c].pc = "gone" /\ run.state \in Active
  /\ coord' = [coord EXCEPT ![c].pc = "acquire"]
  /\ UNCHANGED <<run, item, site, task, env>>

\* Mutant: a run whose lease ran out is not taken over.
CanAcquireQueued == run.state = "queued" /\ (run.stop \/ ~run.cooling) /\ ~run.live

CanAcquire == run.state \in Active /\ (run.stop \/ ~run.cooling) /\ ~run.live

\* acquire_run_lease, then one task group of consumers; a coordinator that finds
\* no active run returns, any other failure sleeps.
Acquire(c) ==
  /\ coord[c].pc = "acquire"
  /\ \/ /\ CanAcquire
        /\ LET t == Unused(RunTokens) IN
             /\ run' = [run EXCEPT !.state = "running", !.token = t, !.live = TRUE]
             /\ coord' = [coord EXCEPT ![c] = [pc |-> "work", token |-> t]]
        /\ task' = [k \in Consumer |-> IF Of(k) = c THEN [NoTask EXCEPT !.pc = "claim"] ELSE task[k]]
     \/ /\ run.state \notin Active
        /\ coord' = [coord EXCEPT ![c].pc = "gone"]
        /\ UNCHANGED <<run, task>>
  /\ UNCHANGED <<item, site, env>>

\* release_run_lease, when the task group is over; then the next round, or the
\* end of a cancelled coordinator. Without the lease it changes nothing.
Release(c) ==
  LET held == {i \in In(item, "running") : item[i].token = coord[c].token}
      n    == Cardinality(held)
      failed == FailQueued(item)
  IN
  /\ coord[c].pc \in {"work", "stop"}
  /\ \A k \in Consumer : Of(k) = c => task[k].pc = "ended"
  /\ \/ ~Holds(c) /\ UNCHANGED <<run, item, site>>
     \/ /\ Holds(c) /\ run.stop
        /\ item' = [i \in Item |-> IF i \in held THEN Settled(item[i], "failed") ELSE failed[i]]
        /\ run' = Finished([run EXCEPT !.count =
                    Shift(n, "running", "failed", FailQueuedCount(item, @))])
        /\ site' = Unclaimed(held \cup In(item, "queued"))
     \/ /\ Holds(c) /\ ~run.stop
        /\ item' = [i \in Item |-> IF i \in held THEN Requeued(item[i]) ELSE item[i]]
        /\ run' = [run EXCEPT !.state = "queued", !.token = None, !.live = FALSE,
                              !.count = Shift(n, "running", "queued", @)]
        /\ UNCHANGED site
  /\ coord' = [coord EXCEPT ![c] = [pc |-> IF @.pc = "stop" THEN "gone" ELSE "acquire",
                                    token |-> None]]
  /\ UNCHANGED <<task, env>>

-----------------------------------------------------------------------------
(* Claiming an item. *)

\* Mutant: the origins that are at work are not looked at.
RunnableAnyOrigin(it) == {i \in In(it, "queued") : ~it[i].waits}

Runnable(it) == {i \in In(it, "queued") :
  ~it[i].waits /\ \A j \in In(it, "running") : Origin(j) # Origin(i)}

Claimed(it, i, k) == [it EXCEPT ![i].state = "running", ![i].tried = TRUE, ![i].by = k,
  ![i].token = coord[Of(k)].token, ![i].live = TRUE, ![i].waits = FALSE]

\* A stopped run ends its expired and its queued items.
StopAll(k) ==
  LET n == Cardinality(Expired) IN
  /\ item' = [i \in Item |-> IF i \in Expired THEN Settled(item[i], "failed") ELSE FailQueued(item)[i]]
  /\ run' = Finished([run EXCEPT !.count =
              Shift(n, "running", "failed", FailQueuedCount(item, @))])
  /\ site' = Unclaimed(Expired \cup In(item, "queued"))
  /\ End(k)

\* claim_next_item: one transaction that renews the run lease first.
ClaimNext(k) ==
  LET n    == Cardinality(Expired)
      open == [i \in Item |-> IF i \in Expired THEN Requeued(item[i]) ELSE item[i]]
      back == Shift(n, "running", "queued", run.count)
  IN
  /\ task[k].pc = "claim"
  /\ \/ /\ ~HoldsLive(Of(k)) \/ run.count["running"] < n \/ task[k].cut
        /\ End(k)
        /\ UNCHANGED <<run, item, site>>
     \/ HoldsLive(Of(k)) /\ run.stop /\ ~task[k].cut /\ StopAll(k)
     \/ /\ HoldsLive(Of(k)) /\ ~run.stop /\ ~task[k].cut
        /\ run.cooling \/ Runnable(open) = {}
        /\ item' = open /\ run' = [run EXCEPT !.count = back]
        /\ End(k)
        /\ UNCHANGED site
     \/ /\ HoldsLive(Of(k)) /\ ~run.stop /\ ~task[k].cut /\ ~run.cooling
        /\ \E i \in Runnable(open) :
             /\ item' = Claimed(open, i, k)
             /\ task' = [task EXCEPT ![k].pc = "needs", ![k].item = i]
        /\ run' = [run EXCEPT !.count = Shift(1, "queued", "running", back)]
        /\ UNCHANGED site
  /\ UNCHANGED <<coord, env>>

-----------------------------------------------------------------------------
(* The path of one item. *)

\* _metadata_item_needs_llm.
Needs(k) ==
  LET i == task[k].item IN
  /\ task[k].pc = "needs"
  /\ task' = [task EXCEPT ![k].pc = "intent", ![k].llm = item[i].llm /\ site[i].llm = "missing"]
  /\ UNCHANGED <<run, item, site, coord, env>>

\* After the waits for capacity the intent is read again. An item that needs
\* the model only now goes back to the queue.
Intent(k) ==
  LET i == task[k].item IN
  /\ task[k].pc = "intent"
  /\ \/ /\ MayWork(k) /\ (NeedsModel(i) => task[k].llm)
        /\ task' = [task EXCEPT ![k].pc = "site", ![k].llm = NeedsModel(i)]
     \/ /\ ~MayWork(k) \/ (NeedsModel(i) /\ ~task[k].llm)
        /\ Go(k, "release")
  /\ UNCHANGED <<run, item, site, coord, env>>

\* The conditions of _claim_analysis for a bulk item.
Claimable(i) ==
  /\ site[i].there /\ ~site[i].moved
  /\ PageMissing(i) \/ Missing(i)
  /\ IF item[i].claimed # None
     THEN \/ Pending(i) /\ site[i].stamp = item[i].claimed
          \/ site[i].status = "not_analyzed"
     ELSE Eligible(i)

\* Mutant: the item is not told the claim it put on the Site.
RecordClaimNothing(i, t) == item

\* record_item_site_claim.
RecordClaim(i, t) == [item EXCEPT ![i].claimed = t]

\* _claim_analysis: the Site turns pending and the item learns the claim, in
\* one transaction; otherwise the claim was missed.
ClaimSite(k) ==
  LET i == task[k].item
      t == Unused(Stamps(i))
      may == Claimable(i) /\ HoldsLive(Of(k)) /\ ~run.stop /\ HoldsItem(k) /\ item[i].live
  IN
  /\ task[k].pc = "site"
  /\ \/ /\ may
        /\ site' = [site EXCEPT ![i].status = "pending", ![i].stamp = t, ![i].stale = FALSE]
        /\ item' = RecordClaim(i, t)
        /\ task' = [task EXCEPT ![k].pc = "fetch", ![k].stamp = t]
     \/ ~may /\ Go(k, "miss") /\ UNCHANGED <<item, site>>
  /\ UNCHANGED <<run, coord, env>>

\* The need of the model is read once more, then the page is fetched.
Fetch(k) ==
  LET i == task[k].item
      use == task[k].llm /\ site[i].there /\ Missing(i)
  IN
  /\ task[k].pc = "fetch"
  /\ \E p \in {"complete", "failed"} :
       task' = [task EXCEPT ![k].page = p, ![k].llm = use,
                            ![k].pc = IF use THEN "snapshot" ELSE "apply"]
  /\ UNCHANGED <<run, item, site, coord, env>>

\* _load_enrichment_snapshot: a Site that changed is finished without the model.
Snapshot(k) ==
  /\ task[k].pc = "snapshot"
  /\ Go(k, IF Current(k) THEN "permit" ELSE "apply")
  /\ UNCHANGED <<run, item, site, coord, env>>

\* before_provider_call.
Permit(k) ==
  /\ task[k].pc = "permit"
  /\ Go(k, IF MayWork(k) /\ NeedsModel(task[k].item) THEN "call" ELSE "refuse")
  /\ UNCHANGED <<run, item, site, coord, env>>

\* The Provider answers: a draft, a retryable failure, one that stops the
\* batch, or one that is no Provider failure.
Call(k) ==
  /\ task[k].pc = "call"
  /\ \E r \in {"ok", "retry", "fatal", "invalid"} :
       task' = [task EXCEPT ![k].pc = "returned", ![k].result = r]
  /\ UNCHANGED <<run, item, site, coord, env>>

\* The phase "saving_result" is published; then the finalisation, shielded from
\* cancellation, records the signal if there is one.
Returned(k) ==
  /\ task[k].pc = "returned"
  /\ Go(k, IF task[k].result = "invalid" THEN "apply" ELSE "record")
  /\ UNCHANGED <<run, item, site, coord, env>>

Invoked(k)  == task[k].result # "none"
Shielded(k) == Invoked(k) /\ task[k].pc \in {"record", "refuse", "apply"}
After(k, pc) == IF task[k].cut THEN "unclaim" ELSE pc

\* Mutant: the signal of an item is recorded although the fuse has gone.
MayRecordLate(k) == HoldsLive(Of(k)) /\ HoldsItem(k) /\ item[task[k].item].live

MayRecord(k) == /\ HoldsLive(Of(k)) /\ ~run.stop
                /\ HoldsItem(k) /\ item[task[k].item].live

\* What a signal does to the run and to the queue when it stops the batch.
Signal(result) ==
  LET n     == run.failures + 1
      stops == result = "fatal" \/ (result = "retry" /\ n >= MaxFailures)
      next  == IF result = "ok" THEN [run EXCEPT !.failures = 0, !.cooling = FALSE]
               ELSE IF result = "retry" THEN [run EXCEPT !.failures = n, !.cooling = TRUE, !.stop = stops]
               ELSE [run EXCEPT !.cooling = FALSE, !.stop = TRUE]
  IN IF stops
     THEN /\ item' = FailQueued(item)
          /\ run' = Finished([next EXCEPT !.count = FailQueuedCount(item, @)])
          /\ site' = Unclaimed(In(item, "queued"))
     ELSE run' = next /\ UNCHANGED <<item, site>>

\* record_provider_result.
Record(k) ==
  /\ task[k].pc = "record"
  /\ \/ MayRecord(k) /\ Signal(task[k].result) /\ Go(k, "apply")
     \/ ~MayRecord(k) /\ Go(k, "refuse") /\ UNCHANGED <<run, item, site>>
  /\ UNCHANGED <<coord, env>>

\* A Site leaves the claim of a task with a status; a newer claim wins.
Leave(k, status) == IF Claims(k)
  THEN [site EXCEPT ![task[k].item].status = status, ![task[k].item].stamp = None,
                    ![task[k].item].stale = FALSE]
  ELSE site

\* _record_claim_terminal after a refused call or a refused signal.
Refuse(k) ==
  /\ task[k].pc = "refuse"
  /\ site' = Leave(k, "not_analyzed")
  /\ Go(k, After(k, "miss"))
  /\ UNCHANGED <<run, item, coord, env>>

Missed(k, status) == site' = Leave(k, status) /\ Go(k, After(k, "miss"))

Applied(k, new) ==
  /\ site' = [site EXCEPT ![task[k].item] = new]
  /\ task' = [task EXCEPT ![k].pc = After(k, "finish"),
                          ![k].out = IF new.status = "failed" THEN "failed" ELSE "complete"]

\* apply_outcome. A draft may move the Site (its version), a page fills what is
\* blank. The draft is checked against the library once more: it is refused when
\* the user changed his categories or tags in the meantime.
Apply(k) ==
  LET x    == site[task[k].item]
      done(status) == [x EXCEPT !.status = status, !.stamp = None, !.stale = FALSE]
  IN
  /\ task[k].pc = "apply"
  /\ \/ /\ Current(k) /\ task[k].result = "ok"
        /\ \E p, m \in BOOLEAN : Applied(k, [done("complete") EXCEPT
             !.llm = "settled", !.page = @ \/ p, !.moved = m])
        /\ UNCHANGED env
     \/ /\ Current(k) /\ task[k].result = "ok"
        /\ edits < MaxEdits /\ edits' = edits + 1 /\ UNCHANGED <<faults, deletes, claims>>
        /\ \E s \in {"complete", "not_analyzed"} : Missed(k, s)
     \/ /\ Current(k) /\ task[k].result # "ok"
        /\ IF task[k].page = "failed" THEN Applied(k, done("failed"))
           ELSE \E p \in BOOLEAN : Applied(k, [done("complete") EXCEPT !.page = @ \/ p])
        /\ UNCHANGED env
     \/ /\ ~Current(k)
        /\ Missed(k, IF task[k].result = "ok" THEN "not_analyzed" ELSE task[k].page)
        /\ UNCHANGED env
  /\ UNCHANGED <<run, item, coord>>

\* _metadata_claim_miss_resolution.
Miss(k) ==
  LET i == task[k].item IN
  /\ task[k].pc = "miss"
  /\ \/ /\ ~site[i].there \/ site[i].moved
        /\ task' = [task EXCEPT ![k].pc = "finish", ![k].out = "skipped"]
     \/ /\ site[i].there /\ ~site[i].moved
        /\ \/ site[i].status \in {"pending", "not_analyzed"}
           \/ item[i].llm /\ site[i].llm = "missing"
        /\ Go(k, "defer")
     \/ /\ site[i].there /\ ~site[i].moved
        /\ site[i].status \in {"complete", "failed"}
        /\ ~(item[i].llm /\ site[i].llm = "missing")
        /\ task' = [task EXCEPT ![k].pc = "finish", ![k].out = site[i].status]
  /\ UNCHANGED <<run, item, site, coord, env>>

-----------------------------------------------------------------------------
(* Giving an item up. *)

MayGiveUp(k) == Holds(Of(k)) /\ HoldsItem(k) /\ run.count["running"] >= 1

\* finish_item; the consumer goes on with the next item.
Finish(k) ==
  LET i == task[k].item IN
  /\ task[k].pc = "finish"
  /\ \/ /\ MayGiveUp(k)
        /\ item' = [item EXCEPT ![i] = Settled(@, task[k].out)]
        /\ run' = Finished([run EXCEPT !.count = Shift(1, "running", task[k].out, @)])
        /\ site' = IF run.stop THEN Unclaimed({i}) ELSE site
        /\ task' = [task EXCEPT ![k] = [NoTask EXCEPT !.pc = "claim"]]
     \/ ~MayGiveUp(k) /\ End(k) /\ UNCHANGED <<run, item, site>>
  /\ UNCHANGED <<coord, env>>

\* _return_or_fail_item: back to the queue, or failed when the run was stopped.
Return(k, defer) ==
  LET i == task[k].item IN
  /\ MayGiveUp(k)
  /\ \/ /\ run.stop
        /\ item' = [item EXCEPT ![i] = Settled(@, "failed")]
        /\ run' = Finished([run EXCEPT !.count = Shift(1, "running", "failed", @)])
        /\ site' = Unclaimed({i})
     \/ /\ ~run.stop
        /\ item' = [item EXCEPT ![i] = [Requeued(@) EXCEPT
                      !.waits = defer, !.claimed = IF defer THEN None ELSE item[i].claimed]]
        /\ run' = [run EXCEPT !.count = Shift(1, "running", "queued", @)]
        /\ UNCHANGED site

Defer(k) ==
  /\ task[k].pc = "defer"
  /\ \/ Return(k, TRUE) /\ task' = [task EXCEPT ![k] = [NoTask EXCEPT !.pc = "claim"]]
     \/ ~MayGiveUp(k) /\ End(k) /\ UNCHANGED <<run, item, site>>
  /\ UNCHANGED <<coord, env>>

ReleaseItem(k) ==
  /\ task[k].pc = "release"
  /\ Return(k, FALSE) \/ (~MayGiveUp(k) /\ UNCHANGED <<run, item, site>>)
  /\ End(k)
  /\ UNCHANGED <<coord, env>>

\* The CancelledError handler of analyze_site.
Unclaim(k) ==
  /\ task[k].pc = "unclaim"
  /\ site' = Leave(k, "not_analyzed")
  /\ Go(k, "release")
  /\ UNCHANGED <<run, item, coord, env>>

\* stop_bulk_after_local_failure, once the Provider was called.
Fuse(k) ==
  /\ task[k].pc = "fuse"
  /\ (MayRecord(k) /\ Signal("fatal")) \/ (~MayRecord(k) /\ UNCHANGED <<run, item, site>>)
  /\ Go(k, After(k, "crashed"))
  /\ UNCHANGED <<coord, env>>

\* The Exception handler of analyze_site; the item fails.
Crashed(k) ==
  /\ task[k].pc = "crashed"
  /\ site' = Leave(k, "failed")
  /\ task' = [task EXCEPT ![k].pc = IF task[k].cut THEN "release" ELSE "finish", ![k].out = "failed"]
  /\ UNCHANGED <<run, item, coord, env>>

\* Where CancelledError takes a consumer; lost: the commit it was awaiting went
\* through, and the consumer never learns it.
Interrupted(k, lost) ==
  LET x == task[k] IN
  IF x.pc \in {"ended", "claim"} \/ (x.pc = "needs" /\ lost) THEN NoTask
  ELSE IF x.pc \in {"fuse", "crashed"} \/ Shielded(k) THEN [x EXCEPT !.cut = TRUE]
  ELSE IF x.pc \in Working /\ ~(x.pc = "fetch" /\ lost) THEN [x EXCEPT !.pc = "unclaim"]
  ELSE IF x.pc = "unclaim" THEN x
  ELSE [x EXCEPT !.pc = "release"]

\* The heartbeat could not renew the leases: the analysis is cancelled.
HeartbeatEnds(k) ==
  /\ task[k].pc \in {"needs", "intent", "site"} \cup Working /\ ~task[k].cut
  /\ ~MayRecord(k)
  /\ \E lost \in BOOLEAN : task' = [task EXCEPT ![k] = Interrupted(k, lost)]
  /\ UNCHANGED <<run, item, site, coord, env>>

-----------------------------------------------------------------------------
(* Faults, time and the rest of the product. *)

Fault == faults < MaxFaults /\ faults' = faults + 1 /\ UNCHANGED <<edits, deletes, claims>>

\* The consumers of a coordinator are cancelled, K of them during a commit.
CancelAll(c, K) == [k \in Consumer |-> IF Of(k) = c THEN Interrupted(k, k \in K) ELSE task[k]]

\* The database refuses a statement of a consumer. Outside of an analysis the
\* error ends the consumer and the task group.
StorageError(k) ==
  LET x == task[k] IN
  /\ Fault
  /\ \/ /\ x.pc \in {"claim", "needs", "miss", "defer", "finish"}
        /\ \E K \in SUBSET Consumer : task' = [CancelAll(Of(k), K) EXCEPT ![k] = NoTask]
     \/ /\ x.pc \in {"intent", "site"}
        /\ task' = [task EXCEPT ![k].pc = "finish", ![k].out = "failed"]
     \/ x.pc \in Working /\ Go(k, IF Invoked(k) THEN "fuse" ELSE "crashed")
     \/ /\ x.pc \in {"fuse", "crashed", "unclaim"}
        /\ task' = [task EXCEPT ![k].out = "failed", ![k].pc =
             IF x.pc = "fuse" THEN After(k, "crashed")
             ELSE IF x.cut \/ x.pc = "unclaim" THEN "release" ELSE "finish"]
     \/ x.pc = "release" /\ End(k)
  /\ UNCHANGED <<run, item, site, coord>>

\* Shutdown of a process: its coordinator is cancelled with its consumers.
Stop(c) ==
  /\ Fault /\ coord[c].pc \in {"acquire", "work"}
  /\ coord' = [coord EXCEPT ![c].pc = IF @ = "work" THEN "stop" ELSE "gone"]
  /\ \E K \in SUBSET Consumer : task' = CancelAll(c, K)
  /\ UNCHANGED <<run, item, site>>

Crash(c) ==
  /\ Fault /\ coord[c].pc # "gone"
  /\ coord' = [coord EXCEPT ![c] = [pc |-> "gone", token |-> None]]
  /\ task' = [k \in Consumer |-> IF Of(k) = c THEN NoTask ELSE task[k]]
  /\ UNCHANGED <<run, item, site>>

\* Leases run out when nobody renews them, or when a stall keeps their holder
\* from it. An item lease is never granted beyond the lease of its run.
Lapse ==
  /\ run.live
  /\ run' = [run EXCEPT !.live = FALSE]
  /\ item' = [i \in Item |-> [item[i] EXCEPT !.live = FALSE]]
  /\ IF \E c \in Coord : coord[c].token = run.token THEN Fault ELSE UNCHANGED env
  /\ UNCHANGED <<site, coord, task>>
LapseItem(i) ==
  /\ item[i].live
  /\ item' = [item EXCEPT ![i].live = FALSE]
  /\ Fault
  /\ UNCHANGED <<run, site, coord, task>>

CoolDown == /\ run.cooling /\ run' = [run EXCEPT !.cooling = FALSE]
            /\ UNCHANGED <<item, site, coord, task, env>>
Wake(i) == /\ item[i].waits /\ item' = [item EXCEPT ![i].waits = FALSE]
           /\ UNCHANGED <<run, site, coord, task, env>>

\* A pending claim grows old; that of a live analysis only if it takes minutes.
Age(i) ==
  /\ Fresh(i)
  /\ site' = [site EXCEPT ![i].stale = TRUE]
  /\ IF \E k \in Consumer : task[k].item = i /\ task[k].stamp = site[i].stamp
     THEN Fault ELSE UNCHANGED env
  /\ UNCHANGED <<run, item, coord, task>>

\* The user edits a Site of the plan; another URL makes it a new page.
Edit(i) ==
  /\ run.state # "none" /\ site[i].there
  /\ edits < MaxEdits /\ edits' = edits + 1
  /\ \/ site' = [site EXCEPT ![i].moved = TRUE]
     \/ site' = [site EXCEPT ![i] = [@ EXCEPT !.moved = TRUE, !.status = "not_analyzed",
                   !.stamp = None, !.stale = FALSE, !.page = FALSE, !.llm = "missing"]]
  /\ UNCHANGED <<run, item, coord, task, faults, deletes, claims>>

Delete(i) ==
  /\ run.state # "none" /\ site[i].there
  /\ deletes < MaxDeletes /\ deletes' = deletes + 1
  /\ site' = [site EXCEPT ![i] = [@ EXCEPT !.there = FALSE, !.status = "not_analyzed",
                !.stamp = None, !.stale = FALSE]]
  /\ UNCHANGED <<run, item, coord, task, faults, edits, claims>>

\* Another analysis claims a Site, and ends.
ForeignClaim(i) ==
  /\ run.state # "none" /\ site[i].there /\ ~Fresh(i)
  /\ claims < MaxForeign /\ claims' = claims + 1
  /\ site' = [site EXCEPT ![i].status = "pending", ![i].stamp = Foreign, ![i].stale = FALSE]
  /\ UNCHANGED <<run, item, coord, task, faults, edits, deletes>>
ForeignEnd(i) ==
  /\ Pending(i) /\ site[i].stamp = Foreign
  /\ \E s \in {"complete", "failed", "not_analyzed"}, p, m, v \in BOOLEAN :
       /\ (p \/ m \/ v) => s = "complete"
       /\ v => m
       /\ site' = [site EXCEPT ![i] = [site[i] EXCEPT !.status = s, !.stamp = None, !.stale = FALSE,
                     !.page = @ \/ p, !.llm = IF m THEN "settled" ELSE @, !.moved = @ \/ v]]
  /\ UNCHANGED <<run, item, coord, task, env>>

-----------------------------------------------------------------------------
Step(k) == \/ ClaimNext(k) \/ Needs(k) \/ Intent(k) \/ ClaimSite(k) \/ Fetch(k) \/ Snapshot(k)
           \/ Permit(k) \/ Call(k) \/ Returned(k) \/ Record(k) \/ Refuse(k) \/ Apply(k)
           \/ Miss(k) \/ Finish(k) \/ Defer(k) \/ ReleaseItem(k) \/ Unclaim(k) \/ Fuse(k)
           \/ Crashed(k)

Next ==
  \/ \E c \in Coord : Start(c) \/ Resume(c) \/ Acquire(c) \/ Release(c) \/ Stop(c) \/ Crash(c)
  \/ \E k \in Consumer : Step(k) \/ HeartbeatEnds(k) \/ StorageError(k)
  \/ \E i \in Item : \/ LapseItem(i) \/ Wake(i) \/ Age(i) \/ Edit(i) \/ Delete(i)
                     \/ ForeignClaim(i) \/ ForeignEnd(i)
  \/ Lapse \/ CoolDown

Spec == Init /\ [][Next]_vars

\* The event loop runs what is runnable, Providers and pages answer or time
\* out, clocks move on, a process is started again, and another analysis ends,
\* at the latest when the automatic sweep takes up its stale claim.
Fairness ==
  /\ \A c \in Coord : WF_vars(Resume(c)) /\ WF_vars(Acquire(c)) /\ WF_vars(Release(c))
  /\ \A k \in Consumer : WF_vars(Step(k))
  /\ \A i \in Item : WF_vars(Wake(i)) /\ WF_vars(Age(i)) /\ WF_vars(ForeignEnd(i))
  /\ WF_vars(Lapse) /\ WF_vars(CoolDown)
FairSpec == Spec /\ Fairness

-----------------------------------------------------------------------------
(* Properties. *)

\* The progress a page shows is the state of the items, whatever lease was lost
\* and whatever transaction was rolled back (the counters are moved beside the
\* items and never recounted), and the denominator stays.
CountersMatchItems ==
  /\ \A s \in Active \cup Terminal : run.count[s] = Cardinality(In(item, s))
  /\ run.total = Cardinality({i \in Item : item[i].state # "none"})

\* Two targets of one origin are never at work at once, although expired items
\* of an earlier attempt or of a lost coordinator may still be marked running.
OneRunningPerOrigin ==
  \A i, j \in In(item, "running") : Origin(i) = Origin(j) => i = j

\* Once the run was told to stop it stays told, and no target goes back to the
\* queue or to work, whichever results, retries and recoveries are still to come.
FuseStep ==
  run.stop => /\ run'.stop /\ run'.failures = run.failures
              /\ \A i \in Item : item'[i].state \in {item[i].state} \cup Terminal
FuseHolds == [][FuseStep]_vars

\* Up to one fault, a pending claim the backfill put on a Site is known to its
\* item, which alone may take it up again, or held by a task that will end it;
\* when the run is over none is left behind, unless a user changed the Site. A
\* second fault, in the handler that gives the claim of a failed analysis back,
\* leaves it to the sweep of stale claims.
NoOrphanClaim ==
  faults <= 1 => \A i \in Item : Pending(i) /\ site[i].stamp \in Token =>
    \/ item[i].claimed = site[i].stamp
    \/ \E k \in Consumer : task[k].item = i /\ task[k].stamp = site[i].stamp
    \/ site[i].moved

\* The backfill implements the plan it promises: every target ends once and the
\* run is over with the last one.
Plan == INSTANCE BackfillPlan WITH
  phase   <- IF run.state \in Active THEN "active" ELSE run.state,
  outcome <- [i \in Item |-> IF item[i].state \in Active THEN "open" ELSE item[i].state],
  fused   <- run.stop
RunsPlan == Plan!PlanSpec

\* An open target that every attempt gives back: its Site was deleted, or
\* has nothing left to fill and yet no analysis that ended, or lacks only the
\* summary of a full analysis.
Stuck(i) == /\ item[i].state \in Active
            /\ \/ ~site[i].there
               \/ site[i].status = "not_analyzed" /\ ~PageMissing(i) /\ ~Missing(i)
               \/ Mode = "metadata" /\ site[i].status = "not_analyzed" /\ ~PageMissing(i)
               \/ item[i].llm /\ site[i].llm = "old"

\* A run that was started is over eventually, without a browser that asks,
\* through crashes, lost leases, cooldowns and failures of the Provider; only
\* a target that can make no progress may keep it.
RunEndsUnlessStuck == (run.state \in Active) ~> (run.state \notin Active \/ \E i \in Item : Stuck(i))

\* A run that was started is over eventually, whatever happens to its Sites:
\* "deletion is a terminal skipped outcome" says the model of its items.
RunEnds == (run.state \in Active) ~> (run.state \notin Active)
=============================================================================
