----------------------- MODULE MetadataBackfillProofs -----------------------
(***************************************************************************)
(* The progress of a backfill is the state of its targets, targets of one  *)
(* origin exclude each other, a stopped run stays stopped, and the run     *)
(* implements its plan: for every number of processes, consumers, targets, *)
(* faults and edits.                                                       *)
(*                                                                         *)
(* Steps differ only in what they do to the states of the targets. They    *)
(* keep them (Keeps), move targets between the queue and the consumers     *)
(* (Reshuffles), or end some (Settles); each of these effects is shown to  *)
(* preserve the invariant once.  Rows, leases, claims and tasks keep their *)
(* types.                                                                  *)
(*                                                                         *)
(* Of a claim on a Site a step says where its task goes (Moves), that the  *)
(* task gains no lease (HoldStays) and that the claim stays what it was    *)
(* (OwnStays); what a first fault may leave behind is in FoundBy.          *)
(***************************************************************************)
EXTENDS MetadataBackfill, FiniteSetTheorems, TLAPS

States == {"none"} \cup Active \cup Terminal

RunRow(r) ==
  /\ r = [state |-> r.state, token |-> r.token, live |-> r.live, stop |-> r.stop, cooling |-> r.cooling,
          failures |-> r.failures, count |-> r.count, total |-> r.total]
  /\ r.stop \in BOOLEAN
  /\ r.count \in [Active \cup Terminal -> Int]

ItemRow(x) ==
  /\ x = [state |-> x.state, llm |-> x.llm, tried |-> x.tried, token |-> x.token, by |-> x.by,
          live |-> x.live, claimed |-> x.claimed, waits |-> x.waits]
  /\ x.state \in States
ItemRows(it) == it = [i \in Item |-> it[i]] /\ \A i \in Item : ItemRow(it[i])

TaskRow(x) ==
  /\ x = [pc |-> x.pc, item |-> x.item, llm |-> x.llm, stamp |-> x.stamp, page |-> x.page,
          result |-> x.result, out |-> x.out, cut |-> x.cut]
  /\ x.out \in Terminal
  /\ x.pc \notin {"ended", "claim"} => x.item \in Item
TaskRows == task = [k \in Consumer |-> task[k]] /\ \A k \in Consumer : TaskRow(task[k])

\* The counters c are those of the states st.
Counts(st, c) ==
  /\ c \in [Active \cup Terminal -> Int]
  /\ \A s \in Active \cup Terminal : c[s] = Cardinality({i \in Item : st[i] = s})

-----------------------------------------------------------------------------
(* Rows under EXCEPT. *)

LEMMA SetPc ==
  ASSUME NEW x, TaskRow(x), NEW p, p \notin {"ended", "claim"} => x.item \in Item
  PROVE  TaskRow([x EXCEPT !.pc = p])
BY DEF TaskRow

LEMMA SetOther ==
  ASSUME NEW x, TaskRow(x), NEW v
  PROVE  /\ TaskRow([x EXCEPT !.llm = v]) /\ [x EXCEPT !.llm = v].pc = x.pc /\ [x EXCEPT !.llm = v].item = x.item
         /\ TaskRow([x EXCEPT !.stamp = v]) /\ TaskRow([x EXCEPT !.page = v])
         /\ [x EXCEPT !.page = v].pc = x.pc /\ [x EXCEPT !.page = v].item = x.item
         /\ TaskRow([x EXCEPT !.result = v]) /\ TaskRow([x EXCEPT !.cut = v])
BY DEF TaskRow

LEMMA SetOut ==
  ASSUME NEW x, TaskRow(x), NEW v \in Terminal
  PROVE  /\ TaskRow([x EXCEPT !.out = v])
         /\ [x EXCEPT !.out = v].item = x.item /\ [x EXCEPT !.out = v].pc = x.pc
BY DEF TaskRow

LEMMA Puts ==
  ASSUME TaskRows, NEW k \in Consumer, NEW r, TaskRow(r), task' = [task EXCEPT ![k] = r]
  PROVE  TaskRows'
<1>1. \A j \in Consumer : task'[j] = IF j = k THEN r ELSE task[j]
  BY DEF TaskRows
<1> QED BY <1>1 DEF TaskRows, TaskRow

LEMMA Goes ==
  ASSUME TaskRows, NEW k \in Consumer, NEW p, task' = [task EXCEPT ![k].pc = p],
         p \notin {"ended", "claim"} => task[k].item \in Item
  PROVE  TaskRows'
<1>1. TaskRow([task[k] EXCEPT !.pc = p])
  BY SetPc DEF TaskRows
<1>2. task' = [task EXCEPT ![k] = [task[k] EXCEPT !.pc = p]]
  BY DEF TaskRows
<1> QED BY <1>1, <1>2, Puts

LEMMA GoesWith ==
  ASSUME TaskRows, NEW k \in Consumer, NEW p, NEW v, task[k].item \in Item,
         \/ task' = [task EXCEPT ![k].pc = p, ![k].llm = v]
         \/ task' = [task EXCEPT ![k].pc = p, ![k].stamp = v]
         \/ task' = [task EXCEPT ![k].pc = p, ![k].result = v]
         \/ task' = [task EXCEPT ![k].pc = p, ![k].out = v] /\ v \in Terminal
  PROVE  TaskRows'
<1> DEFINE x == [task[k] EXCEPT !.pc = p]
<1>1. TaskRow(x)
  BY SetPc DEF TaskRows
<1>2. CASE task' = [task EXCEPT ![k].pc = p, ![k].llm = v]
  <2>1. task' = [task EXCEPT ![k] = [x EXCEPT !.llm = v]]
    BY <1>2 DEF TaskRows
  <2> HIDE DEF x
  <2> QED BY <1>1, <2>1, SetOther, Puts
<1>3. CASE task' = [task EXCEPT ![k].pc = p, ![k].stamp = v]
  <2>1. task' = [task EXCEPT ![k] = [x EXCEPT !.stamp = v]]
    BY <1>3 DEF TaskRows
  <2> HIDE DEF x
  <2> QED BY <1>1, <2>1, SetOther, Puts
<1>4. CASE task' = [task EXCEPT ![k].pc = p, ![k].result = v]
  <2>1. task' = [task EXCEPT ![k] = [x EXCEPT !.result = v]]
    BY <1>4 DEF TaskRows
  <2> HIDE DEF x
  <2> QED BY <1>1, <2>1, SetOther, Puts
<1>5. CASE task' = [task EXCEPT ![k].pc = p, ![k].out = v] /\ v \in Terminal
  <2>1. task' = [task EXCEPT ![k] = [x EXCEPT !.out = v]]
    BY <1>5 DEF TaskRows
  <2> HIDE DEF x
  <2> QED BY ZenonT(60), <1>1, <1>5, <2>1, SetOut, Puts
<1> QED BY <1>2, <1>3, <1>4, <1>5

-----------------------------------------------------------------------------
(* The tasks. *)

LEMMA NoTaskRow == TaskRow(NoTask) /\ TaskRow([NoTask EXCEPT !.pc = "claim"])
<1>1. TaskRow(NoTask)
  BY DEF TaskRow, NoTask, Terminal
<1> QED BY <1>1, SetPc

LEMMA InterruptedRow ==
  ASSUME TaskRows, NEW k \in Consumer, NEW lost
  PROVE  TaskRow(Interrupted(k, lost))
<1> DEFINE x == task[k]
<1>1. TaskRow(x)
  BY DEF TaskRows
<1>2. TaskRow([x EXCEPT !.cut = TRUE])
  BY <1>1, SetOther
<1>3. ASSUME x.pc \notin {"ended", "claim"} PROVE TaskRow([x EXCEPT !.pc = "unclaim"]) /\ TaskRow([x EXCEPT !.pc = "release"])
  <2>1. x.item \in Item
    BY <1>1, <1>3 DEF TaskRow
  <2> QED BY <1>1, <2>1, SetPc
<1> QED BY <1>1, <1>2, <1>3, NoTaskRow DEF Interrupted, Working

LEMMA CancelRows ==
  ASSUME TaskRows, NEW c, NEW K
  PROVE  /\ \A j \in Consumer : TaskRow(CancelAll(c, K)[j])
         /\ CancelAll(c, K) = [j \in Consumer |-> CancelAll(c, K)[j]]
BY InterruptedRow DEF CancelAll, TaskRows

LEMMA StepTasks ==
  ASSUME TaskRows, NEW k \in Consumer, Step(k)
  PROVE  TaskRows'
<1> DEFINE i == task[k].item
<1>0. TaskRow(task[k]) /\ (task[k].pc \notin {"ended", "claim"} => i \in Item)
  BY DEF TaskRows, TaskRow
<1>e. ASSUME End(k) PROVE TaskRows'
  BY <1>e, NoTaskRow, Puts DEF End
<1>c. ASSUME task' = [task EXCEPT ![k] = [NoTask EXCEPT !.pc = "claim"]] PROVE TaskRows'
  BY <1>c, NoTaskRow, Puts
<1>g. ASSUME i \in Item, NEW p, Go(k, p) PROVE TaskRows'
  BY <1>g, Goes DEF Go
<1>1. ASSUME ClaimNext(k) PROVE TaskRows'
  <2>1. ASSUME NEW j \in Item, task' = [task EXCEPT ![k].pc = "needs", ![k].item = j] PROVE TaskRows'
    <3> DEFINE x == [task[k] EXCEPT !.item = j]
    <3>1. TaskRow(x) /\ x.item \in Item
      BY <1>0, <2>1 DEF TaskRow
    <3>2. task' = [task EXCEPT ![k] = [x EXCEPT !.pc = "needs"]]
      BY <2>1 DEF TaskRows
    <3> HIDE DEF x
    <3> QED BY <3>1, <3>2, SetPc, Puts
  <2>2. End(k) \/ \E j \in Item : task' = [task EXCEPT ![k].pc = "needs", ![k].item = j]
    BY <1>1 DEF ClaimNext, StopAll, Runnable, In
  <2> QED BY <2>1, <2>2, <1>e
<1>2. ASSUME Needs(k) \/ Intent(k) \/ ClaimSite(k) \/ Call(k) PROVE TaskRows'
  <2>1. i \in Item
    BY <1>2, <1>0 DEF Needs, Intent, ClaimSite, Call
  <2> QED BY ZenonT(60), <1>2, <2>1, <1>g, GoesWith DEF Needs, Intent, ClaimSite, Call
<1>3. ASSUME Fetch(k) PROVE TaskRows'
  <2>1. i \in Item
    BY <1>3, <1>0 DEF Fetch
  <2> DEFINE u == task[k].llm /\ site[i].there /\ Missing(i)
             p == IF u THEN "snapshot" ELSE "apply"
  <2>2. PICK g \in {"complete", "failed"} : task' = [task EXCEPT ![k].page = g, ![k].llm = u, ![k].pc = p]
    BY <1>3 DEF Fetch
  <2> HIDE DEF u, p
  <2> DEFINE x == [task[k] EXCEPT !.page = g]
             y == [x EXCEPT !.llm = u]
  <2>3. task' = [task EXCEPT ![k] = [y EXCEPT !.pc = p]]
    BY <2>2 DEF TaskRows
  <2>4. TaskRow(x) /\ x.item \in Item
    BY <1>0, <2>1, SetOther
  <2> HIDE DEF x
  <2>5. TaskRow(y) /\ y.item \in Item
    BY <2>4, SetOther
  <2> HIDE DEF y
  <2> QED BY <2>3, <2>5, SetPc, Puts
<1>4. ASSUME Snapshot(k) \/ Permit(k) \/ Returned(k) \/ Record(k) \/ Refuse(k) \/ Unclaim(k) \/ Fuse(k)
      PROVE TaskRows'
  <2>1. i \in Item
    BY <1>4, <1>0 DEF Snapshot, Permit, Returned, Record, Refuse, Unclaim, Fuse
  <2> QED BY <1>4, <2>1, <1>g DEF Snapshot, Permit, Returned, Record, Refuse, Unclaim, Fuse
<1>5. ASSUME Apply(k) PROVE TaskRows'
  <2>1. i \in Item
    BY <1>5, <1>0 DEF Apply
  <2>2. ASSUME NEW new, Applied(k, new) PROVE TaskRows'
    BY <2>1, <2>2, GoesWith DEF Applied, Terminal
  <2>3. ASSUME NEW s, Missed(k, s) PROVE TaskRows'
    BY <2>1, <2>3, <1>g DEF Missed
  <2> QED BY <1>5, <2>2, <2>3 DEF Apply
<1>6. ASSUME Miss(k) PROVE TaskRows'
  <2>1. i \in Item
    BY <1>6, <1>0 DEF Miss
  <2> QED BY <1>6, <2>1, <1>g, GoesWith DEF Miss, Terminal
<1>7. ASSUME Finish(k) \/ Defer(k) \/ ReleaseItem(k) PROVE TaskRows'
  BY <1>7, <1>e, <1>c DEF Finish, Defer, ReleaseItem
<1>8. ASSUME Crashed(k) PROVE TaskRows'
  <2>1. i \in Item
    BY <1>8, <1>0 DEF Crashed
  <2> QED BY <1>8, <2>1, GoesWith DEF Crashed, Terminal
<1> QED BY <1>1, <1>2, <1>3, <1>4, <1>5, <1>6, <1>7, <1>8 DEF Step

LEMMA StorageErrorTasks ==
  ASSUME TaskRows, NEW k \in Consumer, StorageError(k)
  PROVE  TaskRows'
<1> DEFINE x == task[k]
<1>0. TaskRow(x) /\ (x.pc \notin {"ended", "claim"} => x.item \in Item)
  BY DEF TaskRows, TaskRow
<1>1. ASSUME NEW K, task' = [CancelAll(Of(k), K) EXCEPT ![k] = NoTask] PROVE TaskRows'
  <2>1. \A j \in Consumer : task'[j] = IF j = k THEN NoTask ELSE CancelAll(Of(k), K)[j]
    BY <1>1, CancelRows
  <2>2. task' = [j \in Consumer |-> task'[j]]
    <3> DEFINE f == CancelAll(Of(k), K)
    <3>1. f = [j \in Consumer |-> f[j]]
      BY CancelRows
    <3> HIDE DEF f
    <3>2. task' = [f EXCEPT ![k] = NoTask]
      BY <1>1 DEF f
    <3> QED BY <3>1, <3>2
  <2>3. \A j \in Consumer : TaskRow(task'[j])
    BY <2>1, CancelRows, NoTaskRow
  <2> HIDE <1>1
  <2> QED BY <2>2, <2>3 DEF TaskRows, TaskRow
<1>2. ASSUME x.pc \in {"intent", "site"}, task' = [task EXCEPT ![k].pc = "finish", ![k].out = "failed"] PROVE TaskRows'
  BY <1>0, <1>2, GoesWith DEF Terminal
<1>3. ASSUME x.pc \in Working, NEW p, Go(k, p) PROVE TaskRows'
  BY <1>0, <1>3, Goes DEF Working, Go
<1>4. ASSUME x.pc \in {"fuse", "crashed", "unclaim"}, NEW p, task' = [task EXCEPT ![k].out = "failed", ![k].pc = p]
      PROVE TaskRows'
  <2> DEFINE y == [x EXCEPT !.out = "failed"]
  <2>1. TaskRow(y) /\ y.item \in Item
    BY <1>0, <1>4, SetOut DEF Terminal
  <2>2. task' = [task EXCEPT ![k] = [y EXCEPT !.pc = p]]
    BY <1>4 DEF TaskRows
  <2> HIDE DEF y
  <2> QED BY <2>1, <2>2, SetPc, Puts
<1>5. ASSUME End(k) PROVE TaskRows'
  BY <1>5, NoTaskRow, Puts DEF End
<1> QED BY <1>1, <1>2, <1>3, <1>4, <1>5 DEF StorageError

\* No step leaves a task that is at work without its target.
LEMMA Tasks ==
  ASSUME TaskRows, [Next]_vars
  PROVE  TaskRows'
<1>1. ASSUME UNCHANGED task PROVE TaskRows'
  BY <1>1 DEF TaskRows, TaskRow
<1>2. ASSUME NEW c \in Coord, Acquire(c) \/ Crash(c) PROVE TaskRows'
  <2>1. \/ UNCHANGED task
        \/ \E new \in {NoTask, [NoTask EXCEPT !.pc = "claim"]} :
             task' = [k \in Consumer |-> IF Of(k) = c THEN new ELSE task[k]]
    BY <1>2 DEF Acquire, Crash
  <2>2. ASSUME NEW new, TaskRow(new), task' = [k \in Consumer |-> IF Of(k) = c THEN new ELSE task[k]]
        PROVE  TaskRows'
    BY <2>2 DEF TaskRows, TaskRow
  <2> QED BY <2>1, <2>2, <1>1, NoTaskRow
<1>3. ASSUME NEW c \in Coord, Stop(c) PROVE TaskRows'
  <2>1. PICK K \in SUBSET Consumer : task' = CancelAll(c, K)
    BY <1>3 DEF Stop
  <2> QED BY <2>1, CancelRows DEF TaskRows, TaskRow
<1>4. ASSUME NEW k \in Consumer, HeartbeatEnds(k) PROVE TaskRows'
  BY <1>4, InterruptedRow, Puts DEF HeartbeatEnds
<1> QED BY <1>1, <1>2, <1>3, <1>4, StepTasks, StorageErrorTasks
        DEF Next, vars, Start, Resume, Release, LapseItem, Wake, Age, Edit, Delete, ForeignClaim,
            ForeignEnd, Lapse, CoolDown

-----------------------------------------------------------------------------
(* Rows of the run and of its targets. *)

LEMMA RunCount ==
  ASSUME NEW r, RunRow(r), NEW c \in [Active \cup Terminal -> Int]
  PROVE  LET q == [r EXCEPT !.count = c] IN
         /\ RunRow(q) /\ q.count = c /\ q.state = r.state /\ q.stop = r.stop
         /\ q.failures = r.failures /\ q.total = r.total
BY DEF RunRow

\* Nothing but the lease and the cooldown of the run changes.
SameRun(q, r) == /\ RunRow(q) /\ q.count = r.count /\ q.stop = r.stop
                 /\ q.failures = r.failures /\ q.total = r.total

LEMMA RunOther ==
  ASSUME NEW r, RunRow(r), NEW v
  PROVE  /\ SameRun([r EXCEPT !.token = v], r) /\ [r EXCEPT !.token = v].state = r.state
         /\ SameRun([r EXCEPT !.live = v], r) /\ [r EXCEPT !.live = v].state = r.state
         /\ SameRun([r EXCEPT !.cooling = v], r) /\ [r EXCEPT !.cooling = v].state = r.state
BY DEF RunRow, SameRun

LEMMA RunState ==
  ASSUME NEW r, RunRow(r), NEW s
  PROVE  SameRun([r EXCEPT !.state = s], r) /\ [r EXCEPT !.state = s].state = s
BY DEF RunRow, SameRun

LEMMA RunSignal ==
  ASSUME NEW r, RunRow(r), NEW v
  PROVE  LET q == [r EXCEPT !.failures = v] IN
         /\ RunRow(q) /\ q.state = r.state /\ q.count = r.count /\ q.stop = r.stop
         /\ q.total = r.total
BY DEF RunRow

LEMMA RunStop ==
  ASSUME NEW r, RunRow(r), NEW v \in BOOLEAN
  PROVE  LET q == [r EXCEPT !.stop = v] IN
         /\ RunRow(q) /\ q.state = r.state /\ q.count = r.count /\ q.stop = v
         /\ q.failures = r.failures /\ q.total = r.total
BY DEF RunRow

\* A lease is taken or given up.
LEMMA RunLease ==
  ASSUME NEW r, RunRow(r), NEW s, NEW t, NEW l \in BOOLEAN
  PROVE  LET q == [r EXCEPT !.state = s, !.token = t, !.live = l] IN SameRun(q, r) /\ q.state = s
<1> DEFINE a == [r EXCEPT !.state = s]
           b == [a EXCEPT !.token = t]
           d == [b EXCEPT !.live = l]
           q == [r EXCEPT !.state = s, !.token = t, !.live = l]
<1>0. q = d
  OBVIOUS
<1>1. SameRun(a, r) /\ a.state = s
  BY RunState
<1> HIDE DEF a
<1>2. RunRow(a)
  BY <1>1 DEF SameRun
<1>3. SameRun(b, a) /\ b.state = a.state
  BY <1>2, RunOther
<1> HIDE DEF b
<1>4. RunRow(b)
  BY <1>3 DEF SameRun
<1>5. SameRun(d, b) /\ d.state = b.state
  BY <1>4, RunOther
<1> HIDE DEF d, q
<1>6. SameRun(q, r) /\ q.state = s
  BY <1>0, <1>1, <1>3, <1>5 DEF SameRun
<1> QED BY <1>6 DEF q

Outcome(c) == IF c["failed"] > 0 THEN "completed_with_errors" ELSE "completed"
Ends(r)    == r.count["queued"] = 0 /\ r.count["running"] = 0

LEMMA RunFinished ==
  ASSUME NEW r, RunRow(r), NEW q, q = Finished(r)
  PROVE  SameRun(q, r) /\ q.state = IF Ends(r) THEN Outcome(r.count) ELSE r.state
<1>1. CASE Ends(r)
  <2>1. q = [r EXCEPT !.state = Outcome(r.count), !.token = None, !.live = FALSE]
    BY <1>1 DEF Finished, Ends, Outcome
  <2> DEFINE o == Outcome(r.count)
  <2> HIDE DEF o
  <2>4. LET z == [r EXCEPT !.state = o, !.token = None, !.live = FALSE] IN SameRun(z, r) /\ z.state = o
    BY ZenonT(60), RunLease
  <2>2. SameRun(q, r) /\ q.state = Outcome(r.count)
    BY <2>1, <2>4 DEF o
  <2> QED BY <1>1, <2>2
<1>2. CASE ~Ends(r)
  BY <1>2 DEF Finished, Ends, SameRun
<1> QED BY <1>1, <1>2

LEMMA ItemSets ==
  ASSUME NEW x, ItemRow(x), NEW v
  PROVE  /\ ItemRow([x EXCEPT !.tried = v]) /\ [x EXCEPT !.tried = v].state = x.state
         /\ ItemRow([x EXCEPT !.token = v]) /\ [x EXCEPT !.token = v].state = x.state
         /\ ItemRow([x EXCEPT !.by = v]) /\ [x EXCEPT !.by = v].state = x.state
         /\ ItemRow([x EXCEPT !.live = v]) /\ [x EXCEPT !.live = v].state = x.state
         /\ ItemRow([x EXCEPT !.claimed = v]) /\ [x EXCEPT !.claimed = v].state = x.state
         /\ ItemRow([x EXCEPT !.waits = v]) /\ [x EXCEPT !.waits = v].state = x.state
BY DEF ItemRow

LEMMA ItemState ==
  ASSUME NEW x, ItemRow(x), NEW s \in States
  PROVE  ItemRow([x EXCEPT !.state = s]) /\ [x EXCEPT !.state = s].state = s
BY DEF ItemRow

LEMMA SettledRow ==
  ASSUME NEW x, ItemRow(x), NEW s \in States
  PROVE  ItemRow(Settled(x, s)) /\ Settled(x, s).state = s
<1> DEFINE a == [x EXCEPT !.state = s]
           b == [a EXCEPT !.token = None]
           c == [b EXCEPT !.by = None]
           d == [c EXCEPT !.live = FALSE]
           e == [d EXCEPT !.claimed = None]
           f == [e EXCEPT !.waits = FALSE]
<1>1. Settled(x, s) = f
  BY DEF Settled
<1>2. ItemRow(a) /\ a.state = s
  BY ItemState
<1> HIDE DEF a
<1>3. ItemRow(b) /\ b.state = s
  BY <1>2, ItemSets
<1> HIDE DEF b
<1>4. ItemRow(c) /\ c.state = s
  BY <1>3, ItemSets
<1> HIDE DEF c
<1>5. ItemRow(d) /\ d.state = s
  BY <1>4, ItemSets
<1> HIDE DEF d
<1>6. ItemRow(e) /\ e.state = s
  BY <1>5, ItemSets
<1> HIDE DEF e
<1>7. ItemRow(f) /\ f.state = s
  BY <1>6, ItemSets
<1> QED BY <1>1, <1>7

LEMMA RequeuedRow ==
  ASSUME NEW x, ItemRow(x)
  PROVE  ItemRow(Requeued(x)) /\ Requeued(x).state = "queued"
<1> DEFINE a == [x EXCEPT !.state = "queued"]
           b == [a EXCEPT !.token = None]
           c == [b EXCEPT !.by = None]
           d == [c EXCEPT !.live = FALSE]
           e == [d EXCEPT !.waits = FALSE]
<1>1. Requeued(x) = e
  BY DEF Requeued
<1>2. ItemRow(a) /\ a.state = "queued"
  BY ItemState DEF States, Active
<1> HIDE DEF a
<1>3. ItemRow(b) /\ b.state = "queued"
  BY <1>2, ItemSets
<1> HIDE DEF b
<1>4. ItemRow(c) /\ c.state = "queued"
  BY <1>3, ItemSets
<1> HIDE DEF c
<1>5. ItemRow(d) /\ d.state = "queued"
  BY <1>4, ItemSets
<1> HIDE DEF d
<1>6. ItemRow(e) /\ e.state = "queued"
  BY <1>5, ItemSets
<1> QED BY <1>1, <1>6

-----------------------------------------------------------------------------
(* The counters. *)

\* _adjust_run_counts keeps the counters those of the states, when the M targets
\* that move were all in one state.
LEMMA ShiftCounts ==
  ASSUME NEW st, NEW c, Counts(st, c), NEW M \in SUBSET Item,
         NEW from \in Active \cup Terminal, NEW to \in Active \cup Terminal, from # to,
         \A i \in M : st[i] = from,
         NEW new, \A i \in Item : new[i] = IF i \in M THEN to ELSE st[i]
  PROVE  Counts(new, Shift(Cardinality(M), from, to, c))
<1> DEFINE At(f, s) == {i \in Item : f[i] = s}
           n == Cardinality(M)
           d == Shift(n, from, to, c)
<1>1. IsFiniteSet(Item)
  BY BackfillAssumption
<1>2. \A s : IsFiniteSet(At(st, s)) /\ Cardinality(At(st, s)) \in Nat
  BY <1>1, FS_Subset, FS_CardinalityType
<1>3. IsFiniteSet(M) /\ n \in Nat
  BY <1>1, FS_Subset, FS_CardinalityType
<1>4. d \in [Active \cup Terminal -> Int]
  BY <1>3 DEF Counts, Shift
<1>5. d[from] = c[from] - n /\ d[to] = c[to] + n
  BY <1>3 DEF Counts, Shift
<1>6. \A s \in Active \cup Terminal : s \notin {from, to} => d[s] = c[s]
  BY DEF Counts, Shift
<1>7. Cardinality(At(new, from)) = Cardinality(At(st, from)) - n
  <2>1. At(new, from) = At(st, from) \ M /\ At(st, from) \cap M = M
    OBVIOUS
  <2> HIDE DEF At
  <2> QED BY <1>2, <1>3, <2>1, FS_Difference
<1>8. Cardinality(At(new, to)) = Cardinality(At(st, to)) + n
  <2>1. At(new, to) = At(st, to) \cup M /\ At(st, to) \cap M = {}
    OBVIOUS
  <2>2. Cardinality({}) = 0
    BY FS_EmptySet
  <2> HIDE DEF At, d
  <2>3. Cardinality(At(st, to) \cup M) = Cardinality(At(st, to)) + Cardinality(M) - Cardinality(At(st, to) \cap M)
    BY <1>2, <1>3, FS_Union
  <2>4. Cardinality(At(new, to)) = Cardinality(At(st, to) \cup M)
    BY <2>1
  <2>5. Cardinality(At(st, to) \cap M) = 0
    BY <2>1, <2>2
  <2>6. Cardinality(At(st, to)) \in Nat
    BY <1>2
  <2> QED BY <1>3, <2>3, <2>4, <2>5, <2>6
<1>9. \A s \in Active \cup Terminal : s \notin {from, to} => At(new, s) = At(st, s)
  OBVIOUS
<1> HIDE DEF d, n
<1>10. ASSUME NEW s \in Active \cup Terminal PROVE d[s] = Cardinality(At(new, s))
  BY <1>5, <1>6, <1>7, <1>8, <1>9 DEF Counts
<1> QED BY <1>4, <1>10 DEF Counts, d, n

\* The counters tell whether the run is over, and how.
LEMMA CountsTell ==
  ASSUME NEW st, NEW c, Counts(st, c), NEW s \in Active \cup Terminal
  PROVE  c[s] \in Nat /\ (c[s] = 0 <=> \A i \in Item : st[i] # s)
<1> DEFINE S == {i \in Item : st[i] = s}
<1>1. IsFiniteSet(S)
  BY BackfillAssumption, FS_Subset
<1>2. Cardinality(S) \in Nat /\ (Cardinality(S) = 0 <=> S = {})
  BY <1>1, FS_CardinalityType, FS_EmptySet
<1>3. c[s] = Cardinality(S)
  BY DEF Counts
<1> QED BY <1>2, <1>3

-----------------------------------------------------------------------------
(* The invariant, and the effects of steps on run and targets. *)

StateOf(it) == [i \in Item |-> it[i].state]
Totals(r, it) == r.total = Cardinality({i \in Item : it[i].state # "none"})
Apart(it) == \A i, j \in In(it, "running") : Origin(i) = Origin(j) => i = j

RunInv ==
  /\ RunRow(run) /\ ItemRows(item)
  /\ Counts(StateOf(item), run.count) /\ Totals(run, item)
  /\ Apart(item)
  /\ run.state = "none" => ~run.stop /\ \A i \in Item : item[i].state = "none"

BackfillInv == RunInv /\ TaskRows

\* The targets keep their states.
Keeps ==
  /\ ItemRows(item') /\ SameRun(run', run)
  /\ \A i \in Item : item'[i].state = item[i].state
  /\ run'.state = run.state \/ {run.state, run'.state} \subseteq Active

\* Targets move between the queue and the consumers.
Reshuffles ==
  /\ RunRow(run') /\ ItemRows(item')
  /\ {run.state, run'.state} \subseteq Active
  /\ ~run.stop /\ run'.stop = run.stop /\ run'.total = run.total
  /\ \A i \in Item : item'[i].state = item[i].state \/ {item[i].state, item'[i].state} \subseteq Active
  /\ Counts(StateOf(item'), run'.count) /\ Apart(item')

\* Targets end, and the run with the last of them.
Settles ==
  /\ RunRow(run') /\ ItemRows(item')
  /\ run.state \in Active
  /\ run.stop => run'.stop /\ run'.failures = run.failures
  /\ run'.total = run.total
  /\ \A i \in Item : item'[i].state = item[i].state \/ (item[i].state \in Active /\ item'[i].state \in Terminal)
  /\ Counts(StateOf(item'), run'.count)
  /\ run'.state = IF Ends(run') THEN Outcome(run'.count) ELSE run.state

LEMMA KeepsInv ==
  ASSUME RunInv, Keeps
  PROVE  RunInv' /\ FuseStep /\ UNCHANGED Plan!plan
<1>1. StateOf(item') = StateOf(item) /\ {i \in Item : item'[i].state # "none"} = {i \in Item : item[i].state # "none"}
      /\ In(item', "running") = In(item, "running")
  BY DEF Keeps, StateOf, In
<1>2. Counts(StateOf(item'), run'.count) /\ Totals(run', item') /\ Apart(item')
  BY <1>1 DEF RunInv, Keeps, SameRun, Totals, Apart
<1>3. RunRow(run') /\ ItemRows(item')
  BY DEF Keeps, SameRun
<1>4. run'.state = "none" => ~run'.stop /\ \A i \in Item : item'[i].state = "none"
  BY DEF RunInv, Keeps, SameRun, Active
<1>5. RunInv'
  BY <1>2, <1>3, <1>4 DEF RunInv
<1>6. FuseStep
  BY DEF FuseStep, Keeps, SameRun
<1>7. UNCHANGED Plan!plan
  BY DEF Plan!plan, Keeps, SameRun
<1> QED BY <1>5, <1>6, <1>7

LEMMA ReshufflesInv ==
  ASSUME RunInv, Reshuffles
  PROVE  RunInv' /\ FuseStep /\ UNCHANGED Plan!plan
<1>1. {i \in Item : item'[i].state # "none"} = {i \in Item : item[i].state # "none"}
  BY DEF Reshuffles, Active
<1>2. Totals(run', item')
  BY <1>1 DEF RunInv, Reshuffles, Totals
<1>3. RunInv'
  BY <1>2 DEF RunInv, Reshuffles, Active
<1>4. FuseStep
  BY DEF FuseStep, Reshuffles
<1>5. UNCHANGED Plan!plan
  BY DEF Plan!plan, Reshuffles
<1> QED BY <1>3, <1>4, <1>5

LEMMA SettlesInv ==
  ASSUME RunInv, Settles
  PROVE  RunInv' /\ FuseStep /\ Plan!Settle
<1>1. {i \in Item : item'[i].state # "none"} = {i \in Item : item[i].state # "none"}
  BY DEF Settles, Active, Terminal
<1>2. Totals(run', item')
  BY <1>1 DEF RunInv, Settles, Totals
<1>3. Apart(item')
  BY DEF RunInv, Settles, Apart, In, Active, Terminal
<1>4. run'.state # "none"
  BY DEF Settles, Outcome, Active
<1>5. RunInv'
  BY <1>2, <1>3, <1>4 DEF RunInv, Settles
<1>6. FuseStep
  BY DEF FuseStep, Settles
<1>7. Plan!Settle
  <2> DEFINE o(it) == [i \in Item |-> IF it[i].state \in Active THEN "open" ELSE it[i].state]
             p(r) == IF r.state \in Active THEN "active" ELSE r.state
  <2>1. \A i \in Item : item'[i].state \in States
    BY DEF Settles, ItemRows, ItemRow
  <2>2. \A i \in Item : \/ o(item')[i] = o(item)[i]
                        \/ o(item)[i] = "open" /\ o(item')[i] \in {"complete", "failed", "skipped"}
    BY DEF Settles, Active, Terminal
  <2>3. o(item') \in [Item -> {"none", "open"} \cup {"complete", "failed", "skipped"}]
    BY <2>1 DEF States, Active, Terminal
  <2>4. \A s \in Active \cup Terminal :
          run'.count[s] \in Nat /\ (run'.count[s] = 0 <=> \A i \in Item : StateOf(item')[i] # s)
    BY CountsTell DEF Settles
  <2>5. Ends(run') <=> ~\E i \in Item : o(item')[i] = "open"
    BY <2>1, <2>4 DEF Ends, StateOf, Active, Terminal, States
  <2>6. run'.count["failed"] > 0 <=> \E i \in Item : o(item')[i] = "failed"
    BY <2>1, <2>4 DEF StateOf, Active, Terminal, States
  <2>7. p(run') = IF \E i \in Item : o(item')[i] = "open" THEN "active"
                 ELSE IF \E i \in Item : o(item')[i] = "failed" THEN "completed_with_errors" ELSE "completed"
    BY <2>5, <2>6 DEF Settles, Outcome, Active
  <2>8. p(run) = "active"
    BY DEF Settles
  <2>9. run'.stop \in BOOLEAN /\ (run.stop => run'.stop)
    BY DEF Settles, RunRow
  <2> QED BY <2>2, <2>3, <2>7, <2>8, <2>9 DEF Plan!Settle, Plan!Over, Plan!Ended
<1> QED BY <1>5, <1>6, <1>7

-----------------------------------------------------------------------------
(* What the transactions do to the targets and their counters. *)

LEMMA FailQueuedCounts ==
  ASSUME NEW it, ItemRows(it), NEW c, Counts(StateOf(it), c)
  PROVE  LET f == FailQueued(it) IN
         /\ ItemRows(f) /\ Counts(StateOf(f), FailQueuedCount(it, c))
         /\ \A i \in Item : IF it[i].state = "queued" THEN f[i].state \in {"failed", "skipped"}
                           ELSE f[i] = it[i]
<1> DEFINE f == FailQueued(it)
           Q == In(it, "queued")
           D == {i \in Q : it[i].tried}
           mid == [i \in Item |-> IF i \in Q \ D THEN "skipped" ELSE it[i].state]
           fin == [i \in Item |-> IF i \in D THEN "failed" ELSE mid[i]]
           rest == Cardinality(Q) - Cardinality(D)
           c1 == Shift(rest, "queued", "skipped", c)
<1>1. \A i \in Item : ItemRow(it[i])
  BY DEF ItemRows
<1>2. \A i \in Item : f[i] = IF it[i].state # "queued" THEN it[i]
                             ELSE Settled(it[i], IF it[i].tried THEN "failed" ELSE "skipped")
  BY DEF FailQueued
<1>3. \A i \in Item : ItemRow(f[i]) /\ f[i].state = fin[i]
  <2>1. \A s \in {"failed", "skipped"} : s \in States
    BY DEF States, Terminal
  <2>2. ASSUME NEW i \in Item PROVE ItemRow(f[i]) /\ f[i].state = fin[i]
    <3>1. CASE it[i].state # "queued"
      BY <1>1, <1>2, <3>1 DEF In
    <3>2. CASE it[i].state = "queued" /\ it[i].tried
      <4>1. f[i] = Settled(it[i], "failed")
        BY <1>2, <3>2
      <4> QED BY <1>1, <2>1, <3>2, <4>1, SettledRow DEF In
    <3>3. CASE it[i].state = "queued" /\ ~it[i].tried
      <4>1. f[i] = Settled(it[i], "skipped")
        BY <1>2, <3>3
      <4> QED BY <1>1, <2>1, <3>3, <4>1, SettledRow DEF In
    <3> QED BY <3>1, <3>2, <3>3
  <2> QED BY <2>2
<1>4. ItemRows(f)
  BY <1>3 DEF ItemRows, FailQueued
<1>5. Counts(mid, c1)
  <2>1. IsFiniteSet(Q)
    BY BackfillAssumption, FS_Subset DEF In
  <2>2. Q \cap D = D
    OBVIOUS
  <2>3. Cardinality(Q \ D) = rest
    BY <2>1, <2>2, FS_Difference
  <2>4. Q \ D \in SUBSET Item /\ \A i \in Q \ D : StateOf(it)[i] = "queued"
    BY DEF In, StateOf
  <2>5. \A i \in Item : mid[i] = IF i \in Q \ D THEN "skipped" ELSE StateOf(it)[i]
    BY DEF StateOf
  <2> DEFINE M == Q \ D
  <2> HIDE DEF mid, M, rest
  <2>6. Counts(mid, Shift(Cardinality(M), "queued", "skipped", c))
    BY <2>4, <2>5, ShiftCounts DEF M, Active, Terminal
  <2> QED BY <2>3, <2>6 DEF M
<1>6. Counts(fin, Shift(Cardinality(D), "queued", "failed", c1))
  <2>1. D \in SUBSET Item /\ \A i \in D : mid[i] = "queued"
    BY DEF In
  <2>2. \A i \in Item : fin[i] = IF i \in D THEN "failed" ELSE mid[i]
    OBVIOUS
  <2> HIDE DEF mid, D, c1, fin
  <2> QED BY <1>5, <2>1, <2>2, ShiftCounts DEF Active, Terminal
<1>7. FailQueuedCount(it, c) = Shift(Cardinality(D), "queued", "failed", c1)
  BY DEF FailQueuedCount
<1>8. StateOf(f) = fin
  BY <1>3 DEF StateOf
<1>9. \A i \in Item : IF it[i].state = "queued" THEN f[i].state \in {"failed", "skipped"} ELSE f[i] = it[i]
  BY <1>2, <1>3 DEF In
<1> HIDE DEF f, fin, c1
<1>10. ItemRows(f) /\ Counts(StateOf(f), FailQueuedCount(it, c))
  BY <1>4, <1>6, <1>7, <1>8
<1> QED BY <1>9, <1>10 DEF f

\* _finish_run_if_terminal after the counters moved.
LEMMA Finishes ==
  ASSUME NEW r, RunRow(r), NEW c \in [Active \cup Terminal -> Int], NEW q,
         q = Finished([r EXCEPT !.count = c])
  PROVE  /\ RunRow(q) /\ q.count = c /\ q.stop = r.stop /\ q.failures = r.failures /\ q.total = r.total
         /\ q.state = IF Ends(q) THEN Outcome(q.count) ELSE r.state
<1> DEFINE m == [r EXCEPT !.count = c]
<1>1. RunRow(m) /\ m.count = c /\ m.state = r.state /\ m.stop = r.stop /\ m.failures = r.failures /\ m.total = r.total
  BY RunCount
<1>2. q = Finished(m)
  OBVIOUS
<1> HIDE DEF m
<1>3. SameRun(q, m) /\ q.state = IF Ends(m) THEN Outcome(m.count) ELSE m.state
  BY <1>1, <1>2, RunFinished
<1>4. Ends(q) <=> Ends(m)
  BY <1>3 DEF SameRun, Ends
<1> QED BY <1>1, <1>3, <1>4 DEF SameRun

\* The end of a stopped run: targets at work in H fail, the queue with them.
LEMMA StopsAll ==
  ASSUME RunInv, run.state \in Active, NEW H \in SUBSET In(item, "running"),
         item' = [i \in Item |-> IF i \in H THEN Settled(item[i], "failed") ELSE FailQueued(item)[i]],
         run' = Finished([run EXCEPT !.count =
                  Shift(Cardinality(H), "running", "failed", FailQueuedCount(item, @))])
  PROVE  Settles
<1> DEFINE f == FailQueued(item)
           c == FailQueuedCount(item, run.count)
           d == Shift(Cardinality(H), "running", "failed", c)
<1>1. /\ ItemRows(f) /\ Counts(StateOf(f), c)
      /\ \A i \in Item : IF item[i].state = "queued" THEN f[i].state \in {"failed", "skipped"} ELSE f[i] = item[i]
  BY FailQueuedCounts DEF RunInv
<1>2. H \in SUBSET Item /\ \A i \in H : item[i].state = "running"
  BY DEF In
<1>3. \A i \in H : ItemRow(Settled(item[i], "failed")) /\ Settled(item[i], "failed").state = "failed"
  BY <1>2, SettledRow DEF RunInv, ItemRows, States, Terminal
<1>4. \A i \in Item : item'[i] = IF i \in H THEN Settled(item[i], "failed") ELSE f[i]
  OBVIOUS
<1>5. ItemRows(item')
  BY <1>1, <1>3, <1>4 DEF ItemRows
<1>6. \A i \in Item : item'[i].state = IF i \in H THEN "failed" ELSE f[i].state
  BY <1>3, <1>4
<1>7. Counts(StateOf(item'), d)
  <2>1. \A i \in H : StateOf(f)[i] = "running"
    BY <1>1, <1>2 DEF StateOf
  <2>2. \A i \in Item : StateOf(item')[i] = IF i \in H THEN "failed" ELSE StateOf(f)[i]
    BY <1>6 DEF StateOf
  <2> DEFINE st == StateOf(f)
             new == StateOf(item')
  <2> HIDE DEF f, c, st, new
  <2>3. Counts(st, c)
    BY <1>1 DEF st
  <2>4. Counts(new, d)
    BY <1>2, <2>1, <2>2, <2>3, ShiftCounts DEF st, new, Active, Terminal
  <2> QED BY <2>4 DEF new
<1>8. run' = Finished([run EXCEPT !.count = d])
  OBVIOUS
<1>9. d \in [Active \cup Terminal -> Int]
  BY <1>7 DEF Counts
<1>10. \A i \in Item : item'[i].state = item[i].state \/ (item[i].state \in Active /\ item'[i].state \in Terminal)
  BY <1>1, <1>2, <1>6 DEF Active, Terminal
<1>11. RunRow(run)
  BY DEF RunInv
<1> HIDE DEF d, f, c
<1>12. /\ RunRow(run') /\ run'.count = d /\ run'.stop = run.stop /\ run'.failures = run.failures /\ run'.total = run.total
      /\ run'.state = IF Ends(run') THEN Outcome(run'.count) ELSE run.state
  BY SMTT(30), <1>8, <1>9, <1>11, Finishes
<1> QED BY <1>5, <1>7, <1>10, <1>12 DEF Settles

\* One target ends.
LEMMA EndsOne ==
  ASSUME RunInv, run.state \in Active, NEW i \in Item, item[i].state = "running", NEW s \in Terminal,
         item' = [item EXCEPT ![i] = Settled(@, s)],
         run' = Finished([run EXCEPT !.count = Shift(1, "running", s, @)])
  PROVE  Settles
<1> DEFINE d == Shift(1, "running", s, run.count)
           x == Settled(item[i], s)
<1>1. ItemRow(x) /\ x.state = s
  BY SettledRow DEF RunInv, ItemRows, States
<1>2. item' = [item EXCEPT ![i] = x]
  OBVIOUS
<1> HIDE DEF x
<1>3. \A j \in Item : item'[j] = IF j = i THEN x ELSE item[j]
  BY <1>2 DEF RunInv, ItemRows
<1>4. ItemRows(item')
  BY <1>1, <1>2, <1>3 DEF RunInv, ItemRows
<1>5. Counts(StateOf(item'), d)
  <2>1. Cardinality({i}) = 1
    BY FS_Singleton
  <2>2. \A j \in Item : StateOf(item')[j] = IF j \in {i} THEN s ELSE StateOf(item)[j]
    BY <1>1, <1>3 DEF StateOf
  <2>3. {i} \in SUBSET Item /\ \A j \in {i} : StateOf(item)[j] = "running"
    BY DEF StateOf
  <2> DEFINE st == StateOf(item)
             new == StateOf(item')
             M == {i}
  <2>4. Counts(st, run.count)
    BY DEF RunInv
  <2> HIDE DEF st, new, M
  <2>5. Counts(new, Shift(Cardinality(M), "running", s, run.count))
    BY <2>2, <2>3, <2>4, ShiftCounts DEF st, new, M, Active, Terminal
  <2> QED BY <2>1, <2>5 DEF new, M
<1>6. run' = Finished([run EXCEPT !.count = d])
  OBVIOUS
<1>7. d \in [Active \cup Terminal -> Int]
  BY <1>5 DEF Counts
<1>8. RunRow(run)
  BY DEF RunInv
<1> HIDE DEF d
<1>9. /\ RunRow(run') /\ run'.count = d /\ run'.stop = run.stop /\ run'.failures = run.failures /\ run'.total = run.total
      /\ run'.state = IF Ends(run') THEN Outcome(run'.count) ELSE run.state
  BY <1>6, <1>7, <1>8, Finishes
<1>10. \A j \in Item : item'[j].state = item[j].state \/ (item[j].state \in Active /\ item'[j].state \in Terminal)
  BY <1>1, <1>3 DEF Active
<1> QED BY <1>4, <1>5, <1>9, <1>10 DEF Settles

\* Targets at work in H go back to the queue.
LEMMA Requeues ==
  ASSUME RunInv, NEW H \in SUBSET In(item, "running"), NEW it,
         it = [i \in Item |-> IF i \in H THEN Requeued(item[i]) ELSE item[i]]
  PROVE  LET c == Shift(Cardinality(H), "running", "queued", run.count) IN
         /\ ItemRows(it) /\ Counts(StateOf(it), c) /\ c \in [Active \cup Terminal -> Int]
         /\ \A i \in Item : it[i].state = IF i \in H THEN "queued" ELSE item[i].state
         /\ Apart(it)
<1>1. H \in SUBSET Item /\ \A i \in H : item[i].state = "running" /\ ItemRow(item[i])
  BY DEF In, RunInv, ItemRows
<1>2. \A i \in H : ItemRow(Requeued(item[i])) /\ Requeued(item[i]).state = "queued"
  BY <1>1, RequeuedRow
<1>3. \A i \in Item : it[i].state = IF i \in H THEN "queued" ELSE item[i].state
  BY <1>2
<1>4. ItemRows(it)
  BY <1>2 DEF RunInv, ItemRows
<1>5. Counts(StateOf(it), Shift(Cardinality(H), "running", "queued", run.count))
  <2> DEFINE st == StateOf(item)
             new == StateOf(it)
  <2>1. Counts(st, run.count)
    BY DEF RunInv
  <2>2. \A i \in H : st[i] = "running"
    BY <1>1 DEF StateOf
  <2>3. \A i \in Item : new[i] = IF i \in H THEN "queued" ELSE st[i]
    BY <1>3 DEF StateOf
  <2> HIDE DEF st, new
  <2>4. Counts(new, Shift(Cardinality(H), "running", "queued", run.count))
    BY <1>1, <2>1, <2>2, <2>3, ShiftCounts DEF Active, Terminal
  <2> QED BY <2>4 DEF new
<1>6. Apart(it)
  <2>1. In(it, "running") \subseteq In(item, "running")
    BY <1>3 DEF In
  <2> QED BY <2>1 DEF RunInv, Apart
<1> QED BY <1>3, <1>4, <1>5, <1>6 DEF Counts

\* A consumer takes a target of the queue whose origin rests.
LEMMA ClaimsOne ==
  ASSUME NEW it, ItemRows(it), Apart(it), NEW c, Counts(StateOf(it), c), NEW k, NEW i \in Runnable(it)
  PROVE  LET d == Shift(1, "queued", "running", c)
             cl == Claimed(it, i, k) IN
         /\ ItemRows(cl) /\ Counts(StateOf(cl), d) /\ d \in [Active \cup Terminal -> Int]
         /\ \A j \in Item : cl[j].state = IF j = i THEN "running" ELSE it[j].state
         /\ Apart(cl)
<1> DEFINE a == [it[i] EXCEPT !.state = "running"]
           b == [a EXCEPT !.tried = TRUE]
           e == [b EXCEPT !.by = k]
           f == [e EXCEPT !.token = coord[Of(k)].token]
           g == [f EXCEPT !.live = TRUE]
           h == [g EXCEPT !.waits = FALSE]
           cl == Claimed(it, i, k)
<1>1. i \in Item /\ it[i].state = "queued" /\ \A j \in In(it, "running") : Origin(j) # Origin(i)
  BY DEF Runnable, In
<1>2. cl = [it EXCEPT ![i] = h]
  BY <1>1 DEF Claimed, ItemRows
<1>3. ItemRow(a) /\ a.state = "running"
  BY <1>1, ItemState DEF ItemRows, States, Active
<1> HIDE DEF a, cl
<1>4. ItemRow(b) /\ b.state = "running"
  BY <1>3, ItemSets
<1> HIDE DEF b
<1>5. ItemRow(e) /\ e.state = "running"
  BY <1>4, ItemSets
<1> HIDE DEF e
<1>6. ItemRow(f) /\ f.state = "running"
  BY <1>5, ItemSets
<1> HIDE DEF f
<1>7. ItemRow(g) /\ g.state = "running"
  BY <1>6, ItemSets
<1> HIDE DEF g
<1>8. ItemRow(h) /\ h.state = "running"
  BY <1>7, ItemSets
<1> HIDE DEF h
<1>9. \A j \in Item : cl[j] = IF j = i THEN h ELSE it[j]
  BY <1>2 DEF ItemRows
<1>10. ItemRows(cl)
  BY <1>2, <1>8, <1>9 DEF ItemRows
<1>11. \A j \in Item : cl[j].state = IF j = i THEN "running" ELSE it[j].state
  BY <1>8, <1>9
<1>12. Counts(StateOf(cl), Shift(1, "queued", "running", c))
  <2>1. Cardinality({i}) = 1
    BY FS_Singleton
  <2> DEFINE st == StateOf(it)
             new == StateOf(cl)
             M == {i}
  <2>2. \A j \in Item : new[j] = IF j \in M THEN "running" ELSE st[j]
    BY <1>11 DEF StateOf
  <2>3. M \in SUBSET Item /\ \A j \in M : st[j] = "queued"
    BY <1>1 DEF StateOf
  <2> HIDE DEF st, new, M
  <2>4. Counts(new, Shift(Cardinality(M), "queued", "running", c))
    BY <2>2, <2>3, ShiftCounts DEF st, Active, Terminal
  <2> QED BY <2>1, <2>4 DEF new, M
<1>13. Apart(cl)
  <2>1. In(cl, "running") = In(it, "running") \cup {i}
    BY <1>1, <1>11 DEF In
  <2> QED BY <1>1, <2>1 DEF Apart
<1>14. ItemRows(cl) /\ Counts(StateOf(cl), Shift(1, "queued", "running", c)) /\ Apart(cl)
       /\ Shift(1, "queued", "running", c) \in [Active \cup Terminal -> Int]
  BY <1>10, <1>12, <1>13 DEF Counts
<1> QED BY <1>11, <1>14 DEF cl

-----------------------------------------------------------------------------
(* Steps that keep every target where it is. *)

LEMMA Unchanged ==
  ASSUME RunInv, UNCHANGED <<run, item>>
  PROVE  Keeps
BY DEF RunInv, Keeps, SameRun, ItemRows, ItemRow, RunRow

LEMMA KeepsRun ==
  ASSUME RunInv, UNCHANGED item, SameRun(run', run), run'.state = run.state \/ {run.state, run'.state} \subseteq Active
  PROVE  Keeps
BY DEF RunInv, Keeps, ItemRows, ItemRow

LEMMA KeepsItem ==
  ASSUME RunInv, UNCHANGED run, NEW i \in Item, NEW x, ItemRow(x), x.state = item[i].state, item' = [item EXCEPT ![i] = x]
  PROVE  Keeps
<1>1. \A j \in Item : item'[j] = IF j = i THEN x ELSE item[j]
  BY DEF RunInv, ItemRows
<1>2. ItemRows(item')
  BY <1>1 DEF RunInv, ItemRows
<1> QED BY <1>1, <1>2 DEF RunInv, Keeps, SameRun, RunRow

LEMMA AcquireKeeps ==
  ASSUME RunInv, NEW c \in Coord, Acquire(c)
  PROVE  Keeps
<1>1. CASE run.state \notin Active
  BY <1>1, Unchanged DEF Acquire, CanAcquire
<1>2. CASE run.state \in Active
  <2> DEFINE t == Unused(RunTokens)
             w == "running"
             q == [run EXCEPT !.state = w, !.token = t, !.live = TRUE]
  <2>1. run' = q /\ UNCHANGED item
    BY <1>2 DEF Acquire
  <2>0. RunRow(run)
    BY DEF RunInv
  <2> HIDE DEF t, w
  <2>3. SameRun(q, run) /\ q.state = w
    BY ZenonT(60), <2>0, RunLease
  <2>2. SameRun(q, run) /\ q.state = "running"
    BY <2>3 DEF w
  <2> HIDE DEF q
  <2> QED BY <1>2, <2>1, <2>2, KeepsRun DEF Active
<1> QED BY <1>1, <1>2

LEMMA ClockKeeps ==
  ASSUME RunInv, Lapse \/ CoolDown \/ \E i \in Item : LapseItem(i) \/ Wake(i)
  PROVE  Keeps
<1>1. ASSUME Lapse PROVE Keeps
  <2> DEFINE q == [run EXCEPT !.live = FALSE]
             x(i) == [item[i] EXCEPT !.live = FALSE]
  <2>1. run' = q /\ item' = [i \in Item |-> x(i)]
    BY <1>1 DEF Lapse
  <2>2. SameRun(q, run) /\ q.state = run.state
    BY RunOther DEF RunInv
  <2>3. \A i \in Item : ItemRow(x(i)) /\ x(i).state = item[i].state
    BY ItemSets DEF RunInv, ItemRows
  <2> HIDE DEF q, x
  <2>4. \A i \in Item : item'[i] = x(i)
    BY <2>1
  <2>5. ItemRows(item')
    BY <2>1, <2>3, <2>4 DEF ItemRows
  <2> QED BY <2>1, <2>2, <2>3, <2>4, <2>5 DEF Keeps
<1>2. ASSUME CoolDown PROVE Keeps
  <2> DEFINE q == [run EXCEPT !.cooling = FALSE]
  <2>1. run' = q /\ UNCHANGED item
    BY <1>2 DEF CoolDown
  <2>2. SameRun(q, run) /\ q.state = run.state
    BY RunOther DEF RunInv
  <2> HIDE DEF q
  <2> QED BY <2>1, <2>2, KeepsRun
<1>3. ASSUME NEW i \in Item, LapseItem(i) PROVE Keeps
  <2> DEFINE x == [item[i] EXCEPT !.live = FALSE]
  <2>1. UNCHANGED run /\ item' = [item EXCEPT ![i] = x]
    BY <1>3 DEF LapseItem
  <2>2. ItemRow(x) /\ x.state = item[i].state
    BY <1>3, ItemSets DEF RunInv, ItemRows
  <2> HIDE DEF x
  <2> QED BY <1>3, <2>1, <2>2, KeepsItem
<1>4. ASSUME NEW i \in Item, Wake(i) PROVE Keeps
  <2> DEFINE x == [item[i] EXCEPT !.waits = FALSE]
  <2>1. UNCHANGED run /\ item' = [item EXCEPT ![i] = x]
    BY <1>4 DEF Wake
  <2>2. ItemRow(x) /\ x.state = item[i].state
    BY <1>4, ItemSets DEF RunInv, ItemRows
  <2> HIDE DEF x
  <2> QED BY <1>4, <2>1, <2>2, KeepsItem
<1> QED BY <1>1, <1>2, <1>3, <1>4

LEMMA ClaimSiteKeeps ==
  ASSUME RunInv, TaskRows, NEW k \in Consumer, ClaimSite(k)
  PROVE  Keeps
<1> DEFINE i == task[k].item
           t == Unused(Stamps(i))
           x == [item[i] EXCEPT !.claimed = t]
<1>1. i \in Item
  BY DEF ClaimSite, TaskRows, TaskRow
<1>2. UNCHANGED run /\ (UNCHANGED item \/ item' = [item EXCEPT ![i] = x])
  BY DEF ClaimSite, RecordClaim
<1>3. ItemRow(x) /\ x.state = item[i].state
  BY <1>1, ItemSets DEF RunInv, ItemRows
<1> HIDE DEF x, t
<1> QED BY <1>1, <1>2, <1>3, Unchanged, KeepsItem

-----------------------------------------------------------------------------
(* Steps that move or end targets. *)

LEMMA ReleaseEffect ==
  ASSUME RunInv, NEW c \in Coord, Release(c)
  PROVE  Keeps \/ Reshuffles \/ Settles
<1> DEFINE H == {i \in In(item, "running") : item[i].token = coord[c].token}
           n == Cardinality(H)
<1>1. CASE ~Holds(c)
  BY <1>1, Unchanged DEF Release
<1>2. CASE Holds(c) /\ run.stop
  <2>1. /\ item' = [i \in Item |-> IF i \in H THEN Settled(item[i], "failed") ELSE FailQueued(item)[i]]
        /\ run' = Finished([run EXCEPT !.count =
                     Shift(Cardinality(H), "running", "failed", FailQueuedCount(item, @))])
    BY <1>2 DEF Release
  <2>2. run.state \in Active /\ H \in SUBSET In(item, "running")
    BY <1>2 DEF Holds, Active
  <2> HIDE DEF H
  <2> QED BY <2>1, <2>2, StopsAll
<1>3. CASE Holds(c) /\ ~run.stop
  <2> DEFINE it == [i \in Item |-> IF i \in H THEN Requeued(item[i]) ELSE item[i]]
             d == Shift(n, "running", "queued", run.count)
             w == "queued"
             z == FALSE
             a == [run EXCEPT !.state = w, !.token = None, !.live = z]
  <2>1. item' = it /\ run' = [a EXCEPT !.count = d]
    <3>1. run' = [run EXCEPT !.state = "queued", !.token = None, !.live = FALSE, !.count = d]
      BY <1>3 DEF Release
    <3> HIDE DEF d
    <3>2. [run EXCEPT !.state = "queued", !.token = None, !.live = FALSE, !.count = d] = [a EXCEPT !.count = d]
      OBVIOUS
    <3>3. item' = it
      BY <1>3 DEF Release
    <3> QED BY <3>1, <3>2, <3>3
  <2>2. run.state = "running"
    BY <1>3 DEF Holds
  <2>3. /\ ItemRows(it) /\ Counts(StateOf(it), d) /\ d \in [Active \cup Terminal -> Int]
        /\ \A i \in Item : it[i].state = IF i \in H THEN "queued" ELSE item[i].state
        /\ Apart(it)
    <3>1. H \in SUBSET In(item, "running")
      OBVIOUS
    <3> HIDE DEF H
    <3> QED BY <3>1, Requeues
  <2>4. SameRun(a, run) /\ a.state = w
    <3>1. RunRow(run) /\ z \in BOOLEAN
      BY DEF RunInv
    <3> HIDE DEF w
    <3> QED BY ZenonT(60), <3>1, RunLease
  <2>5. \A i \in H : item[i].state = "running"
    BY DEF In
  <2> HIDE DEF a, d, it, H
  <2>6. RunRow(a)
    BY <2>4 DEF SameRun
  <2>7. RunRow(run') /\ run'.count = d /\ run'.state = a.state /\ run'.stop = a.stop /\ run'.total = a.total
    <3> DEFINE q == [a EXCEPT !.count = d]
    <3>1. RunRow(q) /\ q.count = d /\ q.state = a.state /\ q.stop = a.stop /\ q.total = a.total
      BY <2>3, <2>6, RunCount
    <3> HIDE DEF q
    <3> QED BY <2>1, <3>1 DEF q
  <2>8. Reshuffles
    BY <1>3, <2>1, <2>2, <2>3, <2>4, <2>5, <2>7 DEF Reshuffles, SameRun, Active
  <2> QED BY <2>8
<1> QED BY <1>1, <1>2, <1>3

\* The counters of the run move and nothing else of it.
LEMMA CountsRun ==
  ASSUME RunInv, NEW c \in [Active \cup Terminal -> Int], run' = [run EXCEPT !.count = c]
  PROVE  /\ RunRow(run') /\ run'.count = c /\ run'.state = run.state /\ run'.stop = run.stop
         /\ run'.total = run.total
<1> DEFINE q == [run EXCEPT !.count = c]
<1>1. RunRow(q) /\ q.count = c /\ q.state = run.state /\ q.stop = run.stop /\ q.total = run.total
  BY RunCount DEF RunInv
<1>2. run' = q
  OBVIOUS
<1> HIDE DEF q
<1> QED BY <1>1, <1>2

LEMMA ClaimNextEffect ==
  ASSUME RunInv, NEW k \in Consumer, ClaimNext(k)
  PROVE  Keeps \/ Reshuffles \/ Settles
<1> DEFINE open == [i \in Item |-> IF i \in Expired THEN Requeued(item[i]) ELSE item[i]]
           back == Shift(Cardinality(Expired), "running", "queued", run.count)
<1>0. Expired \in SUBSET In(item, "running")
  BY DEF Expired
<1>1. /\ ItemRows(open) /\ Counts(StateOf(open), back) /\ back \in [Active \cup Terminal -> Int]
      /\ \A i \in Item : open[i].state = IF i \in Expired THEN "queued" ELSE item[i].state
      /\ Apart(open)
  BY <1>0, Requeues
<1>2. HoldsLive(Of(k)) => run.state = "running"
  BY DEF HoldsLive, Holds
<1>3. \A i \in Expired : item[i].state = "running"
  BY DEF Expired, In
<1>4. \/ UNCHANGED <<run, item>>
      \/ HoldsLive(Of(k)) /\ StopAll(k)
      \/ HoldsLive(Of(k)) /\ ~run.stop /\ item' = open /\ run' = [run EXCEPT !.count = back]
      \/ /\ HoldsLive(Of(k)) /\ ~run.stop
         /\ \E i \in Runnable(open) : item' = Claimed(open, i, k)
         /\ run' = [run EXCEPT !.count = Shift(1, "queued", "running", back)]
  BY DEF ClaimNext
<1> HIDE DEF open, back
<1>5. CASE UNCHANGED <<run, item>>
  BY <1>5, Unchanged
<1>6. CASE HoldsLive(Of(k)) /\ StopAll(k)
  BY <1>0, <1>2, <1>6, StopsAll DEF StopAll, Active
<1>7. CASE HoldsLive(Of(k)) /\ ~run.stop /\ item' = open /\ run' = [run EXCEPT !.count = back]
  <2>1. RunRow(run') /\ run'.count = back /\ run'.state = run.state /\ run'.stop = run.stop /\ run'.total = run.total
    BY <1>1, <1>7, CountsRun
  <2> QED BY <1>1, <1>2, <1>3, <1>7, <2>1 DEF Reshuffles, Active
<1>8. ASSUME HoldsLive(Of(k)), ~run.stop, NEW i \in Runnable(open), item' = Claimed(open, i, k),
             run' = [run EXCEPT !.count = Shift(1, "queued", "running", back)]
      PROVE  Reshuffles
  <2> DEFINE d == Shift(1, "queued", "running", back)
             cl == Claimed(open, i, k)
  <2>1. /\ ItemRows(cl) /\ Counts(StateOf(cl), d) /\ d \in [Active \cup Terminal -> Int]
        /\ \A j \in Item : cl[j].state = IF j = i THEN "running" ELSE open[j].state
        /\ Apart(cl)
    BY <1>1, <1>8, ClaimsOne
  <2>2. i \in Item /\ open[i].state = "queued"
    BY <1>8 DEF Runnable, In
  <2>3. run' = [run EXCEPT !.count = d] /\ item' = cl
    BY <1>8
  <2> HIDE DEF d, cl
  <2>4. RunRow(run') /\ run'.count = d /\ run'.state = run.state /\ run'.stop = run.stop /\ run'.total = run.total
    BY <2>1, <2>3, CountsRun
  <2>5. \A j \in Item : item'[j].state = item[j].state \/ {item[j].state, item'[j].state} \subseteq Active
    BY <1>1, <1>3, <2>1, <2>2, <2>3 DEF Active
  <2> QED BY <1>2, <1>8, <2>1, <2>3, <2>4, <2>5 DEF Reshuffles, Active
<1> QED BY <1>4, <1>5, <1>6, <1>7, <1>8

LEMMA MayGiveUpAt ==
  ASSUME TaskRows, NEW k \in Consumer, MayGiveUp(k), task[k].pc \in {"finish", "defer", "release"}
  PROVE  /\ run.state = "running" /\ task[k].item \in Item /\ item[task[k].item].state = "running"
         /\ task[k].out \in Terminal
BY DEF MayGiveUp, Holds, HoldsItem, TaskRows, TaskRow

LEMMA FinishEffect ==
  ASSUME RunInv, TaskRows, NEW k \in Consumer, Finish(k)
  PROVE  Keeps \/ Reshuffles \/ Settles
<1>1. CASE ~MayGiveUp(k)
  BY <1>1, Unchanged DEF Finish
<1>2. CASE MayGiveUp(k)
  <2> DEFINE i == task[k].item
             s == task[k].out
  <2>1. run.state = "running" /\ i \in Item /\ item[i].state = "running" /\ s \in Terminal
    BY <1>2, MayGiveUpAt DEF Finish
  <2>2. /\ item' = [item EXCEPT ![i] = Settled(@, s)]
        /\ run' = Finished([run EXCEPT !.count = Shift(1, "running", s, @)])
    BY <1>2 DEF Finish
  <2> HIDE DEF i, s
  <2> QED BY <2>1, <2>2, EndsOne DEF Active
<1> QED BY <1>1, <1>2

LEMMA ReturnEffect ==
  ASSUME RunInv, TaskRows, NEW k \in Consumer, NEW defer \in BOOLEAN, Return(k, defer),
         task[k].pc \in {"defer", "release"}
  PROVE  Reshuffles \/ Settles
<1> DEFINE i == task[k].item
<1>1. run.state = "running" /\ i \in Item /\ item[i].state = "running"
  BY MayGiveUpAt DEF Return
<1>2. CASE run.stop
  <2>1. /\ item' = [item EXCEPT ![i] = Settled(@, "failed")]
        /\ run' = Finished([run EXCEPT !.count = Shift(1, "running", "failed", @)])
    BY <1>2 DEF Return
  <2> DEFINE s == "failed"
  <2>2. s \in Terminal /\ item' = [item EXCEPT ![i] = Settled(@, s)]
        /\ run' = Finished([run EXCEPT !.count = Shift(1, "running", s, @)])
    BY <2>1 DEF Terminal
  <2> HIDE DEF i, s
  <2> QED BY <1>1, <2>2, EndsOne DEF Active
<1>3. CASE ~run.stop
  <2> DEFINE x == Requeued(item[i])
             y == [x EXCEPT !.waits = defer]
             z == [y EXCEPT !.claimed = IF defer THEN None ELSE item[i].claimed]
             d == Shift(1, "running", "queued", run.count)
             st == StateOf(item)
             new == StateOf(item')
             M == {i}
  <2>1. item' = [item EXCEPT ![i] = z] /\ run' = [run EXCEPT !.count = d]
    <3>1. run' = [run EXCEPT !.count = d]
      BY <1>3 DEF Return
    <3>2. item' = [item EXCEPT ![i] = [x EXCEPT !.waits = defer, !.claimed = IF defer THEN None ELSE item[i].claimed]]
      BY <1>3 DEF Return
    <3> HIDE DEF x
    <3>3. [x EXCEPT !.waits = defer, !.claimed = IF defer THEN None ELSE item[i].claimed] = z
      OBVIOUS
    <3> QED BY <3>1, <3>2, <3>3
  <2>2. ItemRow(x) /\ x.state = "queued"
    BY <1>1, RequeuedRow DEF RunInv, ItemRows
  <2> HIDE DEF x
  <2>3. ItemRow(y) /\ y.state = "queued"
    BY <2>2, ItemSets
  <2> HIDE DEF y
  <2>4. ItemRow(z) /\ z.state = "queued"
    BY ZenonT(60), <2>3, ItemSets
  <2> HIDE DEF z
  <2>5. \A j \in Item : item'[j] = IF j = i THEN z ELSE item[j]
    BY <2>1 DEF RunInv, ItemRows
  <2>6. ItemRows(item')
    BY <1>1, <2>1, <2>4, <2>5 DEF RunInv, ItemRows
  <2>7. Counts(new, d)
    <3>1. Cardinality(M) = 1
      BY FS_Singleton
    <3>2. \A j \in Item : new[j] = IF j \in M THEN "queued" ELSE st[j]
      BY <2>4, <2>5 DEF StateOf
    <3>3. M \in SUBSET Item /\ \A j \in M : st[j] = "running"
      BY <1>1 DEF StateOf
    <3>4. Counts(st, run.count)
      BY DEF RunInv
    <3> HIDE DEF st, new, M
    <3>5. Counts(new, Shift(Cardinality(M), "running", "queued", run.count))
      BY <3>2, <3>3, <3>4, ShiftCounts DEF Active, Terminal
    <3> QED BY <3>1, <3>5
  <2>8. d \in [Active \cup Terminal -> Int]
    BY <2>7 DEF Counts
  <2> HIDE DEF d
  <2>9. RunRow(run') /\ run'.count = d /\ run'.state = run.state /\ run'.stop = run.stop /\ run'.total = run.total
    BY <2>1, <2>8, CountsRun
  <2>10. Apart(item')
    <3>1. In(item', "running") \subseteq In(item, "running")
      BY <2>4, <2>5 DEF In
    <3> QED BY <3>1 DEF RunInv, Apart
  <2>11. \A j \in Item : item'[j].state = item[j].state \/ {item[j].state, item'[j].state} \subseteq Active
    BY <1>1, <2>4, <2>5 DEF Active
  <2> QED BY <1>1, <1>3, <2>6, <2>7, <2>9, <2>10, <2>11 DEF Reshuffles, Active
<1> QED BY <1>2, <1>3

LEMMA SignalEffect ==
  ASSUME RunInv, run.state = "running", ~run.stop, NEW t \in Item, item[t].state = "running",
         NEW result, Signal(result)
  PROVE  Keeps \/ Reshuffles \/ Settles
<1> DEFINE n == run.failures + 1
           stops == result = "fatal" \/ (result = "retry" /\ n >= MaxFailures)
           a == [run EXCEPT !.failures = IF result = "ok" THEN 0 ELSE IF result = "retry" THEN n ELSE @]
           b == [a EXCEPT !.cooling = IF result = "retry" THEN TRUE ELSE FALSE]
           v == IF result = "ok" THEN FALSE ELSE IF result = "retry" THEN stops ELSE TRUE
           next == IF result = "ok" THEN [run EXCEPT !.failures = 0, !.cooling = FALSE]
                   ELSE IF result = "retry" THEN [run EXCEPT !.failures = n, !.cooling = TRUE, !.stop = stops]
                   ELSE [run EXCEPT !.cooling = FALSE, !.stop = TRUE]
<1>0. RunRow(run)
  BY DEF RunInv
<1>1. RunRow(next) /\ next.state = run.state /\ next.count = run.count /\ next.total = run.total /\ next.stop = v
  <2>1. CASE result = "ok"
    <3> DEFINE p == [run EXCEPT !.failures = 0]
               q == [p EXCEPT !.cooling = FALSE]
    <3>1. next = q
      BY <2>1
    <3>2. RunRow(p) /\ p.state = run.state /\ p.count = run.count /\ p.stop = run.stop /\ p.total = run.total
      BY <1>0, RunSignal
    <3> HIDE DEF p
    <3>3. SameRun(q, p) /\ q.state = p.state
      BY <3>2, RunOther
    <3>4. v = FALSE
      BY <2>1
    <3> HIDE DEF q, next, v
    <3> QED BY <1>0, <3>1, <3>2, <3>3, <3>4 DEF SameRun, RunRow
  <2>2. CASE result = "retry"
    <3> DEFINE p == [run EXCEPT !.failures = n]
               q == [p EXCEPT !.cooling = TRUE]
               r == [q EXCEPT !.stop = stops]
    <3>1. next = r
      BY <2>2
    <3>2. RunRow(p) /\ p.state = run.state /\ p.count = run.count /\ p.stop = run.stop /\ p.total = run.total
      BY <1>0, RunSignal
    <3> HIDE DEF p
    <3>3. SameRun(q, p) /\ q.state = p.state
      BY <3>2, RunOther
    <3> HIDE DEF q
    <3>4. RunRow(q) /\ stops \in BOOLEAN /\ v = stops
      BY <2>2, <3>3 DEF SameRun
    <3> HIDE DEF stops
    <3>5. RunRow(r) /\ r.state = q.state /\ r.count = q.count /\ r.stop = stops /\ r.total = q.total
      BY <3>4, RunStop
    <3> HIDE DEF r, next, v
    <3> QED BY <3>1, <3>2, <3>3, <3>4, <3>5 DEF SameRun
  <2>3. CASE result \notin {"ok", "retry"}
    <3> DEFINE p == [run EXCEPT !.cooling = FALSE]
               q == [p EXCEPT !.stop = TRUE]
    <3>1. next = q /\ v = TRUE
      BY <2>3
    <3>2. SameRun(p, run) /\ p.state = run.state
      BY <1>0, RunOther
    <3> HIDE DEF p
    <3>3. RunRow(p)
      BY <3>2 DEF SameRun
    <3> DEFINE w == TRUE
    <3>4. w \in BOOLEAN /\ q = [p EXCEPT !.stop = w]
      OBVIOUS
    <3> HIDE DEF w, q
    <3>5. RunRow(q) /\ q.state = p.state /\ q.count = p.count /\ q.stop = w /\ q.total = p.total
      BY <3>3, <3>4, RunStop
    <3> HIDE DEF next, v
    <3> QED BY <3>1, <3>2, <3>5 DEF SameRun, w
  <2> QED BY <2>1, <2>2, <2>3
<1>2. Signal(result) =
      IF stops THEN /\ item' = FailQueued(item)
                    /\ run' = Finished([next EXCEPT !.count = FailQueuedCount(item, @)])
                    /\ site' = Unclaimed(In(item, "queued"))
      ELSE run' = next /\ UNCHANGED <<item, site>>
  BY DEF Signal
<1> HIDE DEF next
<1>3. CASE stops
  <2> DEFINE c == FailQueuedCount(item, run.count)
             f == FailQueued(item)
  <2>1. item' = f /\ run' = Finished([next EXCEPT !.count = c])
    BY <1>1, <1>2, <1>3
  <2>2. /\ ItemRows(f) /\ Counts(StateOf(f), c)
        /\ \A i \in Item : IF item[i].state = "queued" THEN f[i].state \in {"failed", "skipped"} ELSE f[i] = item[i]
    BY FailQueuedCounts DEF RunInv
  <2>3. c \in [Active \cup Terminal -> Int]
    BY <2>2 DEF Counts
  <2> HIDE DEF c, f, stops, v
  <2>4. /\ RunRow(run') /\ run'.count = c /\ run'.total = next.total
        /\ run'.state = IF Ends(run') THEN Outcome(run'.count) ELSE next.state
    BY <1>1, <2>1, <2>3, Finishes
  <2>5. \A i \in Item : item'[i].state = item[i].state \/ (item[i].state \in Active /\ item'[i].state \in Terminal)
    BY <2>1, <2>2 DEF Active, Terminal
  <2> QED BY <1>1, <2>1, <2>2, <2>4, <2>5 DEF Settles, Active
<1>4. CASE ~stops
  <2>1. run' = next /\ UNCHANGED item
    BY <1>2, <1>4
  <2>2. CASE v = FALSE
    <3>1. RunRow(run') /\ run'.state = run.state /\ run'.count = run.count /\ run'.total = run.total /\ run'.stop = run.stop
      <4>1. run.stop = FALSE
        BY <1>0 DEF RunRow
      <4> HIDE DEF v
      <4> QED BY <1>1, <2>1, <2>2, <4>1
    <3>2. ItemRows(item') /\ Counts(StateOf(item'), run'.count) /\ Apart(item')
      BY <2>1, <3>1 DEF RunInv
    <3>3. \A i \in Item : item'[i].state = item[i].state
      BY <2>1
    <3> QED BY <3>1, <3>2, <3>3 DEF Reshuffles, Active
  <2>3. CASE v # FALSE
    <3>1. run'.count = run.count /\ RunRow(run') /\ run'.state = run.state /\ run'.total = run.total
      BY <1>1, <2>1
    <3>2. Counts(StateOf(item'), run'.count) /\ ItemRows(item')
      BY <2>1, <3>1 DEF RunInv
    <3>3. run.count["running"] # 0
      <4> DEFINE st == StateOf(item)
      <4>1. st[t] = "running" /\ Counts(st, run.count)
        BY DEF StateOf, RunInv
      <4> HIDE DEF st
      <4> QED BY <4>1, CountsTell DEF Active
    <3>4. \A j \in Item : item'[j].state = item[j].state
      BY <2>1
    <3> QED BY <3>1, <3>2, <3>3, <3>4 DEF Settles, Ends, Active
  <2> QED BY <2>2, <2>3
<1> QED BY <1>3, <1>4

LEMMA MayRecordAt ==
  ASSUME TaskRows, NEW k \in Consumer, MayRecord(k), task[k].pc \in {"record", "fuse"}
  PROVE  /\ run.state = "running" /\ ~run.stop
         /\ task[k].item \in Item /\ item[task[k].item].state = "running"
BY DEF MayRecord, HoldsLive, Holds, HoldsItem, TaskRows, TaskRow

LEMMA SignalStepEffect ==
  ASSUME RunInv, TaskRows, NEW k \in Consumer, Record(k) \/ Fuse(k)
  PROVE  Keeps \/ Reshuffles \/ Settles
<1>1. CASE ~MayRecord(k)
  BY <1>1, Unchanged DEF Record, Fuse
<1>2. CASE MayRecord(k)
  <2> DEFINE i == task[k].item
             f == "fatal"
             r == task[k].result
  <2>1. run.state = "running" /\ ~run.stop /\ i \in Item /\ item[i].state = "running"
    BY <1>2, MayRecordAt DEF Record, Fuse
  <2>2. Signal(r) \/ Signal(f)
    BY <1>2 DEF Record, Fuse
  <2> HIDE DEF i, f, r
  <2> QED BY <2>1, <2>2, SignalEffect
<1> QED BY <1>1, <1>2

\* What a step of a consumer does to the targets.
LEMMA StepEffect ==
  ASSUME RunInv, TaskRows, NEW k \in Consumer, Step(k)
  PROVE  Keeps \/ Reshuffles \/ Settles
<1>1. ASSUME \/ Needs(k) \/ Intent(k) \/ Fetch(k) \/ Snapshot(k) \/ Permit(k) \/ Call(k) \/ Returned(k)
             \/ Refuse(k) \/ Apply(k) \/ Miss(k) \/ Unclaim(k) \/ Crashed(k)
      PROVE  Keeps
  <2>1. UNCHANGED <<run, item>>
    BY <1>1 DEF Needs, Intent, Fetch, Snapshot, Permit, Call, Returned, Refuse, Apply, Miss, Unclaim, Crashed
  <2> QED BY <2>1, Unchanged
<1>2. ASSUME Defer(k) PROVE Keeps \/ Reshuffles \/ Settles
  <2> DEFINE w == TRUE
  <2>1. w \in BOOLEAN /\ (Return(k, w) \/ UNCHANGED <<run, item>>) /\ task[k].pc \in {"defer", "release"}
    BY <1>2 DEF Defer
  <2> HIDE DEF w
  <2> QED BY <2>1, ReturnEffect, Unchanged
<1>3. ASSUME ReleaseItem(k) PROVE Keeps \/ Reshuffles \/ Settles
  <2> DEFINE w == FALSE
  <2>1. w \in BOOLEAN /\ (Return(k, w) \/ UNCHANGED <<run, item>>) /\ task[k].pc \in {"defer", "release"}
    BY <1>3 DEF ReleaseItem
  <2> HIDE DEF w
  <2> QED BY <2>1, ReturnEffect, Unchanged
<1> QED BY <1>1, <1>2, <1>3, ClaimNextEffect, ClaimSiteKeeps, SignalStepEffect, FinishEffect DEF Step

LEMMA NewRows ==
  /\ \A needs : ItemRow(NewItem(needs)) /\ NewItem(needs).state = "queued"
  /\ ItemRow(NoItem) /\ NoItem.state = "none"
<1>1. ASSUME NEW needs PROVE ItemRow(NewItem(needs)) /\ NewItem(needs).state = "queued"
  BY DEF NewItem, ItemRow, States, Active
<1> DEFINE f == FALSE
           x == NewItem(f)
           n == "none"
<1>2. ItemRow(x)
  BY <1>1
<1>3. NoItem = [x EXCEPT !.state = n]
  BY DEF NoItem
<1>4. n \in States
  BY DEF States
<1> HIDE DEF x, n
<1>5. ItemRow(NoItem) /\ NoItem.state = n
  BY <1>2, <1>3, <1>4, ItemState
<1> QED BY <1>1, <1>5 DEF n

LEMMA NoRunRow ==
  /\ RunRow(NoRun) /\ NoRun.state = "none" /\ NoRun.stop = FALSE /\ NoRun.total = 0
  /\ NoRun.count = [s \in Active \cup Terminal |-> 0]
BY DEF NoRun, RunRow

\* A start freezes a plan.
LEMMA StartEffect ==
  ASSUME RunInv, NEW c \in Coord, Start(c)
  PROVE  RunInv' /\ FuseStep /\ \E T \in SUBSET Item : Plan!Freeze(T)
<1>1. PICK T \in SUBSET Item :
        /\ item' = [i \in Item |-> IF i \in T THEN NewItem(Mode = "full" /\ Missing(i)) ELSE NoItem]
        /\ run' = [NoRun EXCEPT !.state = IF T = {} THEN "completed" ELSE "queued",
                                !.count["queued"] = Cardinality(T), !.total = Cardinality(T)]
  BY DEF Start
<1> DEFINE n == Cardinality(T)
           s == IF T = {} THEN "completed" ELSE "queued"
           a == [NoRun EXCEPT !.state = s]
           d == [NoRun.count EXCEPT !["queued"] = n]
           b == [a EXCEPT !.count = d]
           e == [b EXCEPT !.total = n]
<1>2. IsFiniteSet(T) /\ n \in Nat
  BY BackfillAssumption, FS_Subset, FS_CardinalityType
<1>3. run.state = "none" /\ run.stop = FALSE
  BY DEF Start, RunInv, RunRow
<1>4. \A i \in Item : ItemRow(item'[i]) /\ item'[i].state = IF i \in T THEN "queued" ELSE "none"
  BY <1>1, NewRows
<1>5. ItemRows(item')
  BY <1>1, <1>4 DEF ItemRows
<1>6. d \in [Active \cup Terminal -> Int] /\ \A t \in Active \cup Terminal : d[t] = IF t = "queued" THEN n ELSE 0
  <2> DEFINE z == NoRun.count
             m == n
  <2>1. z = [t \in Active \cup Terminal |-> 0] /\ m \in Int
    BY <1>2, NoRunRow
  <2>2. "queued" \in Active \cup Terminal
    BY DEF Active
  <2>3. d = [z EXCEPT !["queued"] = m]
    OBVIOUS
  <2> HIDE DEF z, m, d
  <2>4. d = [t \in Active \cup Terminal |-> IF t = "queued" THEN m ELSE 0]
    BY <2>1, <2>2, <2>3
  <2>5. d \in [Active \cup Terminal -> Int] /\ \A t \in Active \cup Terminal : d[t] = IF t = "queued" THEN m ELSE 0
    BY <2>1, <2>4
  <2> QED BY <2>5 DEF m
<1>7. run' = e
  <2>1. a.count = NoRun.count
    BY DEF NoRun
  <2> QED BY <1>1, <2>1
<1>8. RunRow(run') /\ run'.state = s /\ run'.stop = FALSE /\ run'.count = d /\ run'.total = n
  <2>0. RunRow(NoRun) /\ NoRun.stop = FALSE
    BY NoRunRow
  <2> HIDE DEF s
  <2>1. SameRun(a, NoRun) /\ a.state = s
    BY <2>0, RunState
  <2>2. RunRow(a)
    BY <2>1 DEF SameRun
  <2> HIDE DEF a, d
  <2>3. RunRow(b) /\ b.count = d /\ b.state = a.state /\ b.stop = a.stop
    BY <1>6, <2>2, RunCount
  <2> HIDE DEF b, n
  <2>4. RunRow(e) /\ e.count = b.count /\ e.state = b.state /\ e.stop = b.stop /\ e.total = n
    BY <2>3 DEF RunRow
  <2> HIDE DEF e
  <2> QED BY <1>7, <2>0, <2>1, <2>3, <2>4 DEF SameRun
<1>9. Counts(StateOf(item'), d)
  <2> DEFINE At(t) == {i \in Item : StateOf(item')[i] = t}
  <2>1. ASSUME NEW t \in Active \cup Terminal PROVE d[t] = Cardinality(At(t))
    <3>1. At(t) = IF t = "queued" THEN T ELSE {}
      BY <1>4, <2>1 DEF StateOf, Active, Terminal
    <3>2. Cardinality({}) = 0
      BY FS_EmptySet
    <3> HIDE DEF At, d
    <3> QED BY <1>6, <3>1, <3>2
  <2> HIDE DEF d
  <2> QED BY <1>6, <2>1 DEF Counts
<1>10. Totals(run', item')
  <2>1. {i \in Item : item'[i].state # "none"} = T
    BY <1>4
  <2> QED BY <1>8, <2>1 DEF Totals
<1>11. Apart(item')
  BY <1>4 DEF Apart, In
<1> HIDE DEF d
<1>12. RunInv'
  BY <1>5, <1>8, <1>9, <1>10, <1>11 DEF RunInv
<1>13. FuseStep
  BY <1>3 DEF FuseStep
<1>14. Plan!Freeze(T)
  <2> DEFINE o == [i \in Item |-> IF item'[i].state \in Active THEN "open" ELSE item'[i].state]
  <2>1. o = [i \in Item |-> IF i \in T THEN "open" ELSE "none"]
    BY <1>4 DEF Active
  <2>2. (IF run'.state \in Active THEN "active" ELSE run'.state) = IF T = {} THEN "completed" ELSE "active"
    BY <1>8 DEF Active
  <2>3. (\E i \in Item : o[i] = "open") <=> T # {}
    BY <2>1
  <2>4. ~\E i \in Item : o[i] = "failed"
    BY <2>1
  <2>5. (IF run.state \in Active THEN "active" ELSE run.state) = "none"
    BY <1>3 DEF Active
  <2> QED BY <1>3, <1>8, <2>1, <2>2, <2>3, <2>4, <2>5 DEF Plan!Freeze, Plan!Over
<1> QED BY <1>12, <1>13, <1>14

LEMMA InitInv ==
  ASSUME Init
  PROVE  BackfillInv /\ Plan!PlanInit
<1>1. run = NoRun /\ item = [i \in Item |-> NoItem] /\ task = [k \in Consumer |-> NoTask]
  BY DEF Init
<1>2. TaskRows
  BY <1>1, NoTaskRow DEF TaskRows
<1>3. \A i \in Item : ItemRow(item[i]) /\ item[i].state = "none"
  BY <1>1, NewRows
<1>4. ItemRows(item)
  BY <1>1, <1>3 DEF ItemRows
<1>5. Cardinality({}) = 0
  BY FS_EmptySet
<1>6. Counts(StateOf(item), run.count)
  <2>1. ASSUME NEW t \in Active \cup Terminal PROVE {i \in Item : StateOf(item)[i] = t} = {}
    BY <1>3, <2>1 DEF StateOf, Active, Terminal
  <2>2. run.count = [t \in Active \cup Terminal |-> 0]
    BY <1>1, NoRunRow
  <2> QED BY <1>5, <2>1, <2>2 DEF Counts
<1>7. Totals(run, item)
  <2>1. {i \in Item : item[i].state # "none"} = {} /\ run.total = 0
    BY <1>1, <1>3, NoRunRow
  <2> QED BY <1>5, <2>1 DEF Totals
<1>8. Apart(item)
  BY <1>3 DEF Apart, In
<1>9. RunRow(run) /\ run.state = "none" /\ run.stop = FALSE
  BY <1>1, NoRunRow
<1>10. RunInv
  BY <1>3, <1>4, <1>6, <1>7, <1>8, <1>9 DEF RunInv
<1>11. Plan!PlanInit
  BY <1>3, <1>9 DEF Plan!PlanInit, Active
<1> QED BY <1>2, <1>10, <1>11 DEF BackfillInv

LEMMA NextInv ==
  ASSUME BackfillInv, [Next]_vars
  PROVE  BackfillInv' /\ FuseStep /\ [Plan!PlanNext]_(Plan!plan)
<1>0. RunInv /\ TaskRows
  BY DEF BackfillInv
<1>1. TaskRows'
  BY <1>0, Tasks
<1>2. ASSUME Keeps \/ Reshuffles \/ Settles PROVE RunInv' /\ FuseStep /\ [Plan!PlanNext]_(Plan!plan)
  BY <1>0, <1>2, KeepsInv, ReshufflesInv, SettlesInv DEF Plan!PlanNext
<1>3. ASSUME NEW c \in Coord, Start(c) PROVE RunInv' /\ FuseStep /\ [Plan!PlanNext]_(Plan!plan)
  BY <1>0, <1>3, StartEffect DEF Plan!PlanNext
<1>4. ASSUME UNCHANGED <<run, item>> PROVE RunInv' /\ FuseStep /\ [Plan!PlanNext]_(Plan!plan)
  BY <1>0, <1>2, <1>4, Unchanged
<1>5. ASSUME NEW c \in Coord, Resume(c) \/ Stop(c) \/ Crash(c) PROVE UNCHANGED <<run, item>>
  BY <1>5 DEF Resume, Stop, Crash
<1>6. ASSUME NEW k \in Consumer, HeartbeatEnds(k) \/ StorageError(k) PROVE UNCHANGED <<run, item>>
  BY <1>6 DEF HeartbeatEnds, StorageError
<1>7. ASSUME NEW i \in Item, Age(i) \/ Edit(i) \/ Delete(i) \/ ForeignClaim(i) \/ ForeignEnd(i)
      PROVE  UNCHANGED <<run, item>>
  BY <1>7 DEF Age, Edit, Delete, ForeignClaim, ForeignEnd
<1>8. ASSUME UNCHANGED vars PROVE UNCHANGED <<run, item>>
  BY <1>8 DEF vars
<1>9. ASSUME NEW c \in Coord, Acquire(c) \/ Release(c) PROVE Keeps \/ Reshuffles \/ Settles
  BY <1>0, <1>9, AcquireKeeps, ReleaseEffect
<1>10. ASSUME NEW k \in Consumer, Step(k) PROVE Keeps \/ Reshuffles \/ Settles
  BY <1>0, <1>10, StepEffect
<1>11. ASSUME Lapse \/ CoolDown \/ \E i \in Item : LapseItem(i) \/ Wake(i) PROVE Keeps
  BY <1>0, <1>11, ClockKeeps
<1>12. RunInv' /\ FuseStep /\ [Plan!PlanNext]_(Plan!plan)
  BY <1>2, <1>3, <1>4, <1>5, <1>6, <1>7, <1>8, <1>9, <1>10, <1>11 DEF Next
<1> QED BY <1>1, <1>12 DEF BackfillInv

-----------------------------------------------------------------------------
(* The theorems. *)

\* The invariant holds in every state of every backfill.
THEOREM Invariance == Spec => []BackfillInv
<1>1. Init => BackfillInv
  BY InitInv
<1>2. BackfillInv /\ [Next]_vars => BackfillInv'
  BY NextInv
<1> QED BY <1>1, <1>2, PTL DEF Spec

\* _adjust_run_counts is called beside every statement that moves items: the
\* progress of a run is always the state of its items, and its denominator stays.
THEOREM CountersRight == Spec => []CountersMatchItems
<1>1. BackfillInv => CountersMatchItems
  <2> SUFFICES ASSUME BackfillInv PROVE CountersMatchItems
    OBVIOUS
  <2>1. \A s : In(item, s) = {i \in Item : StateOf(item)[i] = s}
    BY DEF In, StateOf
  <2> QED BY <2>1 DEF BackfillInv, RunInv, Counts, Totals, CountersMatchItems
<1> QED BY <1>1, Invariance, PTL

\* claim_next_item never lets two items of one origin be at work, in however many
\* processes the consumers run and whatever leases were lost.
THEOREM OriginsApart == Spec => []OneRunningPerOrigin
<1>1. BackfillInv => OneRunningPerOrigin
  BY DEF BackfillInv, RunInv, Apart, OneRunningPerOrigin
<1> QED BY <1>1, Invariance, PTL

\* record_provider_result and stop_bulk_after_local_failure: once a run is told
\* to stop it stays told, and no item goes back to the queue or to work.
THEOREM FuseStays == Spec => FuseHolds
<1>1. BackfillInv /\ [Next]_vars => FuseStep
  BY NextInv
<1> QED BY <1>1, Invariance, PTL DEF Spec, FuseHolds

\* The rows of a run and its items implement the plan the account was promised:
\* frozen once, every target ends once, and the run is over with the last one.
THEOREM RunImplementsPlan == Spec => RunsPlan
<1>1. Init => Plan!PlanInit
  BY InitInv
<1>2. BackfillInv /\ [Next]_vars => [Plan!PlanNext]_(Plan!plan)
  BY NextInv
<1> QED BY <1>1, <1>2, Invariance, PTL DEF Spec, RunsPlan, Plan!PlanSpec

-----------------------------------------------------------------------------
(* Types. *)

Tokens == Token \cup {None}

LEMMA ImageBound ==
  ASSUME NEW S, IsFiniteSet(S), NEW f, f = [x \in S |-> f[x]]
  PROVE  LET T == {f[x] : x \in S} IN
         IsFiniteSet(T) /\ Cardinality(T) \in Nat /\ Cardinality(T) <= Cardinality(S)
<1> DEFINE T == {f[x] : x \in S}
<1>1. f \in Surjection(S, T)
  BY DEF Surjection
<1> HIDE DEF T
<1>2. IsFiniteSet(T) /\ Cardinality(T) <= Cardinality(S)
  BY <1>1, FS_Surjection
<1> QED BY <1>2, FS_CardinalityType DEF T

\* What is in use never exhausts the tokens.
LEMMA SomeUnused ==
  ASSUME NEW S, IsFiniteSet(S), \/ Cardinality(S) <= Cardinality(Item) + Cardinality(Coord) + 1
                                \/ Cardinality(S) <= Cardinality(Consumer) + 2
  PROVE  Unused(S) \in Token /\ Unused(S) \notin S
<1>1. \E t \in Token : t \notin S
  <2> SUFFICES ASSUME Token \subseteq S PROVE FALSE
    OBVIOUS
  <2>1. IsFiniteSet(Token) /\ Cardinality(Token) <= Cardinality(S)
    BY FS_Subset
  <2>2. /\ Cardinality(Token) \in Nat /\ Cardinality(S) \in Nat /\ Cardinality(Item) \in Nat
        /\ Cardinality(Coord) \in Nat /\ Cardinality(Consumer) \in Nat
    BY <2>1, FS_CardinalityType, BackfillAssumption, EnoughTokens
  <2> QED BY <2>1, <2>2, EnoughTokens
<1> QED BY <1>1 DEF Unused

LEMMA UnionBound ==
  ASSUME NEW S, NEW T, IsFiniteSet(S), IsFiniteSet(T)
  PROVE  /\ IsFiniteSet(S \cup T) /\ Cardinality(S \cup T) \in Nat
         /\ Cardinality(S) \in Nat /\ Cardinality(T) \in Nat
         /\ Cardinality(S \cup T) <= Cardinality(S) + Cardinality(T)
<1>1. IsFiniteSet(S \cup T) /\ Cardinality(S \cup T) = Cardinality(S) + Cardinality(T) - Cardinality(S \cap T)
  BY FS_Union
<1>2. IsFiniteSet(S \cap T)
  BY FS_Intersection
<1> QED BY <1>1, <1>2, FS_CardinalityType

LEMMA RunTokensLeft == Unused(RunTokens) \in Token /\ Unused(RunTokens) \notin RunTokens
<1> DEFINE f == [i \in Item |-> item[i].token]
           g == [c \in Coord |-> coord[c].token]
           F == {f[i] : i \in Item}
           G == {g[c] : c \in Coord}
           R == {run.token}
<1>1. RunTokens = (R \cup F) \cup G
  BY DEF RunTokens
<1>2. IsFiniteSet(F) /\ Cardinality(F) <= Cardinality(Item)
  BY ImageBound, BackfillAssumption
<1>3. IsFiniteSet(G) /\ Cardinality(G) <= Cardinality(Coord)
  BY ImageBound, EnoughTokens
<1>4. IsFiniteSet(R) /\ Cardinality(R) = 1
  BY FS_Singleton
<1>5. Cardinality(Item) \in Nat /\ Cardinality(Coord) \in Nat
  BY BackfillAssumption, EnoughTokens, FS_CardinalityType
<1> HIDE DEF F, G, R
<1>6. IsFiniteSet(R \cup F) /\ Cardinality(R \cup F) \in Nat /\ Cardinality(R \cup F) <= Cardinality(Item) + 1
  BY <1>2, <1>4, <1>5, UnionBound
<1>7. IsFiniteSet(RunTokens) /\ Cardinality(RunTokens) <= Cardinality(Item) + Cardinality(Coord) + 1
  BY <1>1, <1>3, <1>5, <1>6, UnionBound
<1> QED BY <1>7, SomeUnused

LEMMA StampsLeft ==
  ASSUME NEW i
  PROVE  Unused(Stamps(i)) \in Token /\ Unused(Stamps(i)) \notin Stamps(i)
<1> DEFINE g == [k \in Consumer |-> task[k].stamp]
           G == {g[k] : k \in Consumer}
           R == {site[i].stamp} \cup {item[i].claimed}
<1>1. Stamps(i) = R \cup G
  BY DEF Stamps
<1>2. IsFiniteSet(G) /\ Cardinality(G) <= Cardinality(Consumer)
  BY ImageBound, EnoughTokens
<1>3. IsFiniteSet(R) /\ Cardinality(R) \in Nat /\ Cardinality(R) <= 2
  <2> DEFINE a == {site[i].stamp}
             b == {item[i].claimed}
  <2>1. IsFiniteSet(a) /\ Cardinality(a) = 1 /\ IsFiniteSet(b) /\ Cardinality(b) = 1
    BY FS_Singleton
  <2> HIDE DEF a, b
  <2>2. IsFiniteSet(a \cup b) /\ Cardinality(a \cup b) \in Nat /\ Cardinality(a \cup b) <= 2
    BY <2>1, UnionBound
  <2> QED BY <2>2 DEF a, b
<1>4. Cardinality(Consumer) \in Nat
  BY EnoughTokens, FS_CardinalityType
<1> HIDE DEF G, R
<1>5. IsFiniteSet(Stamps(i)) /\ Cardinality(Stamps(i)) <= Cardinality(Consumer) + 2
  BY <1>1, <1>2, <1>3, <1>4, UnionBound
<1> QED BY <1>5, SomeUnused

LEMMA RunPuts ==
  ASSUME NEW r \in Run
  PROVE  /\ \A s \in {"queued", "running", "completed", "completed_with_errors"}, t \in Tokens, l \in BOOLEAN :
              [r EXCEPT !.state = s, !.token = t, !.live = l] \in Run
         /\ \A c \in [Active \cup Terminal -> Int] : [r EXCEPT !.count = c] \in Run
         /\ \A v \in BOOLEAN : [r EXCEPT !.live = v] \in Run /\ [r EXCEPT !.cooling = v] \in Run
         /\ \A n \in 0..MaxFailures, v, w \in BOOLEAN : [r EXCEPT !.failures = n, !.cooling = v, !.stop = w] \in Run
         /\ \A n \in 0..MaxFailures, v \in BOOLEAN : [r EXCEPT !.failures = n, !.cooling = v] \in Run
         /\ \A v, w \in BOOLEAN : [r EXCEPT !.cooling = v, !.stop = w] \in Run
BY ZenonT(60) DEF Run, Tokens, Active

LEMMA ItemPuts ==
  ASSUME NEW x \in Target
  PROVE  /\ \A s \in Terminal : Settled(x, s) \in Target
         /\ Requeued(x) \in Target
         /\ \A v \in BOOLEAN : [x EXCEPT !.live = v] \in Target /\ [x EXCEPT !.waits = v] \in Target
         /\ \A t \in Tokens : [x EXCEPT !.claimed = t] \in Target
         /\ \A t \in Tokens, v \in BOOLEAN : [x EXCEPT !.waits = v, !.claimed = t] \in Target
         /\ \A t \in Tokens, k \in Consumer :
              [x EXCEPT !.state = "running", !.tried = TRUE, !.by = k, !.token = t, !.live = TRUE, !.waits = FALSE] \in Target
BY ZenonT(60) DEF Target, Settled, Requeued, Tokens, Active, Terminal

\* A Site leaves its claim.
Left(x, status) == [x EXCEPT !.status = status, !.stamp = None, !.stale = FALSE]

LEMMA SitePuts ==
  ASSUME NEW x \in Site
  PROVE  /\ \A s \in {"not_analyzed", "complete", "failed"} : Left(x, s) \in Site
         /\ \A t \in Token \cup {Foreign} : [x EXCEPT !.status = "pending", !.stamp = t, !.stale = FALSE] \in Site
         /\ \A v \in BOOLEAN : [x EXCEPT !.stale = v] \in Site /\ [x EXCEPT !.moved = v] \in Site
                               /\ [x EXCEPT !.page = v] \in Site /\ [x EXCEPT !.there = v] \in Site
         /\ \A v \in {"missing", "old", "settled"} : [x EXCEPT !.llm = v] \in Site
BY DEF Site, Left

LEMMA TaskPuts ==
  ASSUME NEW x \in Task
  PROVE  /\ \A p \in PC : [x EXCEPT !.pc = p] \in Task
         /\ \A p \in PC, i \in Item : [x EXCEPT !.pc = p, !.item = i] \in Task
         /\ \A p \in PC, v \in BOOLEAN : [x EXCEPT !.pc = p, !.llm = v] \in Task
         /\ \A p \in PC, t \in Token : [x EXCEPT !.pc = p, !.stamp = t] \in Task
         /\ \A p \in PC, v \in {"ok", "retry", "fatal", "invalid"} : [x EXCEPT !.pc = p, !.result = v] \in Task
         /\ \A p \in PC, v \in Terminal : [x EXCEPT !.pc = p, !.out = v] \in Task /\ [x EXCEPT !.out = v, !.pc = p] \in Task
         /\ \A g \in {"complete", "failed"}, v \in BOOLEAN, p \in PC : [x EXCEPT !.page = g, !.llm = v, !.pc = p] \in Task
         /\ [x EXCEPT !.cut = TRUE] \in Task
BY DEF Task
\* A finalisation has the answer of the page.
Paged == \A k \in Consumer :
  task[k].pc \in {"snapshot", "permit", "call", "returned", "record", "refuse", "apply"} =>
    task[k].page \in {"complete", "failed"}

\* The fuse goes with the last failure it allows.
FuseAtLimit == ~run.stop => run.failures < MaxFailures

TypeInv == TypeOK /\ Paged /\ FuseAtLimit

LEMMA CountTypes ==
  ASSUME NEW it, NEW c \in [Active \cup Terminal -> Int]
  PROVE  /\ FailQueuedCount(it, c) \in [Active \cup Terminal -> Int]
         /\ \A from, to \in Active \cup Terminal, n \in Int : Shift(n, from, to, c) \in [Active \cup Terminal -> Int]
<1>0. ASSUME NEW from \in Active \cup Terminal, NEW to \in Active \cup Terminal, NEW n \in Int, NEW d \in [Active \cup Terminal -> Int]
      PROVE  Shift(n, from, to, d) \in [Active \cup Terminal -> Int]
  BY <1>0 DEF Shift
<1> DEFINE tried == Cardinality({i \in In(it, "queued") : it[i].tried})
           rest == Cardinality(In(it, "queued")) - tried
<1>1. tried \in Int /\ rest \in Int
  <2>1. IsFiniteSet(In(it, "queued")) /\ IsFiniteSet({i \in In(it, "queued") : it[i].tried})
    BY BackfillAssumption, FS_Subset DEF In
  <2> QED BY <2>1, FS_CardinalityType
<1>2. FailQueuedCount(it, c) = Shift(tried, "queued", "failed", Shift(rest, "queued", "skipped", c))
  BY DEF FailQueuedCount
<1> DEFINE d == Shift(rest, "queued", "skipped", c)
<1>9. {"queued", "failed", "skipped"} \subseteq Active \cup Terminal
  BY DEF Active, Terminal
<1>3. d \in [Active \cup Terminal -> Int]
  BY <1>0, <1>1, <1>9
<1> HIDE DEF tried, rest, d
<1>4. Shift(tried, "queued", "failed", d) \in [Active \cup Terminal -> Int]
  BY <1>0, <1>1, <1>3, <1>9
<1>5. FailQueuedCount(it, c) \in [Active \cup Terminal -> Int]
  BY <1>2, <1>4 DEF d
<1> QED BY <1>0, <1>5

LEMMA ShiftOne ==
  ASSUME NEW c \in [Active \cup Terminal -> Int], NEW from \in Active \cup Terminal, NEW to \in Active \cup Terminal
  PROVE  Shift(1, from, to, c) \in [Active \cup Terminal -> Int]
<1> DEFINE n == 1
<1>1. n \in Int
  OBVIOUS
<1> HIDE DEF n
<1>2. Shift(n, from, to, c) \in [Active \cup Terminal -> Int]
  BY <1>1, CountTypes
<1> QED BY <1>2 DEF n

LEMMA SizeInt ==
  ASSUME NEW S \in SUBSET Item
  PROVE  Cardinality(S) \in Nat
<1>1. IsFiniteSet(S)
  BY BackfillAssumption, FS_Subset
<1> QED BY <1>1, FS_CardinalityType

LEMMA FinishedType ==
  ASSUME NEW r \in Run
  PROVE  Finished(r) \in Run /\ Finished(r).stop = r.stop /\ Finished(r).failures = r.failures
<1>1. \A s \in {"completed", "completed_with_errors"}, t \in Tokens, l \in BOOLEAN :
        LET q == [r EXCEPT !.state = s, !.token = t, !.live = l] IN
        q \in Run /\ q.stop = r.stop /\ q.failures = r.failures
  <2>1. ASSUME NEW s \in {"completed", "completed_with_errors"}, NEW t \in Tokens, NEW l \in BOOLEAN
        PROVE  LET q == [r EXCEPT !.state = s, !.token = t, !.live = l] IN
               q \in Run /\ q.stop = r.stop /\ q.failures = r.failures
    BY DEF Run, Tokens
  <2> QED BY <2>1
<1>2. None \in Tokens
  BY DEF Tokens
<1> HIDE DEF Tokens
<1> QED BY <1>1, <1>2 DEF Finished

LEMMA CountedType ==
  ASSUME NEW r \in Run, NEW c \in [Active \cup Terminal -> Int],
         NEW q, q = [r EXCEPT !.count = c] \/ q = Finished([r EXCEPT !.count = c])
  PROVE  q \in Run /\ q.stop = r.stop /\ q.failures = r.failures
<1> DEFINE d == [r EXCEPT !.count = c]
<1>1. d \in Run /\ d.stop = r.stop /\ d.failures = r.failures
  BY DEF Run
<1>2. q = d \/ q = Finished(d)
  OBVIOUS
<1> HIDE DEF d
<1>3. CASE q = d
  BY <1>1, <1>3
<1>4. CASE q = Finished(d)
  BY <1>1, <1>4, FinishedType
<1> QED BY <1>2, <1>3, <1>4

LEMMA FailQueuedType ==
  ASSUME item \in [Item -> Target]
  PROVE  FailQueued(item) \in [Item -> Target]
BY ItemPuts DEF FailQueued, Terminal

LEMMA UnclaimedType ==
  ASSUME site \in [Item -> Site], NEW I
  PROVE  Unclaimed(I) \in [Item -> Site]
<1>1. \A i \in Item : [site[i] EXCEPT !.status = "not_analyzed", !.stamp = None, !.stale = FALSE] \in Site
  BY SitePuts DEF Left
<1> QED BY <1>1 DEF Unclaimed

LEMMA LeaveType ==
  ASSUME site \in [Item -> Site], NEW k \in Consumer, NEW s \in {"not_analyzed", "complete", "failed"}
  PROVE  Leave(k, s) \in [Item -> Site]
<1> DEFINE i == task[k].item
           x == Left(site[i], s)
<1>1. CASE ~Claims(k) \/ i \notin Item
  BY <1>1 DEF Leave
<1>2. CASE Claims(k) /\ i \in Item
  <2>1. x \in Site
    BY <1>2, SitePuts
  <2>2. Leave(k, s) = [site EXCEPT ![i] = x]
    BY <1>2 DEF Leave, Left
  <2> HIDE DEF x
  <2> QED BY <1>2, <2>1, <2>2
<1> QED BY <1>1, <1>2

\* A signal keeps the types of run, items and sites, and the fuse at its limit.
LEMMA SignalType ==
  ASSUME TypeInv, NEW r \in {"none", "ok", "retry", "fatal", "invalid"}, ~run.stop, Signal(r)
  PROVE  run' \in Run /\ item' \in [Item -> Target] /\ site' \in [Item -> Site] /\ FuseAtLimit'
<1> DEFINE n     == run.failures + 1
           stops == r = "fatal" \/ (r = "retry" /\ n >= MaxFailures)
           next  == IF r = "ok" THEN [run EXCEPT !.failures = 0, !.cooling = FALSE]
                    ELSE IF r = "retry" THEN [run EXCEPT !.failures = n, !.cooling = TRUE, !.stop = stops]
                    ELSE [run EXCEPT !.cooling = FALSE, !.stop = TRUE]
<1>0. run \in Run /\ item \in [Item -> Target] /\ site \in [Item -> Site]
  BY DEF TypeInv, TypeOK
<1>1. n \in 1..MaxFailures /\ MaxFailures \in Nat /\ run.failures \in 0..MaxFailures
  BY <1>0, BackfillAssumption DEF TypeInv, FuseAtLimit, Run
<1>2. next \in Run /\ (~next.stop => next.failures < MaxFailures) /\ next.count = run.count
  <2>1. CASE r = "ok"
    <3>1. next = [run EXCEPT !.failures = 0, !.cooling = FALSE] /\ 0 \in 0..MaxFailures /\ 0 < MaxFailures
      BY <2>1, <1>1
    <3>2. next \in Run
      BY <1>0, <3>1, RunPuts
    <3>3. next.failures = 0 /\ next.count = run.count
      BY <1>0, <3>1 DEF Run
    <3> QED BY <3>1, <3>2, <3>3
  <2>2. CASE r = "retry"
    <3>1. next = [run EXCEPT !.failures = n, !.cooling = TRUE, !.stop = stops]
      BY <2>2
    <3>2. n \in 0..MaxFailures /\ stops \in BOOLEAN /\ (~stops => n < MaxFailures)
      BY <1>1, <2>2
    <3> HIDE DEF n, stops, next
    <3>3. next \in Run
      BY <1>0, <3>1, <3>2, RunPuts
    <3>4. next.failures = n /\ next.stop = stops /\ next.count = run.count
      BY <1>0, <3>1 DEF Run
    <3> QED BY <3>2, <3>3, <3>4
  <2>3. CASE r \notin {"ok", "retry"}
    <3>1. next = [run EXCEPT !.cooling = FALSE, !.stop = TRUE]
      BY <2>3
    <3> HIDE DEF next
    <3>2. next \in Run
      BY <1>0, <3>1, RunPuts
    <3>3. next.stop = TRUE /\ next.count = run.count
      BY <1>0, <3>1 DEF Run
    <3> QED BY <3>2, <3>3
  <2> QED BY <2>1, <2>2, <2>3
<1>3. IF stops
      THEN /\ item' = FailQueued(item)
           /\ run' = Finished([next EXCEPT !.count = FailQueuedCount(item, next.count)])
           /\ site' = Unclaimed(In(item, "queued"))
      ELSE run' = next /\ UNCHANGED <<item, site>>
  BY DEF Signal
<1> HIDE DEF next, stops
<1>4. CASE stops
  <2>1. FailQueuedCount(item, next.count) \in [Active \cup Terminal -> Int]
    BY <1>2, CountTypes DEF Run
  <2>2. run' \in Run /\ run'.stop = next.stop /\ run'.failures = next.failures
    BY <1>2, <1>3, <1>4, <2>1, CountedType
  <2> QED BY <1>0, <1>2, <1>3, <1>4, <2>2, FailQueuedType, UnclaimedType DEF FuseAtLimit
<1>5. CASE ~stops
  BY <1>0, <1>2, <1>3, <1>5 DEF FuseAtLimit
<1> QED BY <1>4, <1>5
\* The claim of a consumer keeps the types: it belongs to a process.
LEMMA ClaimNextType ==
  ASSUME TypeInv, NEW k \in Consumer, ClaimNext(k)
  PROVE  run' \in Run /\ item' \in [Item -> Target] /\ site' \in [Item -> Site] /\ FuseAtLimit'
<1> DEFINE n    == Cardinality(Expired)
           open == [i \in Item |-> IF i \in Expired THEN Requeued(item[i]) ELSE item[i]]
           back == Shift(n, "running", "queued", run.count)
           next == Shift(1, "queued", "running", back)
           fail == Shift(n, "running", "failed", FailQueuedCount(item, run.count))
<1>0. /\ run \in Run /\ item \in [Item -> Target] /\ site \in [Item -> Site] /\ FuseAtLimit
      /\ coord \in [Coord -> Coordinator]
  BY DEF TypeInv, TypeOK
<1>1. open \in [Item -> Target]
  BY <1>0, ItemPuts
<1>2. /\ back \in [Active \cup Terminal -> Int] /\ next \in [Active \cup Terminal -> Int]
      /\ fail \in [Active \cup Terminal -> Int]
  <2>1. n \in Int
    BY SizeInt DEF Expired, In
  <2>2. run.count \in [Active \cup Terminal -> Int] /\ {"queued", "running", "failed"} \subseteq Active \cup Terminal
    BY <1>0 DEF Run, Active, Terminal
  <2> HIDE DEF n
  <2>3. back \in [Active \cup Terminal -> Int]
    BY <2>1, <2>2, CountTypes
  <2> HIDE DEF back
  <2>4. next \in [Active \cup Terminal -> Int]
    BY <2>2, <2>3, ShiftOne
  <2>5. FailQueuedCount(item, run.count) \in [Active \cup Terminal -> Int]
    BY <2>2, CountTypes
  <2>6. fail \in [Active \cup Terminal -> Int]
    BY <2>1, <2>2, <2>5, CountTypes
  <2> QED BY <2>3, <2>4, <2>6
<1>3. \/ UNCHANGED <<run, item, site>>
      \/ /\ item' = [i \in Item |-> IF i \in Expired THEN Settled(item[i], "failed") ELSE FailQueued(item)[i]]
         /\ run' = Finished([run EXCEPT !.count = fail])
         /\ site' = Unclaimed(Expired \cup In(item, "queued"))
      \/ item' = open /\ run' = [run EXCEPT !.count = back] /\ UNCHANGED site
      \/ /\ \E i \in Runnable(open) : item' = Claimed(open, i, k)
         /\ run' = [run EXCEPT !.count = next] /\ UNCHANGED site
  BY DEF ClaimNext, StopAll
<1> HIDE DEF open, back, next, fail, n
<1>4. CASE /\ item' = [i \in Item |-> IF i \in Expired THEN Settled(item[i], "failed") ELSE FailQueued(item)[i]]
           /\ run' = Finished([run EXCEPT !.count = fail])
           /\ site' = Unclaimed(Expired \cup In(item, "queued"))
  <2>1. item' \in [Item -> Target]
    BY <1>0, <1>4, FailQueuedType, ItemPuts DEF Terminal
  <2>2. run' \in Run /\ run'.stop = run.stop /\ run'.failures = run.failures
    BY <1>0, <1>2, <1>4, CountedType
  <2> QED BY <1>0, <1>4, <2>1, <2>2, UnclaimedType DEF FuseAtLimit
<1>5. ASSUME NEW c \in {back, next}, run' = [run EXCEPT !.count = c] PROVE run' \in Run /\ FuseAtLimit'
  <2>1. c \in [Active \cup Terminal -> Int]
    BY <1>2, <1>5
  <2>2. run' \in Run /\ run'.stop = run.stop /\ run'.failures = run.failures
    BY <1>0, <1>5, <2>1, CountedType
  <2> QED BY <1>0, <2>2 DEF FuseAtLimit
<1>6. ASSUME NEW i \in Runnable(open), item' = Claimed(open, i, k) PROVE item' \in [Item -> Target]
  <2> DEFINE t == coord[Of(k)].token
             x == [open[i] EXCEPT !.state = "running", !.tried = TRUE, !.by = k, !.token = t,
                                  !.live = TRUE, !.waits = FALSE]
  <2>1. i \in Item /\ t \in Tokens
    BY <1>0, <1>6, BackfillAssumption DEF Runnable, In, Coordinator, Tokens
  <2>2. Claimed(open, i, k) = [open EXCEPT ![i] = x]
    BY <1>1, <2>1 DEF Claimed
  <2> HIDE DEF t
  <2>3. x \in Target
    BY <1>1, <2>1, ItemPuts
  <2> HIDE DEF x
  <2> QED BY <1>1, <1>6, <2>1, <2>2, <2>3
<1> QED BY <1>0, <1>1, <1>3, <1>4, <1>5, <1>6 DEF FuseAtLimit

\* One target ends or goes back, and the counters with it.
LEMMA GivenUpType ==
  ASSUME TypeInv, NEW i \in Item, NEW x \in Target, NEW to \in Active \cup Terminal,
         item' = [item EXCEPT ![i] = x],
         NEW c, c = Shift(1, "running", to, run.count),
         run' = Finished([run EXCEPT !.count = c]) \/ run' = [run EXCEPT !.count = c]
  PROVE  run' \in Run /\ item' \in [Item -> Target] /\ FuseAtLimit'
<1>0. run \in Run /\ item \in [Item -> Target] /\ FuseAtLimit
  BY DEF TypeInv, TypeOK
<1>1. c \in [Active \cup Terminal -> Int]
  <2>1. run.count \in [Active \cup Terminal -> Int] /\ "running" \in Active \cup Terminal
    BY <1>0 DEF Run, Active
  <2> QED BY <2>1, ShiftOne
<1>3. run' \in Run /\ run'.stop = run.stop /\ run'.failures = run.failures
  <2> DEFINE d == [run EXCEPT !.count = c]
  <2>1. d \in Run /\ d.stop = run.stop /\ d.failures = run.failures
    BY <1>0, <1>1 DEF Run
  <2>2. run' = Finished(d) \/ run' = d
    OBVIOUS
  <2> HIDE DEF d
  <2>3. Finished(d) \in Run /\ Finished(d).stop = d.stop /\ Finished(d).failures = d.failures
    BY <2>1, FinishedType
  <2> QED BY <2>1, <2>2, <2>3
<1> QED BY <1>0, <1>3 DEF FuseAtLimit

LEMMA ReturnType ==
  ASSUME TypeInv, NEW k \in Consumer, task[k].item \in Item, NEW defer \in BOOLEAN, Return(k, defer)
  PROVE  run' \in Run /\ item' \in [Item -> Target] /\ site' \in [Item -> Site] /\ FuseAtLimit'
<1> DEFINE i == task[k].item
<1>0. item[i] \in Target /\ site \in [Item -> Site]
  BY DEF TypeInv, TypeOK
<1>1. CASE run.stop
  <2> DEFINE x == Settled(item[i], "failed")
             to == "failed"
  <2>1. x \in Target /\ to \in Active \cup Terminal
    BY <1>0, ItemPuts DEF Terminal
  <2>2. /\ item' = [item EXCEPT ![i] = x] /\ site' = Unclaimed({i})
        /\ run' = Finished([run EXCEPT !.count = Shift(1, "running", to, run.count)])
    BY <1>1 DEF Return
  <2> HIDE DEF x, to, i
  <2>3. run' \in Run /\ item' \in [Item -> Target] /\ FuseAtLimit'
    BY <2>1, <2>2, GivenUpType DEF i
  <2> QED BY <1>0, <2>2, <2>3, UnclaimedType
<1>2. CASE ~run.stop
  <2> DEFINE y == Requeued(item[i])
             t == IF defer THEN None ELSE item[i].claimed
             x == [y EXCEPT !.waits = defer, !.claimed = t]
             to == "queued"
  <2>0. item' = [item EXCEPT ![i] = x] /\ UNCHANGED site
        /\ run' = [run EXCEPT !.count = Shift(1, "running", to, run.count)]
    BY <1>2 DEF Return
  <2>1. y \in Target /\ t \in Tokens /\ to \in Active \cup Terminal
    BY ZenonT(60), <1>0, ItemPuts DEF Active, Tokens, Target
  <2> HIDE DEF y, t
  <2>2. x \in Target
    BY <2>1, ItemPuts
  <2> HIDE DEF x, to, i
  <2> QED BY <1>0, <2>0, <2>1, <2>2, GivenUpType DEF i
<1> QED BY <1>1, <1>2
LEMMA ClaimSiteType ==
  ASSUME TypeInv, NEW k \in Consumer, task[k].item \in Item, ClaimSite(k)
  PROVE  item' \in [Item -> Target] /\ site' \in [Item -> Site] /\ task' \in [Consumer -> Task]
<1> DEFINE i == task[k].item
           t == Unused(Stamps(i))
           x == [item[i] EXCEPT !.claimed = t]
           y == [site[i] EXCEPT !.status = "pending", !.stamp = t, !.stale = FALSE]
           z == [task[k] EXCEPT !.pc = "fetch", !.stamp = t]
           w == [task[k] EXCEPT !.pc = "miss"]
<1>0. item \in [Item -> Target] /\ site \in [Item -> Site] /\ task \in [Consumer -> Task]
  BY DEF TypeInv, TypeOK
<1>1. t \in Token
  BY StampsLeft
<1>2. \/ /\ item' = [item EXCEPT ![i] = x] /\ site' = [site EXCEPT ![i] = y] /\ task' = [task EXCEPT ![k] = z]
      \/ UNCHANGED <<item, site>> /\ task' = [task EXCEPT ![k] = w]
  BY <1>0 DEF ClaimSite, RecordClaim, Go
<1> HIDE DEF t
<1>3. x \in Target /\ y \in Site
  BY <1>0, <1>1, ItemPuts, SitePuts DEF Tokens
<1>4. z \in Task /\ w \in Task
  <2>1. {"fetch", "miss"} \subseteq PC
    BY DEF PC, Working
  <2> QED BY <1>0, <1>1, <2>1, TaskPuts
<1> HIDE DEF x, y, z, w
<1> QED BY <1>0, <1>2, <1>3, <1>4

LEMMA InterruptedType ==
  ASSUME task \in [Consumer -> Task], NEW k \in Consumer, NEW lost
  PROVE  Interrupted(k, lost) \in Task
<1>1. task[k] \in Task /\ {"unclaim", "release"} \subseteq PC
  BY DEF PC
<1>2. [task[k] EXCEPT !.cut = TRUE] \in Task /\ [task[k] EXCEPT !.pc = "unclaim"] \in Task
      /\ [task[k] EXCEPT !.pc = "release"] \in Task
  BY <1>1, TaskPuts
<1>3. NoTask \in Task
  BY DEF NoTask, Task, PC, Terminal
<1> QED BY <1>1, <1>2, <1>3 DEF Interrupted

\* The pcs a task may be sent to.
LEMMA PCs == /\ {"ended", "claim", "needs", "intent", "site", "miss", "defer", "finish", "unclaim", "fuse",
                 "crashed", "release"} \subseteq PC
             /\ {"fetch", "snapshot", "permit", "call", "returned", "record", "refuse", "apply"} \subseteq PC
             /\ \A k : \A p \in PC : After(k, p) \in PC
BY DEF PC, Working, After

LEMMA TaskGoes ==
  ASSUME task \in [Consumer -> Task], NEW k \in Consumer, NEW p \in PC
  PROVE  [task EXCEPT ![k].pc = p] \in [Consumer -> Task]
<1> DEFINE x == [task[k] EXCEPT !.pc = p]
<1>1. x \in Task
  BY TaskPuts
<1>2. [task EXCEPT ![k].pc = p] = [task EXCEPT ![k] = x]
  OBVIOUS
<1> HIDE DEF x
<1> QED BY <1>1, <1>2

\* pc and one more field.
LEMMA TaskGoesWith ==
  ASSUME task \in [Consumer -> Task], NEW k \in Consumer, NEW p \in PC
  PROVE  /\ \A i \in Item : [task EXCEPT ![k].pc = p, ![k].item = i] \in [Consumer -> Task]
         /\ \A v \in BOOLEAN : [task EXCEPT ![k].pc = p, ![k].llm = v] \in [Consumer -> Task]
         /\ \A v \in {"ok", "retry", "fatal", "invalid"} : [task EXCEPT ![k].pc = p, ![k].result = v] \in [Consumer -> Task]
         /\ \A v \in Terminal : [task EXCEPT ![k].pc = p, ![k].out = v] \in [Consumer -> Task]
         /\ \A v \in Terminal : [task EXCEPT ![k].out = v, ![k].pc = p] \in [Consumer -> Task]
         /\ \A g \in {"complete", "failed"}, v \in BOOLEAN :
              [task EXCEPT ![k].page = g, ![k].llm = v, ![k].pc = p] \in [Consumer -> Task]
<1>1. task[k] \in Task
  OBVIOUS
<1>2. ASSUME NEW x \in Task PROVE [task EXCEPT ![k] = x] \in [Consumer -> Task]
  OBVIOUS
<1>3. ASSUME NEW i \in Item PROVE [task EXCEPT ![k].pc = p, ![k].item = i] \in [Consumer -> Task]
  <2> DEFINE x == [task[k] EXCEPT !.pc = p, !.item = i]
  <2>1. x \in Task
    BY <1>1, TaskPuts
  <2>2. [task EXCEPT ![k].pc = p, ![k].item = i] = [task EXCEPT ![k] = x]
    OBVIOUS
  <2> HIDE DEF x
  <2> QED BY <1>2, <2>1, <2>2
<1>4. ASSUME NEW v \in BOOLEAN PROVE [task EXCEPT ![k].pc = p, ![k].llm = v] \in [Consumer -> Task]
  <2> DEFINE x == [task[k] EXCEPT !.pc = p, !.llm = v]
  <2>1. x \in Task
    BY <1>1, TaskPuts
  <2>2. [task EXCEPT ![k].pc = p, ![k].llm = v] = [task EXCEPT ![k] = x]
    OBVIOUS
  <2> HIDE DEF x
  <2> QED BY <1>2, <2>1, <2>2
<1>5. ASSUME NEW v \in {"ok", "retry", "fatal", "invalid"}
      PROVE  [task EXCEPT ![k].pc = p, ![k].result = v] \in [Consumer -> Task]
  <2> DEFINE x == [task[k] EXCEPT !.pc = p, !.result = v]
  <2>1. x \in Task
    BY <1>1, TaskPuts
  <2>2. [task EXCEPT ![k].pc = p, ![k].result = v] = [task EXCEPT ![k] = x]
    OBVIOUS
  <2> HIDE DEF x
  <2> QED BY <1>2, <2>1, <2>2
<1>6. ASSUME NEW v \in Terminal
      PROVE  /\ [task EXCEPT ![k].pc = p, ![k].out = v] \in [Consumer -> Task]
             /\ [task EXCEPT ![k].out = v, ![k].pc = p] \in [Consumer -> Task]
  <2> DEFINE x == [task[k] EXCEPT !.pc = p, !.out = v]
             y == [task[k] EXCEPT !.out = v, !.pc = p]
  <2>1. x \in Task /\ y \in Task
    BY <1>1, TaskPuts
  <2>2. /\ [task EXCEPT ![k].pc = p, ![k].out = v] = [task EXCEPT ![k] = x]
        /\ [task EXCEPT ![k].out = v, ![k].pc = p] = [task EXCEPT ![k] = y]
    OBVIOUS
  <2> HIDE DEF x, y
  <2> QED BY <1>2, <2>1, <2>2
<1>7. ASSUME NEW g \in {"complete", "failed"}, NEW v \in BOOLEAN
      PROVE  [task EXCEPT ![k].page = g, ![k].llm = v, ![k].pc = p] \in [Consumer -> Task]
  <2> DEFINE x == [task[k] EXCEPT !.page = g, !.llm = v, !.pc = p]
  <2>1. x \in Task
    BY <1>1, TaskPuts
  <2>2. [task EXCEPT ![k].page = g, ![k].llm = v, ![k].pc = p] = [task EXCEPT ![k] = x]
    OBVIOUS
  <2> HIDE DEF x
  <2> QED BY <1>2, <2>1, <2>2
<1> QED BY <1>3, <1>4, <1>5, <1>6, <1>7
\* The pcs at which the page was fetched.
Fetched == {"snapshot", "permit", "call", "returned", "record", "refuse", "apply"}

LEMMA PagedStays ==
  ASSUME Paged,
         \A j \in Consumer : \/ task'[j].pc \notin Fetched
                             \/ task[j].pc \in Fetched /\ task'[j].page = task[j].page
                             \/ task'[j].page \in {"complete", "failed"}
  PROVE  Paged'
BY DEF Paged, Fetched

\* A task that moves on keeps its page.
LEMMA PagedMoves ==
  ASSUME Paged, task \in [Consumer -> Task], NEW k \in Consumer, NEW r, task' = [task EXCEPT ![k] = r],
         \/ r.pc \notin Fetched
         \/ task[k].pc \in Fetched /\ r.page = task[k].page
         \/ r.page \in {"complete", "failed"}
  PROVE  Paged'
<1>1. \A j \in Consumer : task'[j] = IF j = k THEN r ELSE task[j]
  OBVIOUS
<1> QED BY <1>1 DEF Paged, Fetched

LEMMA PagedGoes ==
  ASSUME Paged, task \in [Consumer -> Task], NEW k \in Consumer, NEW p, p \notin Fetched \/ task[k].pc \in Fetched,
         NEW v,
         \/ task' = [task EXCEPT ![k].pc = p]
         \/ task' = [task EXCEPT ![k].pc = p, ![k].item = v]
         \/ task' = [task EXCEPT ![k].pc = p, ![k].llm = v]
         \/ task' = [task EXCEPT ![k].pc = p, ![k].stamp = v]
         \/ task' = [task EXCEPT ![k].pc = p, ![k].result = v]
         \/ task' = [task EXCEPT ![k].pc = p, ![k].out = v]
         \/ task' = [task EXCEPT ![k].out = v, ![k].pc = p]
  PROVE  Paged'
<1> DEFINE x == task[k]
           y == [x EXCEPT !.pc = p]
<1>1. x \in Task
  OBVIOUS
<1>2. PICK r : /\ task' = [task EXCEPT ![k] = r]
               /\ r \in {y, [y EXCEPT !.item = v], [y EXCEPT !.llm = v], [y EXCEPT !.stamp = v],
                         [y EXCEPT !.result = v], [y EXCEPT !.out = v], [x EXCEPT !.out = v, !.pc = p]}
  BY ZenonT(60)
<1>3. r.pc = p /\ r.page = x.page
  <2> HIDE DEF x
  <2> QED BY <1>1, <1>2 DEF Task
<1> HIDE DEF y
<1> QED BY <1>2, <1>3, PagedMoves

LEMMA InterruptedPage ==
  ASSUME task \in [Consumer -> Task], NEW k \in Consumer, NEW lost
  PROVE  LET r == Interrupted(k, lost) IN
         r.pc \notin Fetched \/ (task[k].pc \in Fetched /\ r.page = task[k].page)
<1> DEFINE x == task[k]
<1>0. x \in Task
  OBVIOUS
<1>1. NoTask.pc = "ended"
  BY DEF NoTask
<1>2. [x EXCEPT !.cut = TRUE].pc = x.pc /\ [x EXCEPT !.cut = TRUE].page = x.page
      /\ [x EXCEPT !.pc = "unclaim"].pc = "unclaim" /\ [x EXCEPT !.pc = "release"].pc = "release"
  BY <1>0 DEF Task
<1>3. CASE x.pc \in {"ended", "claim"} \/ (x.pc = "needs" /\ lost)
  BY <1>1, <1>3 DEF Interrupted, Fetched
<1>4. CASE ~(x.pc \in {"ended", "claim"} \/ (x.pc = "needs" /\ lost)) /\ (x.pc \in {"fuse", "crashed"} \/ Shielded(k))
  <2>1. Interrupted(k, lost) = [x EXCEPT !.cut = TRUE]
    BY <1>4 DEF Interrupted
  <2>2. x.pc \notin Fetched \/ x.pc \in Fetched
    OBVIOUS
  <2> QED BY <1>2, <2>1, <2>2
<1>5. CASE ~(x.pc \in {"ended", "claim"} \/ (x.pc = "needs" /\ lost)) /\ ~(x.pc \in {"fuse", "crashed"} \/ Shielded(k))
  <2>1. \/ Interrupted(k, lost) = [x EXCEPT !.pc = "unclaim"]
        \/ Interrupted(k, lost) = [x EXCEPT !.pc = "release"]
        \/ Interrupted(k, lost) = x
    BY <1>5 DEF Interrupted
  <2> QED BY <1>2, <2>1 DEF Fetched
<1> QED BY <1>3, <1>4, <1>5

LEMMA ApplyType ==
  ASSUME TypeInv, NEW k \in Consumer, task[k].item \in Item, Apply(k)
  PROVE  site' \in [Item -> Site] /\ task' \in [Consumer -> Task] /\ Paged'
<1> DEFINE i == task[k].item
           x == site[i]
           done(s) == [x EXCEPT !.status = s, !.stamp = None, !.stale = FALSE]
<1>0. /\ site \in [Item -> Site] /\ task \in [Consumer -> Task] /\ Paged /\ x \in Site
      /\ task[k].pc = "apply" /\ task[k].page \in {"complete", "failed"}
  BY DEF TypeInv, TypeOK, Apply, Paged
<1>1. /\ After(k, "finish") \in {"finish", "unclaim"} /\ After(k, "miss") \in {"miss", "unclaim"}
      /\ {"finish", "miss", "unclaim"} \subseteq PC
  BY PCs DEF After
<1>2. ASSUME NEW new \in Site, Applied(k, new) PROVE site' \in [Item -> Site] /\ task' \in [Consumer -> Task] /\ Paged'
  <2> DEFINE p == After(k, "finish")
             v == IF new.status = "failed" THEN "failed" ELSE "complete"
  <2>1. site' = [site EXCEPT ![i] = new] /\ task' = [task EXCEPT ![k].pc = p, ![k].out = v]
    BY <1>2 DEF Applied
  <2>2. v \in Terminal /\ p \in PC /\ p \notin Fetched
    BY <1>1 DEF Terminal, Fetched
  <2> HIDE DEF p, v, x
  <2> QED BY <1>0, <1>2, <2>1, <2>2, TaskGoesWith, PagedGoes
<1>3. ASSUME NEW s \in {"not_analyzed", "complete", "failed"}, Missed(k, s)
      PROVE  site' \in [Item -> Site] /\ task' \in [Consumer -> Task] /\ Paged'
  <2> DEFINE p == After(k, "miss")
  <2>1. site' = Leave(k, s) /\ task' = [task EXCEPT ![k].pc = p]
    BY <1>3 DEF Missed, Go
  <2>2. p \in PC /\ p \notin Fetched
    BY <1>1 DEF Fetched
  <2> HIDE DEF p
  <2> QED BY <1>0, <1>3, <2>1, <2>2, TaskGoes, PagedGoes, LeaveType
<1>4. \A s \in {"not_analyzed", "complete", "failed"} : done(s) \in Site
  BY <1>0, SitePuts DEF Left
<1>5. ASSUME NEW p \in BOOLEAN, NEW m \in BOOLEAN
      PROVE  /\ [done("complete") EXCEPT !.llm = "settled", !.page = @ \/ p, !.moved = m] \in Site
             /\ [done("complete") EXCEPT !.page = @ \/ p] \in Site
  <2> DEFINE d == done("complete")
             q == d.page \/ p
             a == [d EXCEPT !.llm = "settled"]
             b == [a EXCEPT !.page = q]
             c == [b EXCEPT !.moved = m]
             e == [d EXCEPT !.page = q]
  <2>1. d \in Site
    BY <1>4
  <2> HIDE DEF d
  <2>2. q \in BOOLEAN
    BY <2>1 DEF Site
  <2>3. [d EXCEPT !.llm = "settled", !.page = @ \/ p, !.moved = m] = c
    BY <2>1 DEF Site
  <2>4. [d EXCEPT !.page = @ \/ p] = e
    BY <2>1 DEF Site
  <2> HIDE DEF q
  <2>5. a \in Site /\ e \in Site
    BY <2>1, <2>2, SitePuts
  <2> HIDE DEF a
  <2>6. b \in Site
    BY <2>2, <2>5, SitePuts
  <2> HIDE DEF b
  <2>7. c \in Site
    BY <2>6, SitePuts
  <2> HIDE DEF c, e
  <2> QED BY <2>3, <2>4, <2>5, <2>7 DEF d
<1>6. \/ \E p, m \in BOOLEAN : Applied(k, [done("complete") EXCEPT !.llm = "settled", !.page = @ \/ p, !.moved = m])
      \/ Applied(k, done("failed"))
      \/ \E p \in BOOLEAN : Applied(k, [done("complete") EXCEPT !.page = @ \/ p])
      \/ \E s \in {"not_analyzed", "complete", "failed"} : Missed(k, s)
  <2>1. task[k].page \in {"not_analyzed", "complete", "failed"}
    BY <1>0
  <2> QED BY <2>1 DEF Apply
<1> HIDE DEF done, x
<1> QED BY <1>2, <1>3, <1>4, <1>5, <1>6
LEMMA NoTaskType == NoTask \in Task /\ [NoTask EXCEPT !.pc = "claim"] \in Task
<1>1. NoTask \in Task
  BY PCs DEF NoTask, Task, Terminal
<1> QED BY <1>1, PCs, TaskPuts

LEMMA NewTask ==
  ASSUME Paged, task \in [Consumer -> Task], NEW k \in Consumer,
         task' = [task EXCEPT ![k] = NoTask] \/ task' = [task EXCEPT ![k] = [NoTask EXCEPT !.pc = "claim"]]
  PROVE  task' \in [Consumer -> Task] /\ Paged'
<1> DEFINE c == [NoTask EXCEPT !.pc = "claim"]
<1>1. NoTask.pc = "ended" /\ c.pc = "claim"
  BY DEF NoTask
<1>2. NoTask \in Task /\ c \in Task
  BY NoTaskType
<1> HIDE DEF c
<1>3. task' = [task EXCEPT ![k] = NoTask] \/ task' = [task EXCEPT ![k] = c]
  BY DEF c
<1> QED BY <1>1, <1>2, <1>3, PagedMoves DEF Fetched

\* A step that only sends its task on.
LEMMA GoType ==
  ASSUME Paged, task \in [Consumer -> Task], NEW k \in Consumer, NEW p \in PC,
         p \notin Fetched \/ task[k].pc \in Fetched, Go(k, p)
  PROVE  task' \in [Consumer -> Task] /\ Paged'
<1>1. task' = [task EXCEPT ![k].pc = p]
  BY DEF Go
<1> QED BY <1>1, TaskGoes, PagedGoes

LEMMA StepTypes ==
  ASSUME TypeInv, TaskRows, NEW k \in Consumer, Step(k)
  PROVE  /\ run' \in Run /\ item' \in [Item -> Target] /\ site' \in [Item -> Site]
         /\ FuseAtLimit' /\ task' \in [Consumer -> Task] /\ Paged'
<1> DEFINE i == task[k].item
           Rows1 == run' \in Run /\ item' \in [Item -> Target] /\ site' \in [Item -> Site] /\ FuseAtLimit'
           Tasks1 == task' \in [Consumer -> Task] /\ Paged'
<1>0. /\ run \in Run /\ item \in [Item -> Target] /\ site \in [Item -> Site]
      /\ coord \in [Coord -> Coordinator] /\ task \in [Consumer -> Task] /\ Paged /\ FuseAtLimit
  BY DEF TypeInv, TypeOK
<1>u. ASSUME UNCHANGED <<run, item, site>> PROVE Rows1
  BY <1>0, <1>u DEF FuseAtLimit
<1>i. task[k].pc \notin {"ended", "claim"} => i \in Item
  BY DEF TaskRows, TaskRow
<1>e. ASSUME End(k) PROVE Tasks1
  BY <1>0, <1>e, NewTask DEF End
<1>c. ASSUME task' = [task EXCEPT ![k] = [NoTask EXCEPT !.pc = "claim"]] PROVE Tasks1
  BY <1>0, <1>c, NewTask
<1>g. ASSUME NEW p \in PC, p \notin Fetched \/ task[k].pc \in Fetched, Go(k, p) PROVE Tasks1
  BY <1>0, <1>g, GoType
<1>p. /\ {"ended", "claim", "needs", "intent", "site", "miss", "defer", "finish", "unclaim", "fuse",
          "crashed", "release", "fetch"} \cap Fetched = {}
      /\ \A p \in {"miss", "crashed"} : After(k, p) \in PC \ Fetched
      /\ {"needs", "intent", "site", "miss", "defer", "finish", "unclaim", "release", "snapshot", "apply"} \subseteq PC
  BY PCs DEF Fetched, After
<1>1. ASSUME ClaimNext(k) PROVE Rows1 /\ Tasks1
  <2>1. End(k) \/ \E j \in Item : task' = [task EXCEPT ![k].pc = "needs", ![k].item = j]
    BY <1>1 DEF ClaimNext, StopAll, Runnable, In
  <2>2. ASSUME NEW j \in Item, task' = [task EXCEPT ![k].pc = "needs", ![k].item = j] PROVE Tasks1
    BY <1>0, <1>p, <2>2, TaskGoesWith, PagedGoes
  <2> QED BY <1>1, <1>e, <2>1, <2>2, ClaimNextType
<1>2. ASSUME Needs(k) PROVE Rows1 /\ Tasks1
  <2> DEFINE v == item[i].llm /\ site[i].llm = "missing"
  <2>1. i \in Item /\ UNCHANGED <<run, item, site>> /\ task' = [task EXCEPT ![k].pc = "intent", ![k].llm = v]
    BY <1>2, <1>i DEF Needs
  <2>2. v \in BOOLEAN
    BY <1>0, <2>1 DEF Target
  <2> HIDE DEF v
  <2> QED BY <1>0, <1>p, <1>u, <2>1, <2>2, TaskGoesWith, PagedGoes
<1>3. ASSUME Intent(k) PROVE Rows1 /\ Tasks1
  <2> DEFINE v == NeedsModel(i)
  <2>1. i \in Item /\ UNCHANGED <<run, item, site>>
        /\ (task' = [task EXCEPT ![k].pc = "site", ![k].llm = v] \/ Go(k, "release"))
    BY <1>3, <1>i DEF Intent
  <2>2. v \in BOOLEAN
    BY <1>0, <2>1 DEF Target, NeedsModel, Missing
  <2> HIDE DEF v
  <2>3. ASSUME task' = [task EXCEPT ![k].pc = "site", ![k].llm = v] PROVE Tasks1
    BY <1>0, <1>p, <2>2, <2>3, TaskGoesWith, PagedGoes
  <2> QED BY <1>g, <1>p, <1>u, <2>1, <2>3
<1>4. ASSUME ClaimSite(k) PROVE Rows1 /\ Tasks1
  <2> DEFINE t == Unused(Stamps(i))
  <2>1. i \in Item /\ UNCHANGED run
        /\ (task' = [task EXCEPT ![k].pc = "fetch", ![k].stamp = t] \/ task' = [task EXCEPT ![k].pc = "miss"])
    BY <1>4, <1>i DEF ClaimSite, Go
  <2>2. item' \in [Item -> Target] /\ site' \in [Item -> Site] /\ task' \in [Consumer -> Task]
    BY <1>4, <2>1, ClaimSiteType
  <2> HIDE DEF t
  <2>3. CASE task' = [task EXCEPT ![k].pc = "fetch", ![k].stamp = t]
    <3>1. Paged'
      BY <1>0, <1>p, <2>3, PagedGoes
    <3> QED BY <1>0, <2>1, <2>2, <3>1 DEF FuseAtLimit
  <2>4. CASE task' = [task EXCEPT ![k].pc = "miss"]
    <3>1. Paged'
      BY <1>0, <1>p, <2>4, PagedGoes
    <3> QED BY <1>0, <2>1, <2>2, <3>1 DEF FuseAtLimit
  <2> QED BY <2>1, <2>3, <2>4
<1>5. ASSUME Fetch(k) PROVE Rows1 /\ Tasks1
  <2> DEFINE v == task[k].llm /\ site[i].there /\ Missing(i)
             p == IF v THEN "snapshot" ELSE "apply"
  <2>1. i \in Item /\ UNCHANGED <<run, item, site>>
    BY <1>5, <1>i DEF Fetch
  <2>2. PICK g \in {"complete", "failed"} : task' = [task EXCEPT ![k].page = g, ![k].llm = v, ![k].pc = p]
    BY <1>5 DEF Fetch
  <2>3. v \in BOOLEAN /\ p \in PC
    <3>1. task[k].llm \in BOOLEAN /\ site[i].there \in BOOLEAN
      BY <1>0, <2>1 DEF Task, Site
    <3> QED BY <1>p, <3>1 DEF Missing
  <2> HIDE DEF v, p
  <2>4. task' \in [Consumer -> Task]
    BY <1>0, <2>2, <2>3, TaskGoesWith
  <2>5. (\A j \in Consumer : j # k => task'[j] = task[j]) /\ task'[k].page = g
    BY <1>0, <2>2 DEF Task
  <2>6. Paged'
    BY <1>0, <2>5, PagedStays DEF Paged, Fetched
  <2> QED BY <1>u, <2>1, <2>4, <2>6
<1>6. ASSUME Snapshot(k) \/ Permit(k) \/ Returned(k) PROVE Rows1 /\ Tasks1
  <2>1. \E p \in Fetched : Go(k, p)
    BY <1>6 DEF Snapshot, Permit, Returned, Fetched
  <2>2. task[k].pc \in Fetched /\ UNCHANGED <<run, item, site>> /\ Fetched \subseteq PC
    BY <1>6, PCs DEF Snapshot, Permit, Returned, Fetched
  <2> QED BY <1>g, <1>u, <2>1, <2>2
<1>7. ASSUME Call(k) PROVE Rows1 /\ Tasks1
  <2>1. PICK r \in {"ok", "retry", "fatal", "invalid"} : task' = [task EXCEPT ![k].pc = "returned", ![k].result = r]
    BY <1>7 DEF Call
  <2>2. task[k].pc \in Fetched /\ UNCHANGED <<run, item, site>> /\ "returned" \in PC
    BY <1>7, PCs DEF Call, Fetched
  <2> QED BY <1>0, <1>u, <2>1, <2>2, TaskGoesWith, PagedGoes
<1>8. ASSUME Record(k) PROVE Rows1 /\ Tasks1
  <2> DEFINE r == task[k].result
  <2>1. r \in {"none", "ok", "retry", "fatal", "invalid"}
    BY <1>0 DEF Task
  <2>2. UNCHANGED <<run, item, site>> \/ (~run.stop /\ Signal(r))
    BY <1>8 DEF Record, MayRecord
  <2>3. task[k].pc \in Fetched /\ \E p \in {"apply", "refuse"} : p \in PC /\ Go(k, p)
    BY <1>8, PCs DEF Record, Fetched
  <2> HIDE DEF r
  <2> QED BY <1>g, <1>u, <2>1, <2>2, <2>3, SignalType
<1>9. ASSUME Refuse(k) \/ Unclaim(k) PROVE Rows1 /\ Tasks1
  <2>1. site' = Leave(k, "not_analyzed") /\ UNCHANGED <<run, item>>
    BY <1>9 DEF Refuse, Unclaim
  <2>2. Go(k, After(k, "miss")) \/ Go(k, "release")
    BY <1>9 DEF Refuse, Unclaim
  <2>3. Leave(k, "not_analyzed") \in [Item -> Site]
    BY <1>0, LeaveType
  <2>4. Tasks1
    BY <1>g, <1>p, <2>2
  <2> QED BY <1>0, <2>1, <2>3, <2>4 DEF FuseAtLimit
<1>10. ASSUME Apply(k) PROVE Rows1 /\ Tasks1
  BY <1>0, <1>10, <1>i, ApplyType DEF Apply, FuseAtLimit
<1>11. ASSUME Miss(k) PROVE Rows1 /\ Tasks1
  <2>1. i \in Item /\ UNCHANGED <<run, item, site>>
    BY <1>11, <1>i DEF Miss
  <2>2. Go(k, "defer") \/ \E v \in Terminal : task' = [task EXCEPT ![k].pc = "finish", ![k].out = v]
    BY <1>11 DEF Miss, Terminal
  <2>3. ASSUME NEW v \in Terminal, task' = [task EXCEPT ![k].pc = "finish", ![k].out = v] PROVE Tasks1
    BY <1>0, <1>p, <2>3, TaskGoesWith, PagedGoes
  <2> QED BY <1>g, <1>p, <1>u, <2>1, <2>2, <2>3
<1>12. ASSUME Finish(k) PROVE Rows1 /\ Tasks1
  <2>1. i \in Item
    BY <1>12, <1>i DEF Finish
  <2>2. CASE ~MayGiveUp(k)
    BY <1>12, <1>e, <1>u, <2>2 DEF Finish
  <2>3. CASE MayGiveUp(k)
    <3> DEFINE s == task[k].out
               x == Settled(item[i], s)
    <3>1. /\ item' = [item EXCEPT ![i] = x]
          /\ run' = Finished([run EXCEPT !.count = Shift(1, "running", s, run.count)])
          /\ site' = IF run.stop THEN Unclaimed({i}) ELSE site
          /\ task' = [task EXCEPT ![k] = [NoTask EXCEPT !.pc = "claim"]]
      BY <1>12, <2>3 DEF Finish
    <3>2. s \in Terminal
      BY <1>0 DEF Task
    <3> HIDE DEF s
    <3>3. x \in Target
      BY <1>0, <2>1, <3>2, ItemPuts
    <3> HIDE DEF x
    <3>4. run' \in Run /\ item' \in [Item -> Target] /\ FuseAtLimit'
      BY <2>1, <3>1, <3>2, <3>3, GivenUpType
    <3>5. site' \in [Item -> Site]
      BY <1>0, <3>1, UnclaimedType
    <3> QED BY <1>c, <3>1, <3>4, <3>5
  <2> QED BY <2>2, <2>3
<1>13. ASSUME Defer(k) \/ ReleaseItem(k) PROVE Rows1 /\ Tasks1
  <2>1. i \in Item
    BY <1>13, <1>i DEF Defer, ReleaseItem
  <2>2. UNCHANGED <<run, item, site>> \/ \E w \in BOOLEAN : Return(k, w)
    BY <1>13 DEF Defer, ReleaseItem
  <2>3. Tasks1
    BY <1>13, <1>e, <1>c DEF Defer, ReleaseItem
  <2> QED BY <1>u, <2>1, <2>2, <2>3, ReturnType
<1>14. ASSUME Fuse(k) PROVE Rows1 /\ Tasks1
  <2> DEFINE r == "fatal"
  <2>1. UNCHANGED <<run, item, site>> \/ (~run.stop /\ Signal(r))
    BY <1>14 DEF Fuse, MayRecord
  <2>2. r \in {"none", "ok", "retry", "fatal", "invalid"}
    OBVIOUS
  <2>3. Go(k, After(k, "crashed"))
    BY <1>14 DEF Fuse
  <2> HIDE DEF r
  <2> QED BY <1>g, <1>p, <1>u, <2>1, <2>2, <2>3, SignalType
<1>15. ASSUME Crashed(k) PROVE Rows1 /\ Tasks1
  <2> DEFINE p == IF task[k].cut THEN "release" ELSE "finish"
  <2>1. site' = Leave(k, "failed") /\ UNCHANGED <<run, item>>
        /\ task' = [task EXCEPT ![k].pc = p, ![k].out = "failed"]
    BY <1>15 DEF Crashed
  <2>2. Leave(k, "failed") \in [Item -> Site]
    BY <1>0, LeaveType
  <2>3. p \in PC /\ p \notin Fetched /\ "failed" \in Terminal
    BY <1>p DEF Terminal
  <2> HIDE DEF p
  <2>4. Tasks1
    BY <1>0, <2>1, <2>3, TaskGoesWith, PagedGoes
  <2> QED BY <1>0, <2>1, <2>2, <2>4 DEF FuseAtLimit
<1> QED BY <1>1, <1>2, <1>3, <1>4, <1>5, <1>6, <1>7, <1>8, <1>9, <1>10, <1>11, <1>12, <1>13, <1>14, <1>15 DEF Step
LEMMA ErrorTypes ==
  ASSUME TypeInv, TaskRows, NEW k \in Consumer, StorageError(k)
  PROVE  task' \in [Consumer -> Task] /\ Paged'
<1> DEFINE x == task[k]
<1>0. task \in [Consumer -> Task] /\ Paged
  BY DEF TypeInv, TypeOK
<1>1. ASSUME NEW K, task' = [CancelAll(Of(k), K) EXCEPT ![k] = NoTask] PROVE task' \in [Consumer -> Task] /\ Paged'
  <2> DEFINE f == CancelAll(Of(k), K)
  <2>1. f \in [Consumer -> Task]
    BY <1>0, InterruptedType DEF CancelAll
  <2>2. \A j \in Consumer : f[j] = task[j] \/ \E lost : f[j] = Interrupted(j, lost)
    BY DEF CancelAll
  <2>3. NoTask \in Task /\ NoTask.pc = "ended"
    BY NoTaskType DEF NoTask
  <2> HIDE DEF f
  <2>4. task' \in [Consumer -> Task] /\ \A j \in Consumer : task'[j] = IF j = k THEN NoTask ELSE f[j]
    BY <1>1, <2>1, <2>3 DEF f
  <2>5. ASSUME NEW j \in Consumer
        PROVE  \/ task'[j].pc \notin Fetched
               \/ task[j].pc \in Fetched /\ task'[j].page = task[j].page
               \/ task'[j].page \in {"complete", "failed"}
    <3>1. CASE j = k
      <4>1. task'[j].pc = "ended"
        BY <2>3, <2>4, <3>1
      <4> QED BY <4>1 DEF Fetched
    <3>2. CASE j # k /\ f[j] = task[j]
      BY <1>0, <2>4, <3>2 DEF Paged, Fetched
    <3>3. ASSUME j # k, NEW lost, f[j] = Interrupted(j, lost)
          PROVE  task'[j].pc \notin Fetched \/ (task[j].pc \in Fetched /\ task'[j].page = task[j].page)
      BY <1>0, <2>4, <3>3, InterruptedPage
    <3> QED BY <2>2, <3>1, <3>2, <3>3
  <2> QED BY <1>0, <2>4, <2>5, PagedStays
<1>2. ASSUME NEW p \in PC, p \notin Fetched, Go(k, p) PROVE task' \in [Consumer -> Task] /\ Paged'
  BY <1>0, <1>2, GoType
<1>3. ASSUME NEW p \in PC, p \notin Fetched,
             \/ task' = [task EXCEPT ![k].pc = p, ![k].out = "failed"]
             \/ task' = [task EXCEPT ![k].out = "failed", ![k].pc = p]
      PROVE  task' \in [Consumer -> Task] /\ Paged'
  <2> DEFINE v == "failed"
  <2>1. v \in Terminal
    BY DEF Terminal
  <2>2. \/ task' = [task EXCEPT ![k].pc = p, ![k].out = v]
        \/ task' = [task EXCEPT ![k].out = v, ![k].pc = p]
    BY <1>3
  <2> HIDE DEF v
  <2>3. CASE task' = [task EXCEPT ![k].pc = p, ![k].out = v]
    BY <1>0, <1>3, <2>1, <2>3, TaskGoesWith, PagedGoes
  <2>4. CASE task' = [task EXCEPT ![k].out = v, ![k].pc = p]
    BY <1>0, <1>3, <2>1, <2>4, TaskGoesWith, PagedGoes
  <2> QED BY <2>2, <2>3, <2>4
<1>4. ASSUME End(k) PROVE task' \in [Consumer -> Task] /\ Paged'
  BY <1>0, <1>4, NewTask DEF End
<1>5. /\ {"finish", "fuse", "crashed", "release"} \subseteq PC \ Fetched
      /\ After(k, "crashed") \in PC \ Fetched
  BY PCs DEF Fetched, After
<1>6. \/ \E K : task' = [CancelAll(Of(k), K) EXCEPT ![k] = NoTask]
      \/ \E p \in {"fuse", "crashed"} : Go(k, p)
      \/ \E p \in {"finish", "release", After(k, "crashed")} :
           \/ task' = [task EXCEPT ![k].pc = p, ![k].out = "failed"]
           \/ task' = [task EXCEPT ![k].out = "failed", ![k].pc = p]
      \/ End(k)
  BY DEF StorageError
<1> QED BY <1>1, <1>2, <1>3, <1>4, <1>5, <1>6

\* What coordinators do to the consumers of their process.
LEMMA CoordTasks ==
  ASSUME TypeInv, NEW c \in Coord, Acquire(c) \/ Crash(c) \/ Stop(c)
  PROVE  task' \in [Consumer -> Task] /\ Paged'
<1>0. task \in [Consumer -> Task] /\ Paged
  BY DEF TypeInv, TypeOK
<1> DEFINE cl == [NoTask EXCEPT !.pc = "claim"]
<1>1. NoTask \in Task /\ cl \in Task /\ NoTask.pc = "ended" /\ cl.pc = "claim"
  BY NoTaskType DEF NoTask
<1>2. CASE Acquire(c) \/ Crash(c)
  <2>1. \/ UNCHANGED task
        \/ task' = [k \in Consumer |-> IF Of(k) = c THEN cl ELSE task[k]]
        \/ task' = [k \in Consumer |-> IF Of(k) = c THEN NoTask ELSE task[k]]
    BY <1>2 DEF Acquire, Crash
  <2> HIDE DEF cl
  <2>2. task' \in [Consumer -> Task] /\ \A j \in Consumer : task'[j] \in {task[j], cl, NoTask}
    BY <1>0, <1>1, <2>1
  <2>3. Paged'
    BY <1>0, <1>1, <2>2 DEF Paged
  <2> QED BY <2>2, <2>3
<1>3. CASE Stop(c)
  <2>1. PICK K \in SUBSET Consumer : task' = CancelAll(c, K)
    BY <1>3 DEF Stop
  <2>2. task' \in [Consumer -> Task]
    BY <1>0, <2>1, InterruptedType DEF CancelAll
  <2>3. \A j \in Consumer : task'[j] = task[j] \/ \E lost : task'[j] = Interrupted(j, lost)
    BY <2>1 DEF CancelAll
  <2>4. Paged'
    <3>1. ASSUME NEW j \in Consumer
          PROVE  \/ task'[j].pc \notin Fetched
                 \/ task[j].pc \in Fetched /\ task'[j].page = task[j].page
                 \/ task'[j].page \in {"complete", "failed"}
      BY <1>0, <2>3, InterruptedPage DEF Paged, Fetched
    <3> QED BY <1>0, <3>1, PagedStays
  <2> QED BY <2>2, <2>4
<1> QED BY <1>2, <1>3

LEMMA CoordRows ==
  ASSUME TypeInv, NEW c \in Coord, Start(c) \/ Resume(c) \/ Acquire(c) \/ Release(c) \/ Stop(c) \/ Crash(c)
  PROVE  coord' \in [Coord -> Coordinator]
<1>0. coord \in [Coord -> Coordinator]
  BY DEF TypeInv, TypeOK
<1>1. Unused(RunTokens) \in Token
  BY RunTokensLeft
<1>2. ASSUME NEW p \in {"gone", "acquire", "work", "stop"} PROVE [coord EXCEPT ![c].pc = p] \in [Coord -> Coordinator]
  <2> DEFINE x == [coord[c] EXCEPT !.pc = p]
  <2>1. x \in Coordinator
    BY <1>0 DEF Coordinator
  <2>2. [coord EXCEPT ![c].pc = p] = [coord EXCEPT ![c] = x]
    BY <1>0
  <2> HIDE DEF x
  <2> QED BY <1>0, <2>1, <2>2
<1>3. ASSUME NEW p \in {"gone", "acquire", "work"}, NEW t \in Tokens
      PROVE  [coord EXCEPT ![c] = [pc |-> p, token |-> t]] \in [Coord -> Coordinator]
  BY <1>0 DEF Coordinator, Tokens
<1>4. Unused(RunTokens) \in Tokens /\ None \in Tokens
  BY <1>1 DEF Tokens
<1>5. ASSUME Start(c) PROVE coord' \in [Coord -> Coordinator]
  BY <1>2, <1>5 DEF Start
<1>6. ASSUME Resume(c) \/ Stop(c) PROVE coord' \in [Coord -> Coordinator]
  BY <1>2, <1>6 DEF Resume, Stop
<1>7. ASSUME Acquire(c) PROVE coord' \in [Coord -> Coordinator]
  BY <1>2, <1>3, <1>4, <1>7 DEF Acquire
<1>8. ASSUME Crash(c) PROVE coord' \in [Coord -> Coordinator]
  BY <1>3, <1>4, <1>8 DEF Crash
<1>9. ASSUME Release(c) PROVE coord' \in [Coord -> Coordinator]
  <2> DEFINE p == IF coord[c].pc = "stop" THEN "gone" ELSE "acquire"
  <2>1. coord' = [coord EXCEPT ![c] = [pc |-> p, token |-> None]]
    BY <1>9 DEF Release
  <2>2. p \in {"gone", "acquire", "work"}
    OBVIOUS
  <2> HIDE DEF p
  <2> QED BY <1>3, <1>4, <2>1, <2>2
<1> QED BY <1>5, <1>6, <1>7, <1>8, <1>9

LEMMA ReleaseType ==
  ASSUME TypeInv, NEW c \in Coord, Release(c)
  PROVE  run' \in Run /\ item' \in [Item -> Target] /\ site' \in [Item -> Site] /\ FuseAtLimit'
<1> DEFINE H == {i \in In(item, "running") : item[i].token = coord[c].token}
           n == Cardinality(H)
           fail == Shift(n, "running", "failed", FailQueuedCount(item, run.count))
           back == Shift(n, "running", "queued", run.count)
<1>0. run \in Run /\ item \in [Item -> Target] /\ site \in [Item -> Site] /\ FuseAtLimit
  BY DEF TypeInv, TypeOK
<1>1. fail \in [Active \cup Terminal -> Int] /\ back \in [Active \cup Terminal -> Int]
  <2>1. n \in Int
    BY SizeInt DEF In
  <2>2. run.count \in [Active \cup Terminal -> Int] /\ {"queued", "running", "failed"} \subseteq Active \cup Terminal
    BY <1>0 DEF Run, Active, Terminal
  <2> HIDE DEF n
  <2>3. FailQueuedCount(item, run.count) \in [Active \cup Terminal -> Int]
    BY <2>2, CountTypes
  <2> QED BY <2>1, <2>2, <2>3, CountTypes
<1>2. CASE ~Holds(c)
  BY <1>0, <1>2 DEF Release, FuseAtLimit
<1>3. CASE Holds(c) /\ run.stop
  <2>1. /\ item' = [i \in Item |-> IF i \in H THEN Settled(item[i], "failed") ELSE FailQueued(item)[i]]
        /\ run' = Finished([run EXCEPT !.count = fail])
        /\ site' = Unclaimed(H \cup In(item, "queued"))
    BY <1>3 DEF Release
  <2> HIDE DEF fail, H
  <2>2. run' \in Run /\ run'.stop = run.stop /\ run'.failures = run.failures
    BY <1>0, <1>1, <2>1, CountedType
  <2>3. item' \in [Item -> Target]
    BY <1>0, <2>1, FailQueuedType, ItemPuts DEF Terminal
  <2> QED BY <1>0, <2>1, <2>2, <2>3, UnclaimedType DEF FuseAtLimit
<1>4. CASE Holds(c) /\ ~run.stop
  <2> DEFINE s == "queued"
             q == [run EXCEPT !.state = s, !.token = None, !.live = FALSE]
  <2>1. run' = [run EXCEPT !.state = "queued", !.token = None, !.live = FALSE, !.count = back]
    BY <1>4 DEF Release
  <2>2. item' = [i \in Item |-> IF i \in H THEN Requeued(item[i]) ELSE item[i]] /\ UNCHANGED site
    BY <1>4 DEF Release
  <2> HIDE DEF back, H
  <2>3. run' = [q EXCEPT !.count = back]
    BY <2>1
  <2>4. q \in Run /\ q.stop = run.stop /\ q.failures = run.failures
    <3>1. None \in Tokens
      BY DEF Tokens
    <3>2. q \in Run
      BY <1>0, <3>1, RunPuts
    <3> QED BY <1>0, <3>2 DEF Run
  <2> HIDE DEF q
  <2>5. run' \in Run /\ run'.stop = run.stop /\ run'.failures = run.failures
    BY <1>1, <2>3, <2>4, CountedType
  <2> QED BY <1>0, <2>2, <2>5, ItemPuts DEF FuseAtLimit
<1> QED BY <1>2, <1>3, <1>4
\* What users, other analyses and clocks do.
LEMMA WorldTypes ==
  ASSUME TypeInv, NEW i \in Item,
         LapseItem(i) \/ Wake(i) \/ Age(i) \/ Edit(i) \/ Delete(i) \/ ForeignClaim(i) \/ ForeignEnd(i)
  PROVE  item' \in [Item -> Target] /\ site' \in [Item -> Site]
<1> DEFINE x == item[i]
           y == site[i]
<1>0. item \in [Item -> Target] /\ site \in [Item -> Site]
  BY DEF TypeInv, TypeOK
<1>1. x \in Target /\ y \in Site
  BY <1>0
<1>s. ASSUME NEW v \in Site, site' = [site EXCEPT ![i] = v] PROVE site' \in [Item -> Site]
  BY <1>0, <1>s
<1>t. ASSUME NEW v \in Target, item' = [item EXCEPT ![i] = v] PROVE item' \in [Item -> Target]
  BY <1>0, <1>t
<1>2. CASE LapseItem(i) \/ Wake(i)
  <2>1. UNCHANGED site /\ \/ item' = [item EXCEPT ![i] = [x EXCEPT !.live = FALSE]]
                          \/ item' = [item EXCEPT ![i] = [x EXCEPT !.waits = FALSE]]
    BY <1>2 DEF LapseItem, Wake
  <2>2. [x EXCEPT !.live = FALSE] \in Target /\ [x EXCEPT !.waits = FALSE] \in Target
    BY <1>1, ItemPuts
  <2> HIDE DEF x
  <2> QED BY <1>0, <1>t, <2>1, <2>2
<1>3. CASE Age(i)
  <2>1. UNCHANGED item /\ site' = [site EXCEPT ![i] = [y EXCEPT !.stale = TRUE]]
    BY <1>3 DEF Age
  <2>2. [y EXCEPT !.stale = TRUE] \in Site
    BY <1>1, SitePuts
  <2> HIDE DEF y
  <2> QED BY <1>0, <1>s, <2>1, <2>2
<1>4. CASE Edit(i)
  <2> DEFINE a == [y EXCEPT !.moved = TRUE]
             s == "not_analyzed"
             z == [y EXCEPT !.moved = TRUE, !.status = s, !.stamp = None, !.stale = FALSE, !.page = FALSE,
                            !.llm = "missing"]
  <2>1. UNCHANGED item /\ (site' = [site EXCEPT ![i] = a] \/ site' = [site EXCEPT ![i] = z])
    BY <1>4 DEF Edit
  <2>2. a \in Site
    BY <1>1, SitePuts
  <2>3. z \in Site
    <3> HIDE DEF y
    <3> QED BY <1>1 DEF Site
  <2> HIDE DEF a, z, y
  <2> QED BY <1>0, <1>s, <2>1, <2>2, <2>3
<1>5. CASE Delete(i)
  <2> DEFINE z == [y EXCEPT !.there = FALSE, !.status = "not_analyzed", !.stamp = None, !.stale = FALSE]
  <2>1. UNCHANGED item /\ site' = [site EXCEPT ![i] = z]
    BY <1>5 DEF Delete
  <2>3. z \in Site
    <3> HIDE DEF y
    <3> QED BY <1>1 DEF Site
  <2> HIDE DEF z, y
  <2> QED BY <1>0, <1>s, <2>1, <2>3
<1>6. CASE ForeignClaim(i)
  <2> DEFINE z == [y EXCEPT !.status = "pending", !.stamp = Foreign, !.stale = FALSE]
  <2>1. UNCHANGED item /\ site' = [site EXCEPT ![i] = z]
    BY <1>6 DEF ForeignClaim
  <2>3. z \in Site
    BY <1>1, SitePuts
  <2> HIDE DEF z, y
  <2> QED BY <1>0, <1>s, <2>1, <2>3
<1>7. CASE ForeignEnd(i)
  <2>1. UNCHANGED item
    BY <1>7 DEF ForeignEnd
  <2>2. PICK s \in {"complete", "failed", "not_analyzed"}, p \in BOOLEAN, m \in BOOLEAN, v \in BOOLEAN :
          site' = [site EXCEPT ![i] = [site[i] EXCEPT !.status = s, !.stamp = None, !.stale = FALSE,
                     !.page = @ \/ p, !.llm = IF m THEN "settled" ELSE @, !.moved = @ \/ v]]
    BY ZenonT(60), <1>7 DEF ForeignEnd
  <2> DEFINE q == y.page \/ p
             u == IF m THEN "settled" ELSE y.llm
             w == y.moved \/ v
             z == [y EXCEPT !.status = s, !.stamp = None, !.stale = FALSE, !.page = q, !.llm = u, !.moved = w]
  <2> DEFINE r == [y EXCEPT !.status = s, !.stamp = None, !.stale = FALSE,
                            !.page = @ \/ p, !.llm = IF m THEN "settled" ELSE @, !.moved = @ \/ v]
  <2>6. site' = [site EXCEPT ![i] = r]
    BY <2>2
  <2>3. r = z
    <3> HIDE DEF y
    <3> QED BY <1>1 DEF Site
  <2>4. q \in BOOLEAN /\ w \in BOOLEAN /\ u \in {"missing", "old", "settled"}
    <3> HIDE DEF y
    <3> QED BY <1>1 DEF Site
  <2> HIDE DEF q, u, w, y
  <2>5. z \in Site
    BY <1>1, <2>4 DEF Site
  <2> HIDE DEF z, r
  <2> QED BY <1>0, <1>s, <2>1, <2>3, <2>5, <2>6
<1> QED BY <1>2, <1>3, <1>4, <1>5, <1>6, <1>7

LEMMA StartType ==
  ASSUME TypeInv, NEW c \in Coord, Start(c)
  PROVE  run' \in Run /\ item' \in [Item -> Target] /\ FuseAtLimit'
<1>1. PICK T \in SUBSET Item :
        /\ item' = [i \in Item |-> IF i \in T THEN NewItem(Mode = "full" /\ Missing(i)) ELSE NoItem]
        /\ run' = [NoRun EXCEPT !.state = IF T = {} THEN "completed" ELSE "queued",
                                !.count["queued"] = Cardinality(T), !.total = Cardinality(T)]
  BY DEF Start
<1> DEFINE n == Cardinality(T)
           s == IF T = {} THEN "completed" ELSE "queued"
           d == [t \in Active \cup Terminal |-> IF t = "queued" THEN n ELSE 0]
<1>2. n \in Int
  BY SizeInt
<1>3. s \in {"completed", "queued"} /\ d \in [Active \cup Terminal -> Int]
  BY <1>2
<1>4. run' = [state |-> s, token |-> None, live |-> FALSE, stop |-> FALSE, cooling |-> FALSE,
              failures |-> 0, count |-> d, total |-> n]
  <2>1. NoRun.count = [t \in Active \cup Terminal |-> 0] /\ [NoRun.count EXCEPT !["queued"] = n] = d
    BY DEF NoRun, Active
  <2>2. run' = [NoRun EXCEPT !.state = s, !.count = [NoRun.count EXCEPT !["queued"] = n], !.total = n]
    BY <1>1 DEF NoRun
  <2> HIDE DEF s, n, d
  <2> QED BY <2>1, <2>2 DEF NoRun
<1> HIDE DEF s, n, d
<1>5. run' \in Run /\ FuseAtLimit'
  <2>1. 0 \in 0..MaxFailures /\ 0 < MaxFailures
    BY BackfillAssumption
  <2> QED BY <1>2, <1>3, <1>4, <2>1 DEF Run, Active, FuseAtLimit
<1>6. \A i \in Item : (Mode = "full" /\ Missing(i)) \in BOOLEAN
  BY DEF Missing
<1>7. \A v \in BOOLEAN : NewItem(v) \in Target
  BY DEF NewItem, Target, Active
<1>8. NoItem \in Target
  BY DEF NoItem, NewItem, Target
<1> QED BY <1>1, <1>5, <1>6, <1>7, <1>8

LEMMA TypeNext ==
  ASSUME TypeInv, TaskRows, [Next]_vars
  PROVE  TypeInv'
<1>0. /\ run \in Run /\ item \in [Item -> Target] /\ site \in [Item -> Site]
      /\ coord \in [Coord -> Coordinator] /\ task \in [Consumer -> Task] /\ Paged /\ FuseAtLimit
  BY DEF TypeInv, TypeOK
<1>1. /\ UNCHANGED run => run' \in Run /\ FuseAtLimit'
      /\ UNCHANGED item => item' \in [Item -> Target]
      /\ UNCHANGED site => site' \in [Item -> Site]
      /\ UNCHANGED coord => coord' \in [Coord -> Coordinator]
      /\ UNCHANGED task => task' \in [Consumer -> Task] /\ Paged'
  BY <1>0 DEF FuseAtLimit, Paged
<1> USE DEF TypeInv, TypeOK
<1>2. ASSUME NEW c \in Coord, Start(c) \/ Resume(c) PROVE TypeInv'
  <2>1. coord' \in [Coord -> Coordinator] /\ UNCHANGED <<site, task>>
    BY <1>2, CoordRows DEF Start, Resume
  <2>2. run' \in Run /\ item' \in [Item -> Target] /\ FuseAtLimit'
    BY <1>1, <1>2, StartType DEF Resume
  <2> QED BY <1>1, <2>1, <2>2
<1>3. ASSUME NEW c \in Coord, Acquire(c) PROVE TypeInv'
  <2>1. coord' \in [Coord -> Coordinator] /\ task' \in [Consumer -> Task] /\ Paged' /\ UNCHANGED <<item, site>>
    BY <1>3, CoordRows, CoordTasks DEF Acquire
  <2>2. run' \in Run /\ FuseAtLimit'
    <3> DEFINE t == Unused(RunTokens)
               s == "running"
               q == [run EXCEPT !.state = s, !.token = t, !.live = TRUE]
    <3>1. UNCHANGED run \/ run' = q
      BY <1>3 DEF Acquire
    <3>2. t \in Tokens
      BY RunTokensLeft DEF Tokens
    <3> HIDE DEF t
    <3>3. q \in Run
      BY <1>0, <3>2, RunPuts
    <3>4. q.stop = run.stop /\ q.failures = run.failures
      BY <1>0 DEF Run
    <3> HIDE DEF q
    <3> QED BY <1>0, <1>1, <3>1, <3>3, <3>4 DEF FuseAtLimit
  <2> QED BY <1>1, <2>1, <2>2
<1>4. ASSUME NEW c \in Coord, Release(c) PROVE TypeInv'
  <2>1. coord' \in [Coord -> Coordinator] /\ UNCHANGED task
    BY <1>4, CoordRows DEF Release
  <2> QED BY <1>1, <1>4, <2>1, ReleaseType
<1>5. ASSUME NEW c \in Coord, Stop(c) \/ Crash(c) PROVE TypeInv'
  <2>1. coord' \in [Coord -> Coordinator] /\ task' \in [Consumer -> Task] /\ Paged' /\ UNCHANGED <<run, item, site>>
    BY <1>5, CoordRows, CoordTasks DEF Stop, Crash
  <2> QED BY <1>1, <2>1
<1>6. ASSUME NEW k \in Consumer, Step(k) PROVE TypeInv'
  <2>1. UNCHANGED coord
    BY <1>6 DEF Step, ClaimNext, Needs, Intent, ClaimSite, Fetch, Snapshot, Permit, Call, Returned, Record,
                Refuse, Apply, Miss, Finish, Defer, ReleaseItem, Unclaim, Fuse, Crashed
  <2> QED BY <1>1, <1>6, <2>1, StepTypes
<1>7. ASSUME NEW k \in Consumer, HeartbeatEnds(k) PROVE TypeInv'
  <2>1. UNCHANGED <<run, item, site, coord>>
    BY <1>7 DEF HeartbeatEnds
  <2>2. PICK lost \in BOOLEAN : task' = [task EXCEPT ![k] = Interrupted(k, lost)]
    BY <1>7 DEF HeartbeatEnds
  <2> DEFINE r == Interrupted(k, lost)
  <2>3. r \in Task /\ (r.pc \notin Fetched \/ (task[k].pc \in Fetched /\ r.page = task[k].page))
    BY <1>0, InterruptedType, InterruptedPage
  <2> HIDE DEF r
  <2>4. task' = [task EXCEPT ![k] = r]
    BY <2>2 DEF r
  <2>5. Paged'
    BY <1>0, <2>3, <2>4, PagedMoves
  <2> QED BY <1>0, <1>1, <2>1, <2>3, <2>4, <2>5
<1>8. ASSUME NEW k \in Consumer, StorageError(k) PROVE TypeInv'
  <2>1. UNCHANGED <<run, item, site, coord>>
    BY <1>8 DEF StorageError
  <2> QED BY <1>1, <1>8, <2>1, ErrorTypes
<1>9. ASSUME NEW i \in Item, \/ LapseItem(i) \/ Wake(i) \/ Age(i) \/ Edit(i) \/ Delete(i)
                             \/ ForeignClaim(i) \/ ForeignEnd(i)
      PROVE  TypeInv'
  <2>1. UNCHANGED <<run, coord, task>>
    BY <1>9 DEF LapseItem, Wake, Age, Edit, Delete, ForeignClaim, ForeignEnd
  <2> QED BY <1>1, <1>9, <2>1, WorldTypes
<1>10. ASSUME Lapse \/ CoolDown PROVE TypeInv'
  <2>1. UNCHANGED <<site, coord, task>>
    BY <1>10 DEF Lapse, CoolDown
  <2>2. \/ run' = [run EXCEPT !.live = FALSE] /\ item' = [i \in Item |-> [item[i] EXCEPT !.live = FALSE]]
        \/ run' = [run EXCEPT !.cooling = FALSE] /\ UNCHANGED item
    BY <1>10 DEF Lapse, CoolDown
  <2>3. [run EXCEPT !.live = FALSE] \in Run /\ [run EXCEPT !.cooling = FALSE] \in Run
        /\ \A i \in Item : [item[i] EXCEPT !.live = FALSE] \in Target
    BY <1>0, RunPuts, ItemPuts
  <2>4. run'.stop = run.stop /\ run'.failures = run.failures
    BY <1>0, <2>2 DEF Run
  <2>5. run' \in Run /\ item' \in [Item -> Target]
    BY <1>0, <2>2, <2>3
  <2> QED BY <1>0, <1>1, <2>1, <2>4, <2>5 DEF FuseAtLimit
<1>11. CASE UNCHANGED vars
  <2>1. UNCHANGED <<run, item, site, coord, task>>
    BY <1>11 DEF vars
  <2> QED BY <1>1, <2>1
<1> QED BY <1>2, <1>3, <1>4, <1>5, <1>6, <1>7, <1>8, <1>9, <1>10, <1>11 DEF Next

LEMMA TypeInit ==
  ASSUME Init
  PROVE  TypeInv
<1>1. run \in Run /\ FuseAtLimit
  <2>1. 0 \in 0..MaxFailures /\ 0 < MaxFailures
    BY BackfillAssumption
  <2> QED BY <2>1 DEF Init, NoRun, Run, FuseAtLimit
<1>2. item \in [Item -> Target]
  BY DEF Init, NoItem, NewItem, Target
<1>3. site \in [Item -> Site]
  BY DEF Init, AtRest, Site
<1>4. coord \in [Coord -> Coordinator]
  BY DEF Init, Coordinator
<1>5. task \in [Consumer -> Task] /\ \A k \in Consumer : task[k].pc = "ended"
  BY NoTaskType DEF Init, NoTask
<1> QED BY <1>1, <1>2, <1>3, <1>4, <1>5 DEF TypeInv, TypeOK, Paged

\* Rows, leases, claims and tasks keep their types: the counters stay integers,
\* failures never pass the fuse, and no analysis stores a status no page has.
THEOREM Types == Spec => []TypeOK
<1>1. Init => BackfillInv /\ TypeInv
  BY InitInv, TypeInit
<1>2. BackfillInv /\ TypeInv /\ [Next]_vars => (BackfillInv /\ TypeInv)'
  BY NextInv, TypeNext DEF BackfillInv
<1>3. TypeInv => TypeOK
  BY DEF TypeInv
<1> QED BY <1>1, <1>2, <1>3, PTL DEF Spec

-----------------------------------------------------------------------------
(* Claims on Sites. *)

Idle   == {"ended", "claim"}
Early  == {"needs", "intent", "site"}
AtWork == Working \cup {"fuse", "crashed"}
Late   == {"miss", "defer", "finish"}

\* The claim on a Site is the backfill's, and nobody changed the Site.
Ours(x) == x.status = "pending" /\ x.stamp \in Token /\ ~x.moved

\* The item knows the claim, which is on a Site that is there and wants an analysis.
Known(i) == Ours(site[i]) =>
  item[i].claimed = site[i].stamp /\ site[i].there /\ (~site[i].page \/ site[i].llm # "settled")

\* A task at work that still holds its item has the claim of the Site.
HeldBy(k) == task[k].pc \in AtWork /\ HoldsItem(k) /\ Ours(site[task[k].item]) =>
  task[k].stamp = site[task[k].item].stamp

\* A task that is about to claim finds an earlier claim only after a fault, and
\* may take it over.
FoundBy(k) == task[k].pc \in Early /\ HoldsItem(k) /\ Ours(site[task[k].item]) =>
  run.stop \/ (faults >= 1 /\ (Holds(Of(k)) => run.live /\ item[task[k].item].live))

\* A task that gives its item up leaves no claim on the Site, unless the run was
\* stopped, which gives it back, or is not its process's any more.
LeftBy(k) == task[k].pc \in Late /\ HoldsItem(k) /\ Ours(site[task[k].item]) => run.stop \/ ~Holds(Of(k))

\* Until the first fault items at work are held by tasks of the process that
\* holds the run, and only they have claims.
Calm == faults = 0 /\ ~run.stop
Attended(i) == LET k == item[i].by IN
  /\ k \in Consumer /\ item[i].live /\ task[k].item = i /\ task[k].pc \notin Idle
  /\ item[i].token = coord[Of(k)].token /\ Holds(Of(k)) /\ run.live
CalmWork == Calm =>
  /\ \A i \in In(item, "running") : Attended(i)
  /\ \A i \in Item : Ours(site[i]) => item[i].state = "running" /\ task[item[i].by].pc \in Working
  /\ run.live => \E c \in Coord : coord[c].token = run.token

\* A run is live while a process works on it, two processes never have one token.
RunLeases ==
  /\ run.live => run.state = "running"
  /\ run.state = "running" => run.token \in Token
  /\ \A c, d \in Coord : coord[c].token = coord[d].token /\ coord[c].token # None => c = d

Claiming == \* up to one fault
  /\ RunLeases /\ CalmWork
  /\ run.state = "none" => \A i \in Item : ~Ours(site[i])
  /\ \A i \in Item : Known(i)
  /\ \A k \in Consumer :
       /\ HeldBy(k) /\ FoundBy(k) /\ LeftBy(k)
       /\ task[k].pc \in Idle => task[k].item = None
       /\ task[k].pc \in {"fuse", "crashed"} => faults >= 1

ClaimInv == faults \in Nat /\ (faults <= 1 => Claiming)

-----------------------------------------------------------------------------
(* What a step does to a task, to what it holds, and to the claim on a Site. *)

\* r is the next row of task k.
Moves(k, r) ==
  /\ r.pc \in Idle => r.item = None
  /\ r.pc \notin Idle => task[k].pc \notin Idle /\ r.item = task[k].item
  /\ r.pc \in AtWork => task[k].pc \in AtWork /\ r.stamp = task[k].stamp
  /\ r.pc \in {"fuse", "crashed"} => faults' >= 1
  /\ r.pc \in Early => task[k].pc \in Early
  /\ r.pc \in Late =>
       task[k].pc \in Late \/ (HoldsItem(k) /\ Ours(site'[r.item]) => run.stop \/ ~Holds(Of(k)))

HoldStays(k) == task'[k].pc \notin Idle =>
  /\ Holds(Of(k))' => Holds(Of(k)) /\ (run'.live = run.live \/ faults' > faults)
  /\ HoldsItem(k)' =>
       /\ HoldsItem(k)
       /\ item'[task[k].item].live = item[task[k].item].live \/ faults' > faults \/ ~Holds(Of(k))'

OwnStays(i) == Ours(site'[i]) =>
  /\ Ours(site[i]) /\ site'[i].stamp = site[i].stamp /\ item'[i].claimed = item[i].claimed
  /\ site'[i].there = site[i].there /\ site'[i].page = site[i].page /\ site'[i].llm = site[i].llm

\* Time, faults and the fuse only go forward; the rows of the tasks are rows.
Forward == /\ faults \in Nat /\ faults' \in Nat /\ faults <= faults' /\ faults' <= 1
           /\ run.stop => run'.stop
           /\ \A k \in Consumer : task[k].pc \notin Idle => task[k].item \in Item

LEMMA TaskStays ==
  ASSUME Claiming, Forward, NEW k \in Consumer, Moves(k, task'[k]), HoldStays(k),
         task'[k].pc \notin Idle /\ HoldsItem(k)' => OwnStays(task[k].item)
  PROVE  /\ HeldBy(k)' /\ FoundBy(k)' /\ LeftBy(k)'
         /\ (task[k].pc \in Idle => task[k].item = None)'
         /\ (task[k].pc \in {"fuse", "crashed"} => faults >= 1)'
<1> DEFINE i == task[k].item
<1>0. HeldBy(k) /\ FoundBy(k) /\ LeftBy(k)
  BY DEF Claiming
<1>1. task'[k].pc \notin Idle =>
        /\ task'[k].item = i /\ i \in Item
        /\ HoldsItem(k)' => HoldsItem(k)
        /\ HoldsItem(k)' /\ Ours(site'[i]) => Ours(site[i]) /\ site'[i].stamp = site[i].stamp
  <2> SUFFICES ASSUME task'[k].pc \notin Idle
               PROVE  /\ task'[k].item = i /\ i \in Item
                      /\ HoldsItem(k)' => HoldsItem(k)
                      /\ HoldsItem(k)' /\ Ours(site'[i]) => Ours(site[i]) /\ site'[i].stamp = site[i].stamp
    OBVIOUS
  <2>1. task'[k].item = i /\ i \in Item
    BY DEF Moves, Forward
  <2>2. HoldsItem(k)' => HoldsItem(k)
    BY DEF HoldStays
  <2>3. HoldsItem(k)' /\ Ours(site'[i]) => Ours(site[i]) /\ site'[i].stamp = site[i].stamp
    BY DEF OwnStays
  <2> QED BY <2>1, <2>2, <2>3
<1>2. AtWork \cap Idle = {} /\ Early \cap Idle = {} /\ Late \cap Idle = {}
  BY DEF AtWork, Early, Late, Idle, Working
<1>3. HeldBy(k)'
  <2> SUFFICES ASSUME task'[k].pc \in AtWork, HoldsItem(k)', Ours(site'[task'[k].item])
               PROVE  task'[k].stamp = site'[task'[k].item].stamp
    BY DEF HeldBy
  <2>1. task[k].pc \in AtWork /\ task'[k].stamp = task[k].stamp /\ task'[k].item = i
    BY <1>1, <1>2 DEF Moves
  <2>2. task'[k].pc \notin Idle
    BY <1>2
  <2>3. HoldsItem(k)
    BY <1>1, <2>2
  <2>4. Ours(site[i]) /\ site'[i].stamp = site[i].stamp
    BY <1>1, <2>2, <2>1
  <2> HIDE DEF i
  <2> QED BY <1>0, <2>1, <2>3, <2>4 DEF HeldBy, i
<1>4. FoundBy(k)'
  <2> SUFFICES ASSUME task'[k].pc \in Early, HoldsItem(k)', Ours(site'[task'[k].item]), ~run'.stop
               PROVE  faults' >= 1 /\ (Holds(Of(k))' => run'.live /\ item'[task'[k].item].live)
    BY DEF FoundBy
  <2>1. task[k].pc \in Early /\ task'[k].item = i /\ HoldsItem(k) /\ Ours(site[i]) /\ ~run.stop
    BY <1>1, <1>2 DEF Moves, Forward
  <2>2. faults >= 1 /\ (Holds(Of(k)) => run.live /\ item[i].live)
    BY <1>0, <2>1 DEF FoundBy
  <2>3. ~(faults' > faults) /\ faults' >= 1
    BY <2>2 DEF Forward
  <2> QED BY <1>2, <2>1, <2>2, <2>3 DEF HoldStays
<1>5. LeftBy(k)'
  <2> SUFFICES ASSUME task'[k].pc \in Late, HoldsItem(k)', Ours(site'[task'[k].item])
               PROVE  run'.stop \/ ~Holds(Of(k))'
    BY DEF LeftBy
  <2>1. task'[k].item = i /\ HoldsItem(k) /\ Ours(site[i]) /\ Ours(site'[i])
    BY <1>1, <1>2
  <2>2. run.stop \/ ~Holds(Of(k))
    BY <1>0, <2>1 DEF LeftBy, Moves
  <2> QED BY <1>2, <2>2 DEF Forward, HoldStays
<1>6. /\ (task[k].pc \in Idle => task[k].item = None)'
      /\ (task[k].pc \in {"fuse", "crashed"} => faults >= 1)'
  BY DEF Moves
<1> QED BY <1>3, <1>4, <1>5, <1>6

LEMMA KnownStays ==
  ASSUME NEW i \in Item, Known(i), OwnStays(i)
  PROVE  Known(i)'
BY DEF Known, OwnStays

\* A task that stays.
LEMMA MovesNowhere ==
  ASSUME Claiming, Forward, NEW k \in Consumer, task'[k] = task[k]
  PROVE  Moves(k, task'[k])
<1>1. task[k].pc \in {"fuse", "crashed"} => faults' >= 1
  BY DEF Claiming, Forward
<1> QED BY <1>1 DEF Claiming, Moves

SameLease == run'.state = run.state /\ run'.token = run.token /\ run'.live = run.live
Closes == /\ run'.state \notin {"running", "none"} /\ ~run'.live
          /\ \A i \in Item : item'[i].state # "running"
SameHold(i) == /\ item'[i].state = item[i].state /\ item'[i].by = item[i].by
               /\ item'[i].token = item[i].token /\ item'[i].live = item[i].live
ItemStep(i) == item'[i].state # "running" \/ SameHold(i)

SameTokens == \A c \in Coord : coord'[c].token = coord[c].token

\* While all is calm, an item that stays at work keeps its task, which stays at
\* work on its claim; what leaves work leaves no claim.
CalmTask(i, r) == r.pc \notin Idle /\ (Ours(site'[i]) => r.pc \in Working)
CalmItems == \A i \in Item : Ours(site'[i]) => item'[i].state = "running"

LEMMA CalmBefore ==
  ASSUME Forward, Calm'
  PROVE  Calm /\ faults' = faults
BY DEF Forward, Calm

LEMMA HoldsGo ==
  ASSUME Forward, SameLease \/ run'.state # "running", \A i \in Item : ItemStep(i),
         NEW k \in Consumer, Moves(k, task'[k]),
         task'[k].pc \notin Idle => coord'[Of(k)].token = coord[Of(k)].token
  PROVE  HoldStays(k)
<1> SUFFICES ASSUME task'[k].pc \notin Idle
             PROVE  /\ Holds(Of(k))' => Holds(Of(k)) /\ run'.live = run.live
                    /\ HoldsItem(k)' => HoldsItem(k) /\ item'[task[k].item].live = item[task[k].item].live
  BY DEF HoldStays
<1>0. coord'[Of(k)].token = coord[Of(k)].token
  OBVIOUS
<1>1. Holds(Of(k))' => Holds(Of(k)) /\ run'.live = run.live
  BY <1>0 DEF Holds, SameLease
<1>2. task'[k].item = task[k].item /\ task[k].item \in Item
  BY DEF Moves, Forward
<1>3. HoldsItem(k)' => HoldsItem(k) /\ item'[task[k].item].live = item[task[k].item].live
  BY <1>0, <1>2 DEF HoldsItem, ItemStep, SameHold
<1> QED BY <1>1, <1>3

LEMMA CalmGoes ==
  ASSUME CalmWork, RunLeases, Forward, SameTokens, SameLease \/ Closes,
         \A i \in Item : ItemStep(i) /\ OwnStays(i), \A k \in Consumer : Moves(k, task'[k]),
         Calm' => CalmItems,
         Calm' => \A i \in Item : item'[i].state = "running" /\ Attended(i) => CalmTask(i, task'[item[i].by])
  PROVE  CalmWork'
<1> SUFFICES ASSUME Calm'
             PROVE  /\ \A i \in In(item', "running") : Attended(i)'
                    /\ \A i \in Item : Ours(site'[i]) => item'[i].state = "running" /\ task'[item'[i].by].pc \in Working
                    /\ run'.live => \E c \in Coord : coord'[c].token = run'.token
  BY DEF CalmWork, In
<1>1. Calm
  BY CalmBefore
<1>2. ASSUME NEW i \in Item, item'[i].state = "running"
      PROVE  Attended(i)' /\ (Ours(site'[i]) => task'[item'[i].by].pc \in Working)
  <2>1. SameHold(i) /\ SameLease
    BY <1>2 DEF ItemStep, Closes
  <2>2. Attended(i)
    BY <1>1, <1>2, <2>1 DEF CalmWork, In, SameHold
  <2> DEFINE k == item[i].by
  <2>3. CalmTask(i, task'[k]) /\ k \in Consumer /\ item'[i].by = k
    BY <1>2, <2>1, <2>2 DEF SameHold, Attended
  <2>4. Moves(k, task'[k]) /\ coord'[Of(k)].token = coord[Of(k)].token
    BY <2>3, BackfillAssumption DEF SameTokens
  <2>5. task'[k].pc \notin Idle /\ task'[k].item = i /\ item'[i].live /\ item'[i].token = coord'[Of(k)].token
    BY <2>1, <2>2, <2>3, <2>4 DEF CalmTask, Moves, Attended, SameHold
  <2>6. run'.state = "running" /\ run'.token = coord'[Of(k)].token /\ run'.live
    BY <2>1, <2>2, <2>4 DEF Attended, SameLease, Holds
  <2> HIDE DEF k
  <2>7. Attended(i)'
    BY <2>3, <2>5, <2>6 DEF Attended, Holds
  <2> QED BY <2>3, <2>7 DEF CalmTask
<1>3. ASSUME NEW i \in Item, Ours(site'[i]) PROVE item'[i].state = "running"
  BY <1>3 DEF CalmItems
<1>4. run'.live => \E c \in Coord : coord'[c].token = run'.token
  BY <1>1 DEF CalmWork, SameLease, Closes, SameTokens
<1> QED BY <1>2, <1>3, <1>4 DEF In

LEMMA ClaimsGo ==
  ASSUME Claiming, Forward, SameTokens, SameLease \/ Closes,
         \A i \in Item : ItemStep(i) /\ OwnStays(i), \A k \in Consumer : Moves(k, task'[k]),
         Calm' => CalmItems,
         Calm' => \A i \in Item : item'[i].state = "running" /\ Attended(i) => CalmTask(i, task'[item[i].by])
  PROVE  Claiming'
<1>1. RunLeases'
  BY DEF Claiming, RunLeases, SameTokens, SameLease, Closes
<1>2. CalmWork'
  BY CalmGoes DEF Claiming
<1>3. run'.state = "none" => \A i \in Item : ~Ours(site'[i])
  BY DEF Claiming, SameLease, Closes, OwnStays
<1>4. \A i \in Item : Known(i)'
  BY KnownStays DEF Claiming
<1>5. ASSUME NEW k \in Consumer
      PROVE  /\ HeldBy(k)' /\ FoundBy(k)' /\ LeftBy(k)'
             /\ (task[k].pc \in Idle => task[k].item = None)'
             /\ (task[k].pc \in {"fuse", "crashed"} => faults >= 1)'
  <2>1. task'[k].pc \notin Idle => OwnStays(task[k].item)
    BY DEF Moves, Forward
  <2>2. coord'[Of(k)].token = coord[Of(k)].token /\ (SameLease \/ run'.state # "running")
    BY BackfillAssumption DEF SameTokens, Closes
  <2>3. Moves(k, task'[k]) /\ HoldStays(k)
    BY <2>2, HoldsGo
  <2> QED BY <2>1, <2>3, TaskStays
<1> QED BY <1>1, <1>2, <1>3, <1>4, <1>5 DEF Claiming

\* A step of one task that breaks nothing.
LEMMA WorkerGoes ==
  ASSUME Claiming, Forward, task \in [Consumer -> Task], NEW k \in Consumer, NEW r,
         task' = [task EXCEPT ![k] = r], UNCHANGED coord, SameLease \/ Closes,
         \A i \in Item : ItemStep(i) /\ OwnStays(i), Moves(k, r),
         Calm' => CalmItems,
         Calm' => \A i \in Item : item'[i].state = "running" /\ Attended(i) /\ item[i].by = k => CalmTask(i, r)
  PROVE  Claiming'
<1>1. \A j \in Consumer : task'[j] = IF j = k THEN r ELSE task[j]
  OBVIOUS
<1>2. \A j \in Consumer : Moves(j, task'[j])
  BY <1>1, MovesNowhere
<1>3. SameTokens
  BY DEF SameTokens
<1>4. ASSUME Calm', NEW i \in Item, item'[i].state = "running", Attended(i) PROVE CalmTask(i, task'[item[i].by])
  <2> DEFINE j == item[i].by
  <2>1. j \in Consumer /\ task[j].pc \notin Idle
    BY <1>4 DEF Attended
  <2>2. CASE j = k
    BY <1>1, <1>4, <2>1, <2>2
  <2>3. CASE j # k
    <3>1. Ours(site'[i]) => Ours(site[i])
      BY DEF OwnStays
    <3>2. Ours(site[i]) => task[j].pc \in Working
      BY <1>4, CalmBefore DEF Claiming, CalmWork
    <3> QED BY <1>1, <2>1, <2>3, <3>1, <3>2 DEF CalmTask
  <2> QED BY <2>2, <2>3
<1> QED BY <1>2, <1>3, <1>4, ClaimsGo

LEMMA SameStays ==
  /\ UNCHANGED <<item, site>> => \A i \in Item : OwnStays(i)
  /\ UNCHANGED item => \A i \in Item : ItemStep(i)
  /\ UNCHANGED run => SameLease
BY DEF OwnStays, ItemStep, SameHold, SameLease

\* A step of several tasks, or of none, that leaves the claims alone.
LEMMA TasksGo ==
  ASSUME Claiming, Forward, RunLeases', CalmWork', \A i \in Item : OwnStays(i), run'.state = "none" => run.state = "none",
         \A k \in Consumer : Moves(k, task'[k]) /\ HoldStays(k)
  PROVE  Claiming'
<1>2. \A i \in Item : Known(i)'
  BY KnownStays DEF Claiming
<1>3. ASSUME NEW k \in Consumer
      PROVE  /\ HeldBy(k)' /\ FoundBy(k)' /\ LeftBy(k)'
             /\ (task[k].pc \in Idle => task[k].item = None)'
             /\ (task[k].pc \in {"fuse", "crashed"} => faults >= 1)'
  <2>1. task'[k].pc \notin Idle => OwnStays(task[k].item)
    BY DEF Moves, Forward
  <2>2. Moves(k, task'[k]) /\ HoldStays(k)
    OBVIOUS
  <2> QED BY <2>1, <2>2, TaskStays
<1>4. run'.state = "none" => \A i \in Item : ~Ours(site'[i])
  BY DEF Claiming, OwnStays
<1> QED BY <1>2, <1>3, <1>4 DEF Claiming

\* A fault: nothing is calm after it.
LEMMA FaultGoes ==
  ASSUME Claiming, Forward, Fault, UNCHANGED <<run, item, site>>,
         \A c \in Coord : coord'[c].token \in {coord[c].token, None},
         \A k \in Consumer : /\ Moves(k, task'[k])
                             /\ task'[k].pc \notin Idle => coord'[Of(k)].token = coord[Of(k)].token
  PROVE  Claiming'
<1>1. CalmWork'
  BY DEF Fault, Forward, Calm, CalmWork
<1>2. RunLeases'
  BY DEF Claiming, RunLeases
<1>3. (\A i \in Item : ItemStep(i) /\ OwnStays(i)) /\ SameLease
  BY SameStays
<1>4. \A k \in Consumer : Moves(k, task'[k]) /\ HoldStays(k)
  BY <1>3, HoldsGo
<1> QED BY <1>1, <1>2, <1>3, <1>4, TasksGo

\* Something else moves: the process table, the clock, a Site.
LEMMA WorldGoes ==
  ASSUME Claiming, Forward, UNCHANGED task, SameTokens, SameLease, \A i \in Item : SameHold(i) /\ OwnStays(i)
  PROVE  Claiming'
<1>1. \A k \in Consumer : Moves(k, task'[k])
  BY MovesNowhere
<1>2. \A i \in Item : ItemStep(i)
  BY DEF ItemStep
<1>3. Calm' => CalmItems
  BY CalmBefore DEF CalmItems, Claiming, CalmWork, OwnStays, SameHold
<1>4. ASSUME Calm', NEW i \in Item, item'[i].state = "running", Attended(i) PROVE CalmTask(i, task'[item[i].by])
  <2>1. Ours(site'[i]) => task[item[i].by].pc \in Working
    BY <1>4, CalmBefore DEF Claiming, CalmWork, OwnStays
  <2> QED BY <1>4, <2>1 DEF CalmTask, Attended
<1> QED BY <1>1, <1>2, <1>3, <1>4, ClaimsGo

-----------------------------------------------------------------------------
(* The path of one item, as far as claims go. *)

\* A running item that is attended by k is what k holds.
LEMMA AttendedHeld ==
  ASSUME Claiming, Calm, NEW i \in Item, item[i].state = "running", Attended(i), NEW k, item[i].by = k
  PROVE  /\ task[k].item = i /\ task[k].pc \notin Idle /\ HoldsItem(k) /\ Holds(Of(k)) /\ HoldsLive(Of(k))
         /\ MayRecord(k) /\ item[i].live
         /\ Ours(site[i]) => task[k].pc \in Working
<1>1. Ours(site[i]) => task[k].pc \in Working
  BY DEF Claiming, CalmWork
<1> QED BY <1>1 DEF Attended, HoldsItem, HoldsLive, MayRecord, Calm

LEMMA TaskOnly ==
  ASSUME Claiming, Forward, task \in [Consumer -> Task], NEW k \in Consumer, NEW r,
         task' = [task EXCEPT ![k] = r], UNCHANGED <<run, item, site, coord>>, Moves(k, r),
         Calm /\ MayRecord(k) /\ task[k].item \in Item /\ task[k].pc \notin Idle =>
           r.pc \notin Idle /\ (task[k].pc \in Working => r.pc \in Working \/ ~Ours(site[task[k].item]))
  PROVE  Claiming'
<1>1. \A i \in Item : ItemStep(i) /\ OwnStays(i)
  BY SameStays
<1>2. SameLease
  BY SameStays
<1>3. Calm' => CalmItems
  BY CalmBefore DEF CalmItems, Claiming, CalmWork
<1>4. ASSUME Calm', NEW i \in Item, item'[i].state = "running", Attended(i), item[i].by = k
      PROVE  CalmTask(i, r)
  <2>1. Calm /\ item[i].state = "running"
    BY <1>4, CalmBefore
  <2>2. /\ task[k].item = i /\ task[k].pc \notin Idle /\ MayRecord(k)
        /\ Ours(site[i]) => task[k].pc \in Working
    BY <1>4, <2>1, AttendedHeld
  <2> QED BY <2>1, <2>2 DEF CalmTask
<1> QED BY <1>1, <1>2, <1>3, <1>4, WorkerGoes

\* The task goes to p with its item and its stamp.
Sent(k, p) == /\ task' = [task EXCEPT ![k] = task'[k]]
              /\ task'[k].pc = p /\ task'[k].item = task[k].item /\ task'[k].stamp = task[k].stamp

LEMMA SentBy ==
  ASSUME task \in [Consumer -> Task], NEW k \in Consumer, NEW p, NEW u, NEW v,
         \/ task' = [task EXCEPT ![k].pc = p]
         \/ task' = [task EXCEPT ![k].pc = p, ![k].llm = v]
         \/ task' = [task EXCEPT ![k].pc = p, ![k].result = v]
         \/ task' = [task EXCEPT ![k].pc = p, ![k].out = v]
         \/ task' = [task EXCEPT ![k].out = v, ![k].pc = p]
         \/ task' = [task EXCEPT ![k].page = u, ![k].llm = v, ![k].pc = p]
  PROVE  Sent(k, p)
<1> DEFINE x == task[k]
<1>1. x \in Task
  OBVIOUS
<1>2. PICK r : /\ task' = [task EXCEPT ![k] = r]
               /\ r \in {[x EXCEPT !.pc = p], [x EXCEPT !.pc = p, !.llm = v], [x EXCEPT !.pc = p, !.result = v],
                         [x EXCEPT !.pc = p, !.out = v], [x EXCEPT !.out = v, !.pc = p],
                         [x EXCEPT !.page = u, !.llm = v, !.pc = p]}
  BY ZenonT(60)
<1>3. r.pc = p /\ r.item = x.item /\ r.stamp = x.stamp
  <2> HIDE DEF x
  <2> QED BY <1>1, <1>2 DEF Task
<1>4. task'[k] = r
  BY <1>2
<1> QED BY <1>2, <1>3, <1>4 DEF Sent

\* Steps that only advance the task.
PathStep(pc, p) == \/ pc \in Early /\ p \in Early \cup {"release"}
                   \/ pc \in Working /\ p \in Working
                   \/ pc \in Late /\ p \in Late
                   \/ pc = "fuse" /\ p \in {"crashed", "unclaim"}

LEMMA PathMoves ==
  ASSUME Claiming, Forward, NEW k \in Consumer, NEW p, Sent(k, p), PathStep(task[k].pc, p)
  PROVE  /\ Moves(k, task'[k]) /\ task'[k].pc \notin Idle
         /\ task[k].pc \in Working => task'[k].pc \in Working
<1>0. /\ AtWork \cap Idle = {} /\ Early \cap Idle = {} /\ Late \cap Idle = {} /\ "release" \notin Idle /\ "unclaim" \notin Idle
      /\ Early \cap AtWork = {} /\ Late \cap AtWork = {} /\ Working \cap {"fuse", "crashed"} = {} /\ Working \subseteq AtWork
      /\ Early \cap Late = {} /\ "release" \notin AtWork \cup Early \cup Late /\ "unclaim" \notin AtWork \cup Early \cup Late
      /\ {"fuse", "crashed"} \subseteq AtWork
  BY DEF AtWork, Early, Late, Idle, Working
<1>1. task[k].pc = "fuse" => faults' >= 1
  BY DEF Claiming, Forward
<1>2. Moves(k, task'[k])
  BY <1>0, <1>1 DEF Moves, Sent, PathStep
<1>3. task'[k].pc \notin Idle /\ (task[k].pc \in Working => task'[k].pc \in Working)
  BY <1>0 DEF Sent, PathStep
<1> QED BY <1>2, <1>3

LEMMA PathClaims ==
  ASSUME Claiming, Forward, task \in [Consumer -> Task], NEW k \in Consumer,
         UNCHANGED <<run, item, site, coord>>, NEW p, Sent(k, p), PathStep(task[k].pc, p)
  PROVE  Claiming'
<1> DEFINE r == task'[k]
<1>1. Moves(k, r) /\ r.pc \notin Idle /\ (task[k].pc \in Working => r.pc \in Working)
  BY PathMoves
<1>2. task' = [task EXCEPT ![k] = r]
  BY DEF Sent
<1> HIDE DEF r
<1> QED BY <1>1, <1>2, TaskOnly

LEMMA StepsClaims ==
  ASSUME Claiming, Forward, task \in [Consumer -> Task], NEW k \in Consumer,
         \/ Needs(k) \/ Intent(k) \/ Fetch(k) \/ Snapshot(k) \/ Permit(k) \/ Call(k) \/ Returned(k) \/ Miss(k)
         \/ (Record(k) \/ Fuse(k)) /\ ~MayRecord(k)
  PROVE  Claiming'
<1>0. UNCHANGED <<run, item, site, coord>>
  BY DEF Needs, Intent, Fetch, Snapshot, Permit, Call, Returned, Miss, Record, Fuse
<1>1. CASE Needs(k)
  <2>1. PICK v : task' = [task EXCEPT ![k].pc = "intent", ![k].llm = v]
    BY <1>1 DEF Needs
  <2>2. Sent(k, "intent")
    BY <2>1, SentBy
  <2> QED BY <1>0, <1>1, <2>2, PathClaims DEF PathStep, Needs, Early
<1>2. CASE Intent(k)
  <2> DEFINE v == NeedsModel(task[k].item)
  <2>1. task' = [task EXCEPT ![k].pc = "site", ![k].llm = v] \/ task' = [task EXCEPT ![k].pc = "release"]
    BY <1>2 DEF Intent, Go
  <2> HIDE DEF v
  <2>2. PICK p \in {"site", "release"} : \/ task' = [task EXCEPT ![k].pc = p, ![k].llm = v]
                                         \/ task' = [task EXCEPT ![k].pc = p]
    BY <2>1
  <2>3. Sent(k, p)
    <3>1. CASE task' = [task EXCEPT ![k].pc = p, ![k].llm = v]
      BY <3>1, SentBy
    <3>2. CASE task' = [task EXCEPT ![k].pc = p]
      BY <3>2, SentBy
    <3> QED BY <2>2, <3>1, <3>2
  <2> QED BY <1>0, <1>2, <2>3, PathClaims DEF PathStep, Intent, Early
<1>3. CASE Fetch(k)
  <2> DEFINE v == task[k].llm /\ site[task[k].item].there /\ Missing(task[k].item)
             p == IF v THEN "snapshot" ELSE "apply"
  <2>1. PICK u : task' = [task EXCEPT ![k].page = u, ![k].llm = v, ![k].pc = p]
    BY <1>3 DEF Fetch
  <2>2. p \in Working /\ task[k].pc \in Working
    BY <1>3 DEF Fetch, Working
  <2> HIDE DEF v, p
  <2>3. Sent(k, p)
    BY <2>1, SentBy
  <2> QED BY <1>0, <2>2, <2>3, PathClaims DEF PathStep
<1>4. CASE Snapshot(k) \/ Permit(k) \/ Returned(k) \/ (Record(k) /\ ~MayRecord(k))
  <2>1. task[k].pc \in Working /\ \E p \in Working : task' = [task EXCEPT ![k].pc = p]
    BY <1>4 DEF Snapshot, Permit, Returned, Record, Working, Go
  <2>2. PICK p \in Working : Sent(k, p)
    BY <2>1, SentBy
  <2> QED BY <1>0, <2>1, <2>2, PathClaims DEF PathStep
<1>5. CASE Call(k)
  <2>1. PICK v : task' = [task EXCEPT ![k].pc = "returned", ![k].result = v]
    BY <1>5 DEF Call
  <2>2. Sent(k, "returned")
    BY <2>1, SentBy
  <2> QED BY <1>0, <1>5, <2>2, PathClaims DEF PathStep, Call, Working
<1>6. CASE Miss(k)
  <2> DEFINE v == site[task[k].item].status
  <2>1. \/ task' = [task EXCEPT ![k].pc = "finish", ![k].out = "skipped"]
        \/ task' = [task EXCEPT ![k].pc = "finish", ![k].out = v]
        \/ task' = [task EXCEPT ![k].pc = "defer"]
    BY <1>6 DEF Miss, Go
  <2> HIDE DEF v
  <2>2. PICK p, w : /\ p \in {"finish", "defer"}
                    /\ \/ task' = [task EXCEPT ![k].pc = p, ![k].out = w]
                       \/ task' = [task EXCEPT ![k].pc = p]
    BY <2>1
  <2>3. Sent(k, p)
    <3>1. CASE task' = [task EXCEPT ![k].pc = p, ![k].out = w]
      BY <3>1, SentBy
    <3>2. CASE task' = [task EXCEPT ![k].pc = p]
      BY <3>2, SentBy
    <3> QED BY <2>2, <3>1, <3>2
  <2> QED BY <1>0, <1>6, <2>2, <2>3, PathClaims DEF PathStep, Miss, Late
<1>7. CASE Fuse(k) /\ ~MayRecord(k)
  <2> DEFINE p == After(k, "crashed")
  <2>1. task' = [task EXCEPT ![k].pc = p] /\ p \in {"crashed", "unclaim"}
    BY <1>7 DEF Fuse, After, Go
  <2> HIDE DEF p
  <2>2. Sent(k, p)
    BY <2>1, SentBy
  <2> QED BY <1>0, <1>7, <2>1, <2>2, PathClaims DEF PathStep, Fuse
<1> QED BY <1>1, <1>2, <1>3, <1>4, <1>5, <1>6, <1>7

LEMMA PcSets ==
  /\ AtWork \cap Idle = {} /\ Early \cap Idle = {} /\ Late \cap Idle = {} /\ {"release", "unclaim"} \cap Idle = {}
  /\ Early \cap AtWork = {} /\ Late \cap AtWork = {} /\ Early \cap Late = {}
  /\ {"release", "unclaim"} \cap (AtWork \cup Early \cup Late) = {}
  /\ Working \subseteq AtWork /\ {"fuse", "crashed"} \subseteq AtWork /\ {"fuse", "crashed"} \cap Working = {}
BY DEF AtWork, Early, Late, Idle, Working

LEMMA IdleMoves ==
  ASSUME NEW k
  PROVE  Moves(k, NoTask) /\ Moves(k, [NoTask EXCEPT !.pc = "claim"])
<1>1. NoTask.pc = "ended" /\ NoTask.item = None
      /\ [NoTask EXCEPT !.pc = "claim"].pc = "claim" /\ [NoTask EXCEPT !.pc = "claim"].item = None
  BY DEF NoTask
<1>2. {"ended", "claim"} = Idle /\ {"ended", "claim"} \cap {"fuse", "crashed"} = {}
  BY DEF Idle
<1>3. Idle \cap (AtWork \cup Early \cup Late) = {}
  BY PcSets
<1> QED BY <1>1, <1>2, <1>3 DEF Moves

\* Cancellation sends a task to give its claim up, then its item.
LEMMA InterruptedMoves ==
  ASSUME Claiming, Forward, task \in [Consumer -> Task], NEW k \in Consumer, NEW lost
  PROVE  Moves(k, Interrupted(k, lost))
<1> DEFINE x == task[k]
<1>0. x \in Task
  OBVIOUS
<1>r. PICK r : r = Interrupted(k, lost)
  OBVIOUS
<1> SUFFICES Moves(k, r)
  BY <1>r
<1>1. CASE r = NoTask
  BY <1>1, IdleMoves
<1>2. CASE r = [x EXCEPT !.cut = TRUE] \/ r = x
  <2>1. r.pc = x.pc /\ r.item = x.item /\ r.stamp = x.stamp
    <3> HIDE DEF x
    <3> QED BY <1>0, <1>2 DEF Task
  <2>2. x.pc \in {"fuse", "crashed"} => faults' >= 1
    BY DEF Claiming, Forward
  <2>3. x.pc \in Idle => x.item = None
    BY DEF Claiming
  <2> QED BY <2>1, <2>2, <2>3 DEF Moves
<1>3. CASE x.pc \notin Idle /\ \E p \in {"unclaim", "release"} : r = [x EXCEPT !.pc = p]
  <2>1. r.pc \in {"unclaim", "release"} /\ r.item = x.item
    <3> HIDE DEF x
    <3> QED BY <1>0, <1>3 DEF Task
  <2> QED BY <1>3, <2>1, PcSets DEF Moves
<1>4. r = NoTask \/ r = [x EXCEPT !.cut = TRUE] \/ r = x
      \/ (x.pc \notin Idle /\ \E p \in {"unclaim", "release"} : r = [x EXCEPT !.pc = p])
  BY <1>r DEF Interrupted, Idle
<1> QED BY <1>1, <1>2, <1>3, <1>4

LEMMA HeartbeatClaims ==
  ASSUME Claiming, Forward, task \in [Consumer -> Task], NEW k \in Consumer, HeartbeatEnds(k)
  PROVE  Claiming'
<1>1. PICK lost : task' = [task EXCEPT ![k] = Interrupted(k, lost)]
  BY DEF HeartbeatEnds
<1>2. UNCHANGED <<run, item, site, coord>> /\ ~MayRecord(k)
  BY DEF HeartbeatEnds
<1> QED BY <1>1, <1>2, InterruptedMoves, TaskOnly

-----------------------------------------------------------------------------
(* Leaving a claim. *)

LEMMA SiteGoes ==
  ASSUME site \in [Item -> Site], UNCHANGED item, NEW i \in Item, NEW y, ~Ours(y), site' = [site EXCEPT ![i] = y]
  PROVE  (\A j \in Item : OwnStays(j)) /\ ~Ours(site'[i])
BY DEF OwnStays

LEMMA LeaveStays ==
  ASSUME site \in [Item -> Site], UNCHANGED item, NEW k \in Consumer, task[k].item \in Item,
         NEW s \in {"not_analyzed", "complete", "failed"}, site' = Leave(k, s)
  PROVE  /\ \A j \in Item : OwnStays(j)
         /\ HeldBy(k) /\ HoldsItem(k) /\ task[k].pc \in AtWork => ~Ours(site'[task[k].item])
<1> DEFINE i == task[k].item
           y == Left(site[i], s)
<1>1. CASE Claims(k)
  <2>1. site' = [site EXCEPT ![i] = y]
    BY <1>1 DEF Leave, Left
  <2>2. ~Ours(y)
    <3>1. site[i] \in Site
      OBVIOUS
    <3>2. y.status = s
      BY <3>1 DEF Left, Site
    <3> HIDE DEF y
    <3> QED BY <3>2 DEF Ours
  <2> HIDE DEF y
  <2> QED BY <2>1, <2>2, SiteGoes
<1>2. CASE ~Claims(k)
  <2>1. UNCHANGED site
    BY <1>2 DEF Leave
  <2>2. HeldBy(k) /\ HoldsItem(k) /\ task[k].pc \in AtWork => ~Ours(site[i])
    BY <1>2 DEF HeldBy, Claims, Ours, Pending
  <2> QED BY <2>1, <2>2, SameStays
<1> QED BY <1>1, <1>2

LEMMA LeaveClaims ==
  ASSUME Claiming, Forward, task \in [Consumer -> Task], NEW k \in Consumer, task[k].item \in Item,
         UNCHANGED <<run, item, coord>>, \A j \in Item : OwnStays(j),
         HoldsItem(k) /\ task[k].pc \in AtWork => ~Ours(site'[task[k].item]),
         NEW p, Sent(k, p),
         \/ task[k].pc \in AtWork /\ p \in Late \cup {"unclaim", "release"}
         \/ task[k].pc = "unclaim" /\ p = "release"
  PROVE  Claiming'
<1> DEFINE r == task'[k]
<1>1. r.pc \notin Idle \cup AtWork \cup Early /\ task[k].pc \notin Idle /\ r.item = task[k].item
  BY PcSets DEF Sent
<1>2. Moves(k, r)
  <2>1. r.pc \in Late => (HoldsItem(k) /\ Ours(site'[r.item]) => run.stop \/ ~Holds(Of(k)))
    BY <1>1, PcSets DEF Sent
  <2> HIDE DEF r
  <2> QED BY <1>1, <2>1, PcSets DEF Moves
<1>3. task' = [task EXCEPT ![k] = r]
  BY DEF Sent
<1>4. SameLease /\ \A i \in Item : ItemStep(i)
  BY SameStays
<1>5. Calm' => CalmItems
  BY CalmBefore DEF CalmItems, Claiming, CalmWork, OwnStays
<1>6. ASSUME Calm', NEW i \in Item, item'[i].state = "running", Attended(i), item[i].by = k
      PROVE  CalmTask(i, r)
  <2>1. Calm /\ item[i].state = "running"
    BY <1>6, CalmBefore
  <2>2. task[k].item = i /\ HoldsItem(k) /\ (Ours(site[i]) => task[k].pc \in Working)
    BY <1>6, <2>1, AttendedHeld
  <2>3. ~Ours(site'[i])
    BY <2>2, PcSets DEF OwnStays
  <2> QED BY <1>1, <2>3 DEF CalmTask
<1> HIDE DEF r
<1> QED BY <1>2, <1>3, <1>4, <1>5, <1>6, WorkerGoes

LEMMA EndingClaims ==
  ASSUME Claiming, Forward, TypeInv, NEW k \in Consumer,
         Refuse(k) \/ Unclaim(k) \/ Crashed(k) \/ Apply(k)
  PROVE  Claiming'
<1>0. /\ site \in [Item -> Site] /\ task \in [Consumer -> Task] /\ HeldBy(k)
      /\ UNCHANGED <<run, item, coord>>
      /\ task[k].pc \in AtWork \cup {"unclaim"} /\ task[k].item \in Item
      /\ task[k].pc = "apply" => task[k].page \in {"complete", "failed"}
  <2>1. task[k].pc \in AtWork \cup {"unclaim"} /\ task[k].pc \notin Idle
    BY DEF Refuse, Unclaim, Crashed, Apply, AtWork, Working, Idle
  <2> QED BY <2>1 DEF TypeInv, TypeOK, Paged, Claiming, Forward, Refuse, Unclaim, Crashed, Apply
<1>1. ASSUME NEW s \in {"not_analyzed", "complete", "failed"}, site' = Leave(k, s), NEW p, Sent(k, p),
             \/ task[k].pc \in AtWork /\ p \in Late \cup {"unclaim", "release"}
             \/ task[k].pc = "unclaim" /\ p = "release"
      PROVE  Claiming'
  <2>1. \A j \in Item : OwnStays(j)
    BY <1>0, <1>1, LeaveStays
  <2>2. HoldsItem(k) /\ task[k].pc \in AtWork => ~Ours(site'[task[k].item])
    BY <1>0, <1>1, LeaveStays
  <2> QED BY <1>0, <1>1, <2>1, <2>2, LeaveClaims
<1>2. ASSUME NEW s \in {"not_analyzed", "complete", "failed"}, Missed(k, s), task[k].pc \in AtWork PROVE Claiming'
  <2> DEFINE p == After(k, "miss")
  <2>1. task' = [task EXCEPT ![k].pc = p] /\ site' = Leave(k, s)
    BY <1>2 DEF Missed, Go
  <2>2. p \in Late \cup {"unclaim", "release"}
    BY DEF After, Late
  <2> HIDE DEF p
  <2>3. Sent(k, p)
    BY <1>0, <2>1, SentBy
  <2> QED BY <1>1, <1>2, <2>1, <2>2, <2>3
<1>3. ASSUME NEW new, Applied(k, new), new.status # "pending", task[k].pc \in AtWork PROVE Claiming'
  <2> DEFINE p == After(k, "finish")
             v == IF new.status = "failed" THEN "failed" ELSE "complete"
  <2>1. task' = [task EXCEPT ![k].pc = p, ![k].out = v] /\ site' = [site EXCEPT ![task[k].item] = new]
    BY <1>3 DEF Applied
  <2>2. p \in Late \cup {"unclaim", "release"}
    BY DEF After, Late
  <2> HIDE DEF p, v
  <2>3. Sent(k, p)
    BY <1>0, <2>1, SentBy
  <2>4. (\A j \in Item : OwnStays(j)) /\ ~Ours(site'[task[k].item])
    BY <1>0, <1>3, <2>1, SiteGoes DEF Ours
  <2> QED BY <1>0, <1>3, <2>2, <2>3, <2>4, LeaveClaims
<1>4. CASE Refuse(k)
  <2>1. Missed(k, "not_analyzed") /\ task[k].pc \in AtWork
    BY <1>4 DEF Refuse, Missed, AtWork, Working
  <2> QED BY <1>2, <2>1
<1>5. CASE Unclaim(k)
  <2>1. task' = [task EXCEPT ![k].pc = "release"] /\ site' = Leave(k, "not_analyzed") /\ task[k].pc = "unclaim"
    BY <1>5 DEF Unclaim, Go
  <2>2. Sent(k, "release")
    BY <1>0, <2>1, SentBy
  <2> QED BY <1>1, <2>1, <2>2
<1>6. CASE Crashed(k)
  <2> DEFINE p == IF task[k].cut THEN "release" ELSE "finish"
  <2>1. task' = [task EXCEPT ![k].pc = p, ![k].out = "failed"] /\ site' = Leave(k, "failed") /\ task[k].pc \in AtWork
    BY <1>6 DEF Crashed, AtWork
  <2>2. p \in Late \cup {"unclaim", "release"}
    BY DEF Late
  <2> HIDE DEF p
  <2>3. Sent(k, p)
    BY <1>0, <2>1, SentBy
  <2> QED BY <1>1, <2>1, <2>2, <2>3
<1>7. CASE Apply(k)
  <2> DEFINE x == site[task[k].item]
             done(s) == [x EXCEPT !.status = s, !.stamp = None, !.stale = FALSE]
  <2>0. task[k].pc \in AtWork /\ task[k].page \in {"complete", "failed"} /\ x \in Site
    BY <1>0, <1>7 DEF Apply, AtWork, Working
  <2>1. \A s \in {"complete", "failed"} : done(s).status = s /\ [done(s) EXCEPT !.page = TRUE].status = s
    BY <2>0 DEF Site
  <2>2. \A p, m : [done("complete") EXCEPT !.llm = "settled", !.page = @ \/ p, !.moved = m].status # "pending"
    BY <2>0 DEF Site
  <2>3. \A p : [done("complete") EXCEPT !.page = @ \/ p].status # "pending"
    BY <2>0 DEF Site
  <2>4. \/ \E p, m : Applied(k, [done("complete") EXCEPT !.llm = "settled", !.page = @ \/ p, !.moved = m])
        \/ Applied(k, done("failed"))
        \/ \E p : Applied(k, [done("complete") EXCEPT !.page = @ \/ p])
        \/ \E s \in {"not_analyzed", "complete", "failed"} : Missed(k, s)
    <3>1. task[k].page \in {"not_analyzed", "complete", "failed"}
      BY <2>0
    <3> QED BY <1>7, <3>1 DEF Apply
  <2>5. done("failed").status # "pending"
    BY <2>1
  <2> HIDE DEF done, x
  <2> QED BY <1>2, <1>3, <2>0, <2>2, <2>3, <2>4, <2>5
<1> QED BY <1>4, <1>5, <1>6, <1>7

-----------------------------------------------------------------------------
(* Ending items. *)

\* Rows of runs, whatever their failures are.
RunShape == [state: {"none"} \cup Active \cup {"completed", "completed_with_errors"},
             token: Token \cup {None}, live: BOOLEAN, stop: BOOLEAN, cooling: BOOLEAN,
             failures: Int, count: [Active \cup Terminal -> Int], total: Int]

LEMMA RunShapes == Run \subseteq RunShape
<1>1. 0..MaxFailures \subseteq Int
  OBVIOUS
<1> QED BY <1>1 DEF Run, RunShape

LEMMA ShapePuts ==
  ASSUME NEW r \in RunShape
  PROVE  /\ \A m \in Int, v \in BOOLEAN : [r EXCEPT !.failures = m, !.cooling = v] \in RunShape
         /\ \A m \in Int, v, w \in BOOLEAN : [r EXCEPT !.failures = m, !.cooling = v, !.stop = w] \in RunShape
         /\ \A v, w \in BOOLEAN : [r EXCEPT !.cooling = v, !.stop = w] \in RunShape
BY DEF RunShape

\* A run that is finished has no item at work.
LEMMA FinishedGoes ==
  ASSUME BackfillInv', NEW r \in RunShape, r.state = run.state, r.token = run.token, r.live = run.live, run' = Finished(r)
  PROVE  (SameLease \/ Closes) /\ run'.stop = r.stop
<1>1. CASE r.count["queued"] # 0 \/ r.count["running"] # 0
  BY <1>1 DEF Finished, SameLease
<1>2. CASE ~(r.count["queued"] # 0 \/ r.count["running"] # 0)
  <2> DEFINE s == IF r.count["failed"] > 0 THEN "completed_with_errors" ELSE "completed"
  <2>1. run' = [r EXCEPT !.state = s, !.token = None, !.live = FALSE] /\ s \notin {"running", "none"}
    BY <1>2 DEF Finished
  <2> HIDE DEF s
  <2>2. run'.state = s /\ ~run'.live /\ run'.count = r.count /\ run'.stop = r.stop
    BY <2>1 DEF RunShape
  <2>3. Counts(StateOf(item'), run'.count) /\ "running" \in Active \cup Terminal
    BY DEF BackfillInv, RunInv, Active
  <2>4. run'.count["running"] = 0 => \A i \in Item : StateOf(item')[i] # "running"
    BY <2>3, CountsTell
  <2> QED BY <1>2, <2>1, <2>2, <2>4 DEF Closes, StateOf
<1> QED BY <1>1, <1>2

LEMMA CountedGoes ==
  ASSUME BackfillInv', NEW r \in RunShape, r.state = run.state, r.token = run.token, r.live = run.live,
         NEW c \in [Active \cup Terminal -> Int], run' = Finished([r EXCEPT !.count = c])
  PROVE  (SameLease \/ Closes) /\ run'.stop = r.stop
<1> DEFINE q == [r EXCEPT !.count = c]
<1>1. q \in RunShape
  BY DEF RunShape
<1>2. q.state = run.state /\ q.token = run.token /\ q.live = run.live /\ q.stop = r.stop
  BY DEF RunShape
<1> HIDE DEF q
<1>3. run' = Finished(q)
  BY DEF q
<1> QED BY <1>1, <1>2, <1>3, FinishedGoes

\* The claims of the items that a stopped run ends are given back.
LEMMA UnclaimedStays ==
  ASSUME Claiming, item \in [Item -> Target], site \in [Item -> Site], NEW I \in SUBSET Item, site' = Unclaimed(I),
         \A i \in Item : IF i \in I THEN item'[i].state # "running" ELSE item'[i] = item[i]
  PROVE  \A i \in Item : ItemStep(i) /\ OwnStays(i)
<1>1. ASSUME NEW i \in Item PROVE ItemStep(i) /\ OwnStays(i)
  <2>1. CASE i \notin I
    <3>1. site'[i] = site[i] /\ item'[i] = item[i]
      BY <2>1 DEF Unclaimed
    <3> QED BY <3>1 DEF ItemStep, SameHold, OwnStays
  <2>2. CASE i \in I
    <3> DEFINE y == [site[i] EXCEPT !.status = "not_analyzed", !.stamp = None, !.stale = FALSE]
    <3>1. site'[i] = IF item[i].claimed # None /\ Pending(i) /\ site[i].stamp = item[i].claimed THEN y ELSE site[i]
      BY <2>2 DEF Unclaimed
    <3>2. ~Ours(y)
      BY DEF Ours, Site
    <3>3. Ours(site[i]) => item[i].claimed # None /\ Pending(i) /\ site[i].stamp = item[i].claimed
      BY BackfillAssumption DEF Claiming, Known, Ours, Pending
    <3> HIDE DEF y
    <3>4. ~Ours(site'[i])
      BY <3>1, <3>2, <3>3
    <3> QED BY <2>2, <3>4 DEF ItemStep, OwnStays
  <2> QED BY <2>1, <2>2
<1> QED BY <1>1

LEMMA SettledState ==
  ASSUME NEW x \in Target, NEW s \in Terminal
  PROVE  Settled(x, s).state = s /\ s # "running"
BY DEF Settled, Target, Terminal

LEMMA RequeuedState ==
  ASSUME NEW x \in Target
  PROVE  Requeued(x).state = "queued" /\ Requeued(x).claimed = x.claimed
BY DEF Requeued, Target

LEMMA FailQueuedItems ==
  ASSUME item \in [Item -> Target]
  PROVE  \A i \in Item : IF i \in In(item, "queued") THEN FailQueued(item)[i].state # "running"
                         ELSE FailQueued(item)[i] = item[i]
<1>1. {"failed", "skipped"} \subseteq Terminal
  BY DEF Terminal
<1> QED BY <1>1, SettledState DEF FailQueued, In

\* A step of a task under a run that was told to stop.
LEMMA StoppedGoes ==
  ASSUME Claiming, Forward, task \in [Consumer -> Task], NEW k \in Consumer, NEW r,
         task' = [task EXCEPT ![k] = r], UNCHANGED coord, SameLease \/ Closes,
         \A i \in Item : ItemStep(i) /\ OwnStays(i), Moves(k, r), run'.stop
  PROVE  Claiming'
<1>1. ~Calm'
  BY DEF Calm
<1> QED BY <1>1, WorkerGoes

LEMMA StopAllClaims ==
  ASSUME Claiming, Forward, TypeInv, BackfillInv', NEW k \in Consumer, run.stop, StopAll(k), UNCHANGED coord
  PROVE  Claiming'
<1>0. /\ run \in Run /\ item \in [Item -> Target] /\ site \in [Item -> Site] /\ task \in [Consumer -> Task]
      /\ run.count \in [Active \cup Terminal -> Int]
  BY DEF TypeInv, TypeOK, Run
<1> DEFINE I == Expired \cup In(item, "queued")
           n == Cardinality(Expired)
           c == Shift(n, "running", "failed", FailQueuedCount(item, run.count))
<1>1. I \in SUBSET Item /\ Expired \in SUBSET Item
  BY DEF Expired, In
<1>2. \A i \in Item : IF i \in I THEN item'[i].state # "running" ELSE item'[i] = item[i]
  <2>1. \A i \in Item : item'[i] = IF i \in Expired THEN Settled(item[i], "failed") ELSE FailQueued(item)[i]
    BY DEF StopAll
  <2>2. "failed" \in Terminal
    BY DEF Terminal
  <2> QED BY <1>0, <2>1, <2>2, SettledState, FailQueuedItems
<1>3. \A i \in Item : ItemStep(i) /\ OwnStays(i)
  <2>1. site' = Unclaimed(I)
    BY DEF StopAll
  <2> HIDE DEF I
  <2> QED BY <1>0, <1>1, <1>2, <2>1, UnclaimedStays
<1>4. c \in [Active \cup Terminal -> Int]
  <2>1. n \in Int
    BY <1>1, SizeInt
  <2>2. {"running", "failed"} \subseteq Active \cup Terminal
    BY DEF Active, Terminal
  <2> HIDE DEF n
  <2> QED BY <1>0, <2>1, <2>2, CountTypes
<1>5. run' = Finished([run EXCEPT !.count = c])
  BY <1>0 DEF StopAll
<1> HIDE DEF c
<1>6. (SameLease \/ Closes) /\ run'.stop
  BY <1>0, <1>4, <1>5, CountedGoes, RunShapes DEF Forward
<1>7. task' = [task EXCEPT ![k] = NoTask]
  BY DEF StopAll, End
<1> QED BY <1>0, <1>3, <1>6, <1>7, IdleMoves, StoppedGoes

\* A signal ends what is queued, or only counts.
LEMMA SignalStays ==
  ASSUME Claiming, TypeInv, BackfillInv', ~run.stop, NEW result, Signal(result)
  PROVE  /\ SameLease \/ Closes
         /\ \A i \in Item : ItemStep(i) /\ OwnStays(i)
         /\ run'.stop \/ UNCHANGED <<item, site>>
<1>0. /\ run \in Run /\ item \in [Item -> Target] /\ site \in [Item -> Site] /\ run.failures \in Int
      /\ run.count \in [Active \cup Terminal -> Int]
  BY DEF TypeInv, TypeOK, Run
<1> DEFINE n     == run.failures + 1
           stops == result = "fatal" \/ (result = "retry" /\ n >= MaxFailures)
           next  == IF result = "ok" THEN [run EXCEPT !.failures = 0, !.cooling = FALSE]
                    ELSE IF result = "retry" THEN [run EXCEPT !.failures = n, !.cooling = TRUE, !.stop = stops]
                    ELSE [run EXCEPT !.cooling = FALSE, !.stop = TRUE]
           c     == FailQueuedCount(item, next.count)
<1>1. next \in RunShape /\ next.state = run.state /\ next.token = run.token /\ next.live = run.live
      /\ next.count = run.count /\ (stops => next.stop)
  <2>1. run \in RunShape /\ n \in Int /\ stops \in BOOLEAN
    BY <1>0, RunShapes
  <2> HIDE DEF n, stops
  <2>2. /\ [run EXCEPT !.failures = 0, !.cooling = FALSE] \in RunShape
        /\ [run EXCEPT !.failures = n, !.cooling = TRUE, !.stop = stops] \in RunShape
        /\ [run EXCEPT !.cooling = FALSE, !.stop = TRUE] \in RunShape
    <3>1. /\ \A m \in Int, v \in BOOLEAN : [run EXCEPT !.failures = m, !.cooling = v] \in RunShape
          /\ \A m \in Int, v, w \in BOOLEAN : [run EXCEPT !.failures = m, !.cooling = v, !.stop = w] \in RunShape
          /\ \A v, w \in BOOLEAN : [run EXCEPT !.cooling = v, !.stop = w] \in RunShape
      BY <2>1, ShapePuts
    <3>2. 0 \in Int /\ TRUE \in BOOLEAN /\ FALSE \in BOOLEAN
      OBVIOUS
    <3> QED BY <2>1, <3>1, <3>2
  <2>3. next \in RunShape
    BY <2>2
  <2>4. result = "ok" => ~stops
    BY DEF stops
  <2>5. next.state = run.state /\ next.token = run.token /\ next.live = run.live /\ next.count = run.count
        /\ (stops => next.stop)
    BY <2>1, <2>4 DEF RunShape
  <2> QED BY <2>3, <2>5
<1>2. IF stops THEN /\ item' = FailQueued(item) /\ run' = Finished([next EXCEPT !.count = c])
                    /\ site' = Unclaimed(In(item, "queued"))
      ELSE run' = next /\ UNCHANGED <<item, site>>
  <2>1. [next EXCEPT !.count = FailQueuedCount(item, @)] = [next EXCEPT !.count = c]
    OBVIOUS
  <2> QED BY <2>1 DEF Signal
<1>3. CASE ~stops
  <2>1. run' = next /\ UNCHANGED <<item, site>>
    BY <1>2, <1>3
  <2> HIDE DEF next, stops
  <2>2. SameLease
    BY <1>1, <2>1 DEF SameLease
  <2> QED BY <2>1, <2>2, SameStays
<1>4. CASE stops
  <2>1. In(item, "queued") \in SUBSET Item
    BY DEF In
  <2>2. \A i \in Item : ItemStep(i) /\ OwnStays(i)
    BY <1>0, <1>2, <1>4, <2>1, FailQueuedItems, UnclaimedStays
  <2>3. c \in [Active \cup Terminal -> Int]
    BY <1>0, <1>1, CountTypes
  <2>4. run' = Finished([next EXCEPT !.count = c])
    BY <1>2, <1>4
  <2> HIDE DEF next, c, stops
  <2>5. (SameLease \/ Closes) /\ run'.stop = next.stop
    BY <1>1, <2>3, <2>4, CountedGoes
  <2> QED BY <1>1, <1>4, <2>2, <2>5
<1> QED BY <1>3, <1>4

LEMMA SignalClaims ==
  ASSUME Claiming, Forward, TypeInv, BackfillInv', NEW k \in Consumer, MayRecord(k), Record(k) \/ Fuse(k)
  PROVE  Claiming'
<1>0. task \in [Consumer -> Task] /\ UNCHANGED coord
  BY DEF TypeInv, TypeOK, Record, Fuse
<1>1. PICK result : Signal(result)
  BY DEF Record, Fuse
<1>2. (SameLease \/ Closes) /\ (\A i \in Item : ItemStep(i) /\ OwnStays(i)) /\ (run'.stop \/ UNCHANGED <<item, site>>)
  BY <1>1, SignalStays DEF MayRecord
<1>3. PICK p : task' = [task EXCEPT ![k].pc = p] /\ PathStep(task[k].pc, p)
  BY DEF Record, Fuse, Go, After, PathStep, Working
<1>4. Sent(k, p)
  BY <1>0, <1>3, SentBy
<1>5. Moves(k, task'[k]) /\ task'[k].pc \notin Idle /\ (task[k].pc \in Working => task'[k].pc \in Working)
  BY <1>3, <1>4, PathMoves
<1>6. Calm' => CalmItems
  BY <1>2, CalmBefore DEF CalmItems, Claiming, CalmWork, Calm
<1>7. ASSUME Calm', NEW i \in Item, item'[i].state = "running", Attended(i), item[i].by = k
      PROVE  CalmTask(i, task'[k])
  <2>1. Calm /\ UNCHANGED <<item, site>>
    BY <1>2, <1>7, CalmBefore DEF Calm
  <2>2. Ours(site[i]) => task[k].pc \in Working
    BY <1>7, <2>1, AttendedHeld
  <2> QED BY <1>5, <2>1, <2>2 DEF CalmTask
<1>8. task' = [task EXCEPT ![k] = task'[k]]
  BY <1>4 DEF Sent
<1> QED BY <1>0, <1>2, <1>5, <1>6, <1>7, <1>8, WorkerGoes

LEMMA GiveUpClaims ==
  ASSUME Claiming, Forward, task \in [Consumer -> Task], item \in [Item -> Target], NEW k \in Consumer, HoldsItem(k),
         NEW i \in Item, i = task[k].item, NEW r \in {NoTask, [NoTask EXCEPT !.pc = "claim"]},
         task' = [task EXCEPT ![k] = r], UNCHANGED coord, SameLease \/ Closes,
         NEW x, x.state # "running", item' = [item EXCEPT ![i] = x],
         \A j \in Item : OwnStays(j), Calm' => ~Ours(site'[i])
  PROVE  Claiming'
<1>1. \A j \in Item : item'[j] = IF j = i THEN x ELSE item[j]
  OBVIOUS
<1>2. \A j \in Item : ItemStep(j)
  BY <1>1 DEF ItemStep, SameHold
<1>3. Moves(k, r)
  BY IdleMoves
<1>4. Calm' => CalmItems
  BY <1>1, CalmBefore DEF CalmItems, Claiming, CalmWork, OwnStays
<1>5. \A j \in Item : ~(item'[j].state = "running" /\ Attended(j) /\ item[j].by = k)
  BY <1>1 DEF Attended
<1> QED BY <1>2, <1>3, <1>4, <1>5, WorkerGoes

LEMMA GivenUpClaims ==
  ASSUME Claiming, Forward, TypeInv, BackfillInv', NEW k \in Consumer, MayGiveUp(k),
         Finish(k) \/ Defer(k) \/ ReleaseItem(k)
  PROVE  Claiming'
<1> DEFINE i == task[k].item
<1>0. /\ run \in Run /\ item \in [Item -> Target] /\ site \in [Item -> Site] /\ task \in [Consumer -> Task]
      /\ run.count \in [Active \cup Terminal -> Int] /\ task[k].out \in Terminal
      /\ HoldsItem(k) /\ Holds(Of(k)) /\ UNCHANGED coord
  <2>1. run \in Run /\ item \in [Item -> Target] /\ site \in [Item -> Site] /\ task \in [Consumer -> Task]
    BY DEF TypeInv, TypeOK
  <2> QED BY <2>1 DEF Run, Task, MayGiveUp, Finish, Defer, ReleaseItem
<1>1. i \in Item
  BY DEF Forward, Idle, Finish, Defer, ReleaseItem
<1>2. PICK r \in {NoTask, [NoTask EXCEPT !.pc = "claim"]} : task' = [task EXCEPT ![k] = r]
  BY DEF Finish, Defer, ReleaseItem, End
<1>3. ASSUME NEW o \in Terminal, run' = Finished([run EXCEPT !.count = Shift(1, "running", o, @)])
      PROVE  (SameLease \/ Closes) /\ run'.stop = run.stop
  <2> DEFINE c == Shift(1, "running", o, run.count)
  <2>1. c \in [Active \cup Terminal -> Int]
    BY <1>0, ShiftOne DEF Active
  <2>2. run' = Finished([run EXCEPT !.count = c])
    BY <1>0, <1>3
  <2> HIDE DEF c
  <2> QED BY <1>0, <2>1, <2>2, CountedGoes, RunShapes
<1>4. ASSUME NEW o \in Terminal, item' = [item EXCEPT ![i] = Settled(@, o)]
      PROVE  \E x : x.state # "running" /\ item' = [item EXCEPT ![i] = x]
  BY <1>0, <1>1, <1>4, SettledState
<1>5. ASSUME NEW o \in Terminal, run.stop, item' = [item EXCEPT ![i] = Settled(@, o)], site' = Unclaimed({i}),
             run' = Finished([run EXCEPT !.count = Shift(1, "running", o, @)])
      PROVE  Claiming'
  <2>1. PICK x : x.state # "running" /\ item' = [item EXCEPT ![i] = x]
    BY <1>4, <1>5
  <2>2. \A j \in Item : OwnStays(j)
    <3>1. {i} \in SUBSET Item /\ \A j \in Item : IF j \in {i} THEN item'[j].state # "running" ELSE item'[j] = item[j]
      BY <1>0, <1>1, <2>1
    <3> HIDE DEF i
    <3> QED BY <1>0, <1>5, <3>1, UnclaimedStays
  <2>3. (SameLease \/ Closes) /\ ~Calm'
    BY <1>3, <1>5 DEF Calm
  <2> QED BY <1>0, <1>1, <1>2, <2>1, <2>2, <2>3, GiveUpClaims
<1>6. ASSUME NEW x, x.state # "running", item' = [item EXCEPT ![i] = x], UNCHANGED site, SameLease \/ Closes,
             Ours(site[i]) => x.claimed = item[i].claimed, Calm => ~Ours(site[i])
      PROVE  Claiming'
  <2>1. \A j \in Item : OwnStays(j)
    BY <1>0, <1>1, <1>6 DEF OwnStays
  <2>2. Calm' => ~Ours(site'[i])
    BY <1>6, CalmBefore
  <2> QED BY <1>0, <1>1, <1>2, <1>6, <2>1, <2>2, GiveUpClaims
<1>7. task[k].pc \in Late /\ ~run.stop => ~Ours(site[i])
  BY <1>0 DEF Claiming, LeftBy
<1>8. CASE Finish(k)
  <2> DEFINE o == task[k].out
  <2>1. /\ o \in Terminal /\ item' = [item EXCEPT ![i] = Settled(@, o)]
        /\ run' = Finished([run EXCEPT !.count = Shift(1, "running", o, @)])
        /\ site' = IF run.stop THEN Unclaimed({i}) ELSE site
        /\ task[k].pc \in Late
    BY <1>0, <1>8 DEF Finish, Late
  <2> HIDE DEF o
  <2>2. CASE run.stop
    BY <1>5, <2>1, <2>2
  <2>3. CASE ~run.stop
    <3>1. SameLease \/ Closes
      BY <1>3, <2>1
    <3>2. PICK x : x.state # "running" /\ item' = [item EXCEPT ![i] = x]
      BY <1>4, <2>1
    <3> QED BY <1>6, <1>7, <2>1, <2>3, <3>1, <3>2
  <2> QED BY <2>2, <2>3
<1>9. ASSUME NEW defer \in BOOLEAN, Return(k, defer), defer => task[k].pc \in Late, ~defer => task[k].pc = "release"
      PROVE  Claiming'
  <2>1. CASE run.stop
    <3>1. /\ item' = [item EXCEPT ![i] = Settled(@, "failed")] /\ site' = Unclaimed({i})
          /\ run' = Finished([run EXCEPT !.count = Shift(1, "running", "failed", @)])
      BY <1>9, <2>1 DEF Return
    <3>2. "failed" \in Terminal
      BY DEF Terminal
    <3> QED BY <1>5, <2>1, <3>1, <3>2
  <2>2. CASE ~run.stop
    <3> DEFINE x == [Requeued(item[i]) EXCEPT !.waits = defer, !.claimed = IF defer THEN None ELSE item[i].claimed]
    <3>1. item' = [item EXCEPT ![i] = x] /\ UNCHANGED site
      BY <1>0, <1>1, <1>9, <2>2 DEF Return
    <3>2. x.state # "running" /\ (~defer => x.claimed = item[i].claimed)
      <4>1. item[i] \in Target
        BY <1>0, <1>1
      <4> HIDE DEF i
      <4> QED BY <4>1 DEF Requeued, Target
    <3>3. SameLease
      <4>1. run' = [run EXCEPT !.count = Shift(1, "running", "queued", @)]
        BY <1>9, <2>2 DEF Return
      <4> QED BY <1>0, <4>1 DEF SameLease, Run
    <3>4. Calm => (~defer => ~Ours(site[i]))
      <4>1. task[k].pc = "release" => task[k].pc \notin Working
        BY DEF Working
      <4> QED BY <1>0, <1>1, <1>9, <4>1 DEF Claiming, CalmWork, HoldsItem
    <3> HIDE DEF x
    <3> QED BY <1>6, <1>7, <1>9, <2>2, <3>1, <3>2, <3>3, <3>4
  <2> QED BY <2>1, <2>2
<1>10. CASE Defer(k)
  <2>1. Return(k, TRUE) /\ task[k].pc \in Late
    BY <1>10 DEF Defer, Late
  <2> QED BY <1>9, <2>1
<1>11. CASE ReleaseItem(k)
  <2>1. Return(k, FALSE) /\ task[k].pc = "release"
    BY <1>11 DEF ReleaseItem
  <2> QED BY <1>9, <2>1
<1> QED BY <1>8, <1>10, <1>11

\* A task that may not give its item up does not hold it.
LEMMA NotGivenUpClaims ==
  ASSUME Claiming, Forward, TypeInv, BackfillInv, NEW k \in Consumer, ~MayGiveUp(k),
         Finish(k) \/ Defer(k) \/ ReleaseItem(k)
  PROVE  Claiming'
<1>1. /\ task' = [task EXCEPT ![k] = NoTask] /\ UNCHANGED <<run, item, site, coord>> /\ task \in [Consumer -> Task]
  BY DEF Finish, Defer, ReleaseItem, End, Return, TypeInv, TypeOK
<1>2. ~(Calm /\ MayRecord(k) /\ task[k].item \in Item)
  <2> SUFFICES ASSUME MayRecord(k), task[k].item \in Item PROVE FALSE
    OBVIOUS
  <2>1. item[task[k].item].state = "running" /\ "running" \in Active \cup Terminal
    BY DEF MayRecord, HoldsItem, Active
  <2>2. Counts(StateOf(item), run.count)
    BY DEF BackfillInv, RunInv
  <2>3. run.count["running"] \in Nat /\ run.count["running"] # 0
    BY <2>1, <2>2, CountsTell DEF StateOf
  <2> QED BY <2>3 DEF MayGiveUp, MayRecord, HoldsLive
<1> QED BY <1>1, <1>2, IdleMoves, TaskOnly

-----------------------------------------------------------------------------
(* Claiming. *)

LEMMA ClaimNextClaims ==
  ASSUME Claiming, Forward, TypeInv, BackfillInv', NEW k \in Consumer, ClaimNext(k)
  PROVE  Claiming'
<1> DEFINE open == [i \in Item |-> IF i \in Expired THEN Requeued(item[i]) ELSE item[i]]
           back == Shift(Cardinality(Expired), "running", "queued", run.count)
<1>0. /\ run \in Run /\ item \in [Item -> Target] /\ site \in [Item -> Site] /\ task \in [Consumer -> Task]
      /\ task[k].pc \in Idle /\ task[k].pc = "claim" /\ UNCHANGED <<coord, env>>
  BY DEF TypeInv, TypeOK, ClaimNext, Idle
<1>1. \A i \in Item : /\ i \in Expired => open[i].state = "queued" /\ open[i].claimed = item[i].claimed
                      /\ i \notin Expired => open[i] = item[i]
  BY <1>0, RequeuedState
<1>2. Calm => Expired = {}
  BY DEF Expired, Claiming, CalmWork, Attended, In
<1>3. \/ End(k) /\ UNCHANGED <<run, item, site>>
      \/ run.stop /\ StopAll(k)
      \/ /\ item' = open /\ run' = [run EXCEPT !.count = back] /\ End(k) /\ UNCHANGED site
      \/ /\ HoldsLive(Of(k)) /\ ~run.stop /\ UNCHANGED site
         /\ run' = [run EXCEPT !.count = Shift(1, "queued", "running", back)]
         /\ \E i \in Runnable(open) : /\ item' = Claimed(open, i, k)
                                     /\ task' = [task EXCEPT ![k].pc = "needs", ![k].item = i]
  BY DEF ClaimNext
<1>4. CASE End(k) /\ UNCHANGED <<run, item, site>>
  <2>1. task' = [task EXCEPT ![k] = NoTask]
    BY <1>4 DEF End
  <2> QED BY <1>0, <1>4, <2>1, IdleMoves, TaskOnly
<1>5. CASE run.stop /\ StopAll(k)
  BY <1>0, <1>5, StopAllClaims
<1>6. CASE item' = open /\ run' = [run EXCEPT !.count = back] /\ End(k) /\ UNCHANGED site
  <2> HIDE DEF open, back
  <2>1. task' = [task EXCEPT ![k] = NoTask]
    BY <1>6 DEF End
  <2>2. SameLease
    BY <1>0, <1>6 DEF SameLease, Run
  <2>3. \A i \in Item : ItemStep(i) /\ OwnStays(i)
    BY <1>1, <1>6 DEF ItemStep, SameHold, OwnStays
  <2>4. Calm' => CalmItems
    BY <1>1, <1>2, <1>6, CalmBefore DEF CalmItems, Claiming, CalmWork
  <2>5. \A i \in Item : ~(Attended(i) /\ item[i].by = k)
    BY <1>0 DEF Attended
  <2> QED BY <1>0, <2>1, <2>2, <2>3, <2>4, <2>5, IdleMoves, WorkerGoes
<1>7. CASE /\ HoldsLive(Of(k)) /\ ~run.stop /\ UNCHANGED site
           /\ run' = [run EXCEPT !.count = Shift(1, "queued", "running", back)]
           /\ \E i \in Runnable(open) : /\ item' = Claimed(open, i, k)
                                       /\ task' = [task EXCEPT ![k].pc = "needs", ![k].item = i]
  <2>1. PICK i \in Runnable(open) : /\ item' = Claimed(open, i, k)
                                    /\ task' = [task EXCEPT ![k].pc = "needs", ![k].item = i]
    BY <1>7
  <2>2. i \in Item /\ open[i].state = "queued"
    BY DEF Runnable, In
  <2>3. SameLease /\ run'.stop = run.stop
    BY <1>0, <1>7 DEF SameLease, Run
  <2> HIDE DEF back
  <2>4. open \in [Item -> Target]
    BY <1>0, ItemPuts
  <2> HIDE DEF open
  <2>5. \A j \in Item : j # i => item'[j] = open[j]
    BY <2>1, <2>2, <2>4 DEF Claimed
  <2>6. /\ item'[i].state = "running" /\ item'[i].by = k /\ item'[i].live /\ item'[i].token = coord[Of(k)].token
        /\ item'[i].claimed = open[i].claimed
    BY <2>1, <2>2, <2>4 DEF Claimed, Target
  <2>7. task'[k].pc = "needs" /\ task'[k].item = i /\ \A j \in Consumer : j # k => task'[j] = task[j]
    BY <1>0, <2>1 DEF Task
  <2>8. \A j \in Item : /\ OwnStays(j)
                        /\ j # i /\ item'[j].state = "running" => item'[j] = item[j]
    BY <1>1, <1>7, <2>2, <2>5, <2>6 DEF OwnStays
  <2>9. \A j \in Item : Known(j)'
    BY <2>8, KnownStays DEF Claiming
  <2>10. faults' = faults
    BY <1>0 DEF env
  <2>11. ASSUME NEW j \in Consumer, j # k
         PROVE  /\ HeldBy(j)' /\ FoundBy(j)' /\ LeftBy(j)'
                /\ (task[j].pc \in Idle => task[j].item = None)'
                /\ (task[j].pc \in {"fuse", "crashed"} => faults >= 1)'
    <3>1. Moves(j, task'[j])
      BY <2>7, <2>11, MovesNowhere
    <3>2. task'[j].pc \notin Idle => task'[j].item = task[j].item /\ task[j].item \in Item
      BY <2>7, <2>11 DEF Forward
    <3>3. HoldStays(j)
      <4>1. Holds(Of(j))' => Holds(Of(j)) /\ run'.live = run.live
        BY <1>0, <2>3 DEF Holds, SameLease
      <4>2. task'[j].pc \notin Idle /\ HoldsItem(j)' => HoldsItem(j) /\ item'[task[j].item].live = item[task[j].item].live
        <5> SUFFICES ASSUME task'[j].pc \notin Idle, HoldsItem(j)'
                     PROVE  HoldsItem(j) /\ item'[task[j].item].live = item[task[j].item].live
          OBVIOUS
        <5>1. task'[j].item = task[j].item /\ task[j].item \in Item
          BY <3>2
        <5>2. task[j].item # i /\ item'[task[j].item].state = "running"
          BY <2>6, <2>11, <5>1 DEF HoldsItem
        <5>3. item'[task[j].item] = item[task[j].item]
          BY <2>8, <5>1, <5>2
        <5> QED BY <1>0, <5>1, <5>3 DEF HoldsItem
      <4> QED BY <4>1, <4>2 DEF HoldStays
    <3>4. task'[j].pc \notin Idle => OwnStays(task[j].item)
      BY <2>8, <3>2
    <3> QED BY <3>1, <3>3, <3>4, TaskStays
  <2>12. ASSUME Calm, NEW j \in Item, item[j].state = "running"
         PROVE  j # i /\ item'[j] = item[j] /\ Attended(j) /\ item[j].by # k
    <3>1. Attended(j) /\ open[j] = item[j]
      BY <1>1, <1>2, <2>12 DEF Claiming, CalmWork, In
    <3>2. j # i
      BY <2>2, <2>12, <3>1
    <3> QED BY <1>0, <2>5, <3>1, <3>2 DEF Attended
  <2>13. HeldBy(k)' /\ FoundBy(k)' /\ LeftBy(k)'
    <3>1. "needs" \notin AtWork \cup Late
      BY DEF AtWork, Late, Working
    <3>2. HeldBy(k)' /\ LeftBy(k)'
      BY <2>7, <3>1 DEF HeldBy, LeftBy
    <3>3. Ours(site[i]) => faults >= 1
      <4> SUFFICES ASSUME Ours(site[i]), ~(faults >= 1) PROVE FALSE
        OBVIOUS
      <4>1. Calm
        BY <1>7 DEF Calm, Forward
      <4>2. item[i].state = "running"
        BY <2>2, <4>1 DEF Claiming, CalmWork
      <4> QED BY <2>2, <2>12, <4>1, <4>2
    <3>4. run'.live
      BY <1>7, <2>3 DEF SameLease, HoldsLive
    <3>5. FoundBy(k)'
      BY <1>7, <2>6, <2>7, <2>10, <3>3, <3>4 DEF FoundBy
    <3> QED BY <3>2, <3>5
  <2>14. (task[k].pc \in Idle => task[k].item = None)' /\ (task[k].pc \in {"fuse", "crashed"} => faults >= 1)'
    BY <2>7 DEF Idle
  <2>15. CalmWork'
    <3> SUFFICES ASSUME Calm'
                 PROVE  /\ \A j \in In(item', "running") : Attended(j)'
                        /\ \A j \in Item : Ours(site'[j]) => item'[j].state = "running" /\ task'[item'[j].by].pc \in Working
                        /\ run'.live => \E c \in Coord : coord'[c].token = run'.token
      BY DEF CalmWork, In
    <3>1. Calm
      BY CalmBefore
    <3>2. Attended(i)'
      <4>1. Holds(Of(k))' /\ run'.live
        BY <1>0, <1>7, <2>3 DEF SameLease, HoldsLive, Holds
      <4> QED BY <1>0, <2>6, <2>7, <4>1 DEF Attended, Idle
    <3>3. ASSUME NEW j \in Item, j # i, item'[j].state = "running" PROVE Attended(j)'
      <4>1. item'[j] = item[j] /\ Attended(j) /\ item[j].by # k
        BY <2>8, <2>12, <3>1, <3>3
      <4>2. task'[item[j].by] = task[item[j].by]
        BY <2>7, <4>1 DEF Attended
      <4>3. Holds(Of(item[j].by))' /\ run'.live
        BY <1>0, <2>3, <4>1 DEF SameLease, Holds, Attended
      <4> QED BY <1>0, <4>1, <4>2, <4>3 DEF Attended
    <3>4. ASSUME NEW j \in Item, Ours(site'[j]) PROVE item'[j].state = "running" /\ task'[item'[j].by].pc \in Working
      <4>1. item[j].state = "running" /\ task[item[j].by].pc \in Working
        BY <1>7, <3>1, <3>4 DEF Claiming, CalmWork
      <4>2. item'[j] = item[j] /\ Attended(j) /\ item[j].by # k
        BY <2>12, <3>1, <4>1
      <4> QED BY <2>7, <4>1, <4>2 DEF Attended
    <3>5. run'.live => \E c \in Coord : coord'[c].token = run'.token
      BY <1>0, <2>3, <3>1 DEF Claiming, CalmWork, SameLease
    <3> QED BY <3>2, <3>3, <3>4, <3>5 DEF In
  <2>16. RunLeases' /\ (run'.state = "none" => \A j \in Item : ~Ours(site'[j]))
    BY <1>0, <1>7, <2>3 DEF Claiming, RunLeases, SameLease
  <2> QED BY <2>9, <2>11, <2>13, <2>14, <2>15, <2>16 DEF Claiming
<1> QED BY <1>3, <1>4, <1>5, <1>6, <1>7

LEMMA ClaimSiteClaims ==
  ASSUME Claiming, Forward, TypeInv, NEW k \in Consumer, ClaimSite(k)
  PROVE  Claiming'
<1> DEFINE i == task[k].item
           t == Unused(Stamps(i))
           may == Claimable(i) /\ HoldsLive(Of(k)) /\ ~run.stop /\ HoldsItem(k) /\ item[i].live
<1>0. /\ item \in [Item -> Target] /\ site \in [Item -> Site] /\ task \in [Consumer -> Task]
      /\ task[k].pc = "site" /\ i \in Item /\ UNCHANGED <<run, coord, env>>
  BY DEF TypeInv, TypeOK, ClaimSite, Forward, Idle
<1>1. CASE ~may /\ Go(k, "miss") /\ UNCHANGED <<item, site>>
  <2>1. Sent(k, "miss")
    BY <1>0, <1>1, SentBy DEF Go
  <2>2. HoldsItem(k) /\ Ours(site[i]) => run.stop \/ ~Holds(Of(k))
    <3> SUFFICES ASSUME HoldsItem(k), Ours(site[i]), ~run.stop, Holds(Of(k)) PROVE FALSE
      OBVIOUS
    <3>1. run.live /\ item[i].live
      BY <1>0 DEF Claiming, FoundBy, Early
    <3>2. item[i].claimed = site[i].stamp /\ site[i].there /\ (~site[i].page \/ site[i].llm # "settled")
      BY <1>0 DEF Claiming, Known
    <3>3. Claimable(i)
      BY <3>2, BackfillAssumption DEF Claimable, Ours, Pending, PageMissing, Missing
    <3> QED BY <1>1, <3>1, <3>3 DEF HoldsLive
  <2> DEFINE r == task'[k]
  <2>3. Moves(k, r) /\ r.pc \notin Idle /\ task[k].pc \notin Working
    BY <1>0, <1>1, <2>1, <2>2 DEF Sent, Moves, Idle, AtWork, Working, Early, Late
  <2>4. task' = [task EXCEPT ![k] = r]
    BY <2>1 DEF Sent
  <2> HIDE DEF r
  <2> QED BY <1>0, <1>1, <2>3, <2>4, TaskOnly
<1>2. CASE /\ may
           /\ site' = [site EXCEPT ![i].status = "pending", ![i].stamp = t, ![i].stale = FALSE]
           /\ item' = RecordClaim(i, t)
           /\ task' = [task EXCEPT ![k].pc = "fetch", ![k].stamp = t]
  <2> HIDE DEF t
  <2>1. /\ site'[i].there /\ (~site'[i].page \/ site'[i].llm # "settled") /\ site'[i].stamp = t
        /\ \A j \in Item : j # i => site'[j] = site[j]
    BY <1>0, <1>2 DEF Claimable, PageMissing, Missing, Site
  <2>2. /\ item'[i].claimed = t /\ \A j \in Item : j # i => item'[j] = item[j]
        /\ \A j \in Item : SameHold(j)
    BY <1>0, <1>2 DEF RecordClaim, SameHold, Target
  <2>3. task'[k].pc = "fetch" /\ task'[k].item = i /\ task'[k].stamp = t
        /\ \A j \in Consumer : j # k => task'[j] = task[j]
    BY <1>0, <1>2 DEF Task
  <2>4. "fetch" \in Working /\ "fetch" \in AtWork /\ "fetch" \notin Idle \cup Early \cup Late \cup {"fuse", "crashed"}
    BY DEF Working, AtWork, Idle, Early, Late
  <2>5. \A j \in Item : Known(j)'
    BY <2>1, <2>2 DEF Known, Claiming
  <2>6. HoldsItem(k) /\ HoldsLive(Of(k)) /\ ~run.stop
    BY <1>2
  <2>7. SameLease /\ faults' = faults
    BY <1>0 DEF SameLease, env
  <2>8. ASSUME NEW j \in Consumer, j # k
        PROVE  /\ HeldBy(j)' /\ FoundBy(j)' /\ LeftBy(j)'
               /\ (task[j].pc \in Idle => task[j].item = None)'
               /\ (task[j].pc \in {"fuse", "crashed"} => faults >= 1)'
    <3>1. Moves(j, task'[j])
      BY <2>3, <2>8, MovesNowhere
    <3>2. task'[j].pc \notin Idle /\ HoldsItem(j)' => HoldsItem(j) /\ task[j].item # i /\ task[j].item \in Item
                                               /\ item'[task[j].item].live = item[task[j].item].live
      <4>1. task'[j].pc \notin Idle => task'[j].item = task[j].item /\ task[j].item \in Item
        BY <2>3, <2>8 DEF Forward
      <4> HIDE DEF i
      <4>2. item[i].by = k
        BY <2>6 DEF HoldsItem, i
      <4> QED BY <1>0, <2>2, <2>8, <4>1, <4>2 DEF HoldsItem, SameHold
    <3>3. HoldStays(j)
      BY <1>0, <3>2 DEF HoldStays, Holds
    <3>4. task'[j].pc \notin Idle /\ HoldsItem(j)' => OwnStays(task[j].item)
      BY <2>1, <2>2, <3>2 DEF OwnStays
    <3> QED BY <3>1, <3>3, <3>4, TaskStays
  <2>9. HeldBy(k)' /\ FoundBy(k)' /\ LeftBy(k)'
    BY <2>1, <2>3, <2>4 DEF HeldBy, FoundBy, LeftBy
  <2>10. (task[k].pc \in Idle => task[k].item = None)' /\ (task[k].pc \in {"fuse", "crashed"} => faults >= 1)'
    BY <2>3, <2>4
  <2>11. CalmWork'
    <3> SUFFICES ASSUME Calm'
                 PROVE  /\ \A j \in In(item', "running") : Attended(j)'
                        /\ \A j \in Item : Ours(site'[j]) => item'[j].state = "running" /\ task'[item'[j].by].pc \in Working
                        /\ run'.live => \E c \in Coord : coord'[c].token = run'.token
      BY DEF CalmWork, In
    <3>1. Calm
      BY CalmBefore
    <3>2. ASSUME NEW j \in Item, item'[j].state = "running" PROVE Attended(j)'
      <4>1. Attended(j) /\ SameHold(j)
        BY <2>2, <3>1, <3>2 DEF Claiming, CalmWork, In, SameHold
      <4> DEFINE b == item[j].by
      <4>2. task'[b].item = task[b].item /\ task'[b].pc \notin Idle /\ b \in Consumer /\ task[b].item = j
        BY <2>3, <2>4, <4>1 DEF Attended
      <4>3. Holds(Of(b)) /\ run.live /\ item[j].live /\ item[j].token = coord[Of(b)].token
        BY <4>1 DEF Attended
      <4>4. item'[j].by = b /\ item'[j].live /\ item'[j].token = coord'[Of(b)].token
        BY <1>0, <4>1, <4>3 DEF SameHold
      <4>5. run'.state = "running" /\ run'.token = coord'[Of(b)].token /\ run'.live
        BY <1>0, <4>3 DEF Holds
      <4> HIDE DEF b
      <4> QED BY <4>1, <4>2, <4>4, <4>5 DEF Attended, Holds
    <3>3. ASSUME NEW j \in Item, Ours(site'[j]) PROVE item'[j].state = "running" /\ task'[item'[j].by].pc \in Working
      <4>1. CASE j = i
        BY <2>2, <2>3, <2>4, <2>6, <4>1 DEF HoldsItem, SameHold
      <4>2. CASE j # i
        <5>1. item[j].state = "running" /\ task[item[j].by].pc \in Working /\ Attended(j)
          BY <2>1, <3>1, <3>3, <4>2 DEF Claiming, CalmWork, In
        <5>2. task'[item[j].by].pc \in Working
          BY <2>3, <2>4, <5>1 DEF Attended
        <5> QED BY <2>2, <4>2, <5>1, <5>2
      <4> QED BY <4>1, <4>2
    <3>4. run'.live => \E c \in Coord : coord'[c].token = run'.token
      BY <1>0, <3>1 DEF Claiming, CalmWork
    <3> QED BY <3>2, <3>3, <3>4 DEF In
  <2>12. RunLeases' /\ (run'.state = "none" => \A j \in Item : ~Ours(site'[j]))
    BY <1>0, <2>6 DEF Claiming, RunLeases, HoldsLive, Holds
  <2> QED BY <2>5, <2>8, <2>9, <2>10, <2>11, <2>12 DEF Claiming
<1> QED BY <1>1, <1>2 DEF ClaimSite

-----------------------------------------------------------------------------
(* Coordinators, faults and the rest of the product, as far as claims go. *)

LEMMA AcquireClaims ==
  ASSUME Claiming, Forward, TypeInv, NEW c \in Coord, Acquire(c)
  PROVE  Claiming'
<1> DEFINE t == Unused(RunTokens)
           free == [NoTask EXCEPT !.pc = "claim"]
           row == [pc |-> "work", token |-> t]
<1>0. UNCHANGED <<item, site, faults>> /\ run \in Run /\ coord \in [Coord -> Coordinator] /\ task \in [Consumer -> Task]
  BY DEF Acquire, env, TypeInv, TypeOK
<1>1. CASE coord' = [coord EXCEPT ![c].pc = "gone"] /\ UNCHANGED <<run, task>>
  <2>1. SameTokens
    BY <1>0, <1>1 DEF SameTokens, Coordinator
  <2>2. SameLease /\ \A i \in Item : SameHold(i) /\ OwnStays(i)
    BY <1>0, <1>1 DEF SameLease, SameHold, OwnStays
  <2> QED BY <1>1, <2>1, <2>2, WorldGoes
<1>2. CASE /\ CanAcquire
           /\ run' = [run EXCEPT !.state = "running", !.token = t, !.live = TRUE]
           /\ coord' = [coord EXCEPT ![c] = row]
           /\ task' = [k \in Consumer |-> IF Of(k) = c THEN free ELSE task[k]]
  <2>1. t \in Token /\ t # None /\ \A d \in Coord : coord[d].token # t
    <3>1. t \in Token /\ t \notin RunTokens
      BY RunTokensLeft
    <3> HIDE DEF t
    <3> QED BY <3>1, BackfillAssumption DEF RunTokens
  <2> HIDE DEF t
  <2>2. run'.state = "running" /\ run'.token = t /\ run'.live /\ run'.stop = run.stop /\ ~run.live
    BY <1>0, <1>2 DEF Run, CanAcquire
  <2>3. \A d \in Coord : coord'[d] = IF d = c THEN row ELSE coord[d]
    BY <1>0, <1>2
  <2>4. row.token = t
    OBVIOUS
  <2> HIDE DEF row
  <2>5. RunLeases'
    BY <2>1, <2>2, <2>3, <2>4 DEF Claiming, RunLeases
  <2>6. \A i \in Item : OwnStays(i)
    BY <1>0 DEF OwnStays
  <2>7. ASSUME NEW k \in Consumer PROVE Moves(k, task'[k]) /\ HoldStays(k)
    <3>1. CASE Of(k) = c
      <4>1. task'[k] = free /\ Moves(k, free)
        BY <1>2, <3>1, IdleMoves
      <4>2. free.pc \in Idle
        BY DEF NoTask, Idle
      <4> HIDE DEF free
      <4> QED BY <4>1, <4>2 DEF HoldStays
    <3>2. CASE Of(k) # c
      <4>1. task'[k] = task[k] /\ Of(k) \in Coord
        BY <1>2, <3>2, BackfillAssumption
      <4>2. coord'[Of(k)] = coord[Of(k)] /\ coord[Of(k)].token # t
        BY <2>1, <2>3, <3>2, <4>1
      <4>3. ~Holds(Of(k))'
        BY <2>2, <4>2 DEF Holds
      <4>4. HoldsItem(k)' => HoldsItem(k) /\ item'[task[k].item].live = item[task[k].item].live
        BY <1>0, <4>1, <4>2 DEF HoldsItem
      <4> QED BY <4>1, <4>3, <4>4, MovesNowhere DEF HoldStays
    <3> QED BY <3>1, <3>2
  <2>8. CalmWork'
    <3> SUFFICES ASSUME Calm'
                 PROVE  /\ \A i \in In(item', "running") : Attended(i)'
                        /\ \A i \in Item : ~Ours(site'[i])
                        /\ \E d \in Coord : coord'[d].token = run'.token
      BY DEF CalmWork, In
    <3>1. \A i \in Item : item[i].state # "running"
      BY <2>2, CalmBefore DEF Claiming, CalmWork, Attended, In
    <3>2. \A i \in Item : ~Ours(site[i])
      BY <3>1, CalmBefore DEF Claiming, CalmWork
    <3> QED BY <1>0, <2>2, <2>3, <2>4, <3>1, <3>2 DEF In
  <2> QED BY <2>2, <2>5, <2>6, <2>7, <2>8, TasksGo
<1> QED BY <1>1, <1>2 DEF Acquire

\* What a process held is given up when its tasks are over.
LEMMA ReleaseClaims ==
  ASSUME Claiming, Forward, TypeInv, BackfillInv', NEW c \in Coord, Release(c)
  PROVE  Claiming'
<1> DEFINE held == {i \in In(item, "running") : item[i].token = coord[c].token}
           n == Cardinality(held)
           row == [pc |-> IF coord[c].pc = "stop" THEN "gone" ELSE "acquire", token |-> None]
<1>0. /\ run \in Run /\ item \in [Item -> Target] /\ site \in [Item -> Site] /\ coord \in [Coord -> Coordinator]
      /\ task \in [Consumer -> Task] /\ run.count \in [Active \cup Terminal -> Int]
      /\ UNCHANGED <<task, faults>> /\ held \in SUBSET Item
  BY DEF TypeInv, TypeOK, Run, Release, env, In
<1>1. \A d \in Coord : coord'[d].token = IF d = c THEN None ELSE coord[d].token
  <2>1. coord' = [coord EXCEPT ![c] = row]
    BY DEF Release
  <2>2. row.token = None
    OBVIOUS
  <2> HIDE DEF row
  <2> QED BY <1>0, <2>1, <2>2
<1>2. \A k \in Consumer : task[k].pc \notin Idle => Of(k) # c /\ Of(k) \in Coord
                                                    /\ coord'[Of(k)].token = coord[Of(k)].token
  <2>1. \A k \in Consumer : Of(k) = c => task[k].pc \in Idle
    BY DEF Release, Idle
  <2> QED BY <1>1, <2>1, BackfillAssumption
<1>3. ASSUME SameLease \/ (run'.state \notin {"running", "none"} /\ ~run'.live),
             \A i \in Item : ItemStep(i) /\ OwnStays(i), CalmWork'
      PROVE  Claiming'
  <2>1. RunLeases'
    BY <1>1, <1>3 DEF Claiming, RunLeases, SameLease
  <2>2. \A k \in Consumer : Moves(k, task'[k]) /\ HoldStays(k)
    BY <1>0, <1>2, <1>3, MovesNowhere, HoldsGo
  <2> QED BY <1>3, <2>1, <2>2, TasksGo DEF SameLease
<1>4. CASE ~Holds(c) /\ UNCHANGED <<run, item, site>>
  <2>1. SameLease /\ \A i \in Item : ItemStep(i) /\ OwnStays(i)
    BY <1>4, SameStays
  <2>2. CalmWork'
    <3> SUFFICES ASSUME Calm'
                 PROVE  /\ \A i \in In(item, "running") : Attended(i)'
                        /\ \A i \in Item : Ours(site[i]) => item[i].state = "running" /\ task[item[i].by].pc \in Working
                        /\ run.live => \E d \in Coord : coord'[d].token = run.token
      BY <1>0, <1>4 DEF CalmWork, In
    <3>1. Calm /\ CalmWork
      BY CalmBefore DEF Claiming
    <3>2. ASSUME NEW i \in Item, item[i].state = "running" PROVE Attended(i)'
      <4>1. Attended(i)
        BY <3>1, <3>2 DEF CalmWork, In
      <4> DEFINE k == item[i].by
      <4>2. coord'[Of(k)].token = coord[Of(k)].token
        BY <1>2, <4>1 DEF Attended
      <4> QED BY <1>0, <1>4, <4>1, <4>2 DEF Attended, Holds
    <3>3. run.live => \E d \in Coord : coord'[d].token = run.token
      <4> SUFFICES ASSUME run.live PROVE \E d \in Coord : coord'[d].token = run.token
        OBVIOUS
      <4>1. PICK d \in Coord : coord[d].token = run.token
        BY <3>1 DEF CalmWork
      <4>2. d # c
        BY <1>4, <4>1 DEF Holds, Claiming, RunLeases
      <4> QED BY <1>1, <4>1, <4>2
    <3> QED BY <3>1, <3>2, <3>3 DEF CalmWork, In
  <2> QED BY <1>3, <2>1, <2>2
<1>5. CASE /\ run.stop
           /\ item' = [i \in Item |-> IF i \in held THEN Settled(item[i], "failed") ELSE FailQueued(item)[i]]
           /\ run' = Finished([run EXCEPT !.count = Shift(n, "running", "failed", FailQueuedCount(item, @))])
           /\ site' = Unclaimed(held \cup In(item, "queued"))
  <2> DEFINE I == held \cup In(item, "queued")
             d == Shift(n, "running", "failed", FailQueuedCount(item, run.count))
  <2>1. I \in SUBSET Item
    BY DEF In
  <2>2. \A i \in Item : IF i \in I THEN item'[i].state # "running" ELSE item'[i] = item[i]
    <3>1. \A i \in Item : item'[i] = IF i \in held THEN Settled(item[i], "failed") ELSE FailQueued(item)[i]
      BY <1>5
    <3>2. "failed" \in Terminal
      BY DEF Terminal
    <3> HIDE DEF held
    <3> QED BY <1>0, <3>1, <3>2, SettledState, FailQueuedItems
  <2>3. \A i \in Item : ItemStep(i) /\ OwnStays(i)
    <3>1. site' = Unclaimed(I)
      BY <1>5
    <3> HIDE DEF I
    <3> QED BY <1>0, <2>1, <2>2, <3>1, UnclaimedStays
  <2>4. d \in [Active \cup Terminal -> Int]
    <3>1. n \in Int
      BY <1>0, SizeInt
    <3>2. {"running", "failed"} \subseteq Active \cup Terminal
      BY DEF Active, Terminal
    <3> HIDE DEF n
    <3> QED BY <1>0, <3>1, <3>2, CountTypes
  <2>5. run' = Finished([run EXCEPT !.count = d])
    BY <1>0, <1>5
  <2> HIDE DEF d
  <2>6. (SameLease \/ Closes) /\ run'.stop
    BY <1>0, <1>5, <2>4, <2>5, CountedGoes, RunShapes
  <2>7. CalmWork'
    BY <2>6 DEF CalmWork, Calm
  <2> QED BY <1>3, <2>3, <2>6, <2>7 DEF Closes
<1>6. CASE /\ Holds(c)
           /\ item' = [i \in Item |-> IF i \in held THEN Requeued(item[i]) ELSE item[i]]
           /\ run' = [run EXCEPT !.state = "queued", !.token = None, !.live = FALSE,
                                 !.count = Shift(n, "running", "queued", @)]
           /\ UNCHANGED site
  <2>1. \A i \in Item : item'[i].claimed = item[i].claimed /\ (item'[i].state = "queued" \/ item'[i] = item[i])
    <3> HIDE DEF held
    <3> QED BY <1>0, <1>6, RequeuedState
  <2>2. \A i \in Item : ItemStep(i) /\ OwnStays(i)
    BY <1>6, <2>1 DEF ItemStep, SameHold, OwnStays
  <2>3. run'.state = "queued" /\ ~run'.live
    BY <1>0, <1>6 DEF Run
  <2>4. CalmWork'
    <3> SUFFICES ASSUME Calm'
                 PROVE  (\A i \in Item : item'[i].state # "running") /\ (\A i \in Item : ~Ours(site'[i]))
      BY <2>3 DEF CalmWork, In
    <3>1. Calm /\ CalmWork /\ RunLeases
      BY CalmBefore DEF Claiming
    <3>2. ASSUME NEW i \in Item, item[i].state = "running" PROVE FALSE
      <4>1. Attended(i)
        BY <3>1, <3>2 DEF CalmWork, In
      <4> DEFINE k == item[i].by
      <4>2. Of(k) \in Coord /\ Of(k) # c /\ Holds(Of(k))
        BY <1>2, <4>1 DEF Attended
      <4>3. run.token # None
        BY <3>1, <4>2, BackfillAssumption DEF RunLeases, Holds
      <4> HIDE DEF k
      <4> QED BY <1>6, <3>1, <4>2, <4>3 DEF RunLeases, Holds
    <3> QED BY <1>6, <2>1, <3>1, <3>2 DEF CalmWork
  <2> QED BY <1>3, <2>2, <2>3, <2>4
<1> QED BY <1>4, <1>5, <1>6 DEF Release

LEMMA StartClaims ==
  ASSUME Claiming, Forward, TypeInv, NEW c \in Coord, Start(c)
  PROVE  Claiming'
<1>0. run.state = "none" /\ UNCHANGED <<site, task, faults>> /\ coord \in [Coord -> Coordinator]
  BY DEF Start, env, TypeInv, TypeOK
<1>1. \A i \in Item : ~Ours(site'[i]) /\ ~Ours(site[i])
  BY <1>0 DEF Claiming
<1>2. /\ \A i \in Item : item'[i].state # "running"
      /\ run'.state # "running" /\ ~run'.live
  <2>1. PICK T \in SUBSET Item :
          /\ item' = [i \in Item |-> IF i \in T THEN NewItem(Mode = "full" /\ Missing(i)) ELSE NoItem]
          /\ run' = [NoRun EXCEPT !.state = IF T = {} THEN "completed" ELSE "queued",
                                  !.count["queued"] = Cardinality(T), !.total = Cardinality(T)]
    BY DEF Start
  <2>2. run'.state # "running" /\ ~run'.live
    BY <2>1 DEF NoRun
  <2>3. \A i \in Item : item'[i].state # "running"
    BY <2>1 DEF NewItem, NoItem
  <2> QED BY <2>2, <2>3
<1>3. SameTokens
  <2>1. PICK p : coord' = [coord EXCEPT ![c].pc = p]
    BY DEF Start
  <2> QED BY <1>0, <2>1 DEF SameTokens, Coordinator
<1>4. RunLeases'
  BY <1>2, <1>3 DEF Claiming, RunLeases, SameTokens
<1>5. CalmWork'
  BY <1>1, <1>2 DEF CalmWork, In
<1>6. \A k \in Consumer : task[k].pc \notin Idle => ~Ours(site'[task[k].item])
  BY <1>1 DEF Forward
<1>7. \A k \in Consumer : HeldBy(k)' /\ FoundBy(k)' /\ LeftBy(k)'
  BY <1>0, <1>6, PcSets DEF HeldBy, FoundBy, LeftBy
<1>8. \A i \in Item : Known(i)'
  BY <1>1 DEF Known
<1> QED BY <1>0, <1>1, <1>4, <1>5, <1>7, <1>8 DEF Claiming

LEMMA CancelMoves ==
  ASSUME Claiming, Forward, task \in [Consumer -> Task], NEW c, NEW K, NEW k \in Consumer
  PROVE  Moves(k, CancelAll(c, K)[k])
<1>1. CancelAll(c, K)[k] = IF Of(k) = c THEN Interrupted(k, k \in K) ELSE task[k]
  BY DEF CancelAll
<1>2. Moves(k, task[k])
  <2>1. task[k].pc \in {"fuse", "crashed"} => faults' >= 1
    BY DEF Claiming, Forward
  <2> QED BY <2>1 DEF Claiming, Moves
<1>3. \A lost : Moves(k, Interrupted(k, lost))
  BY InterruptedMoves
<1> QED BY <1>1, <1>2, <1>3

LEMMA DownClaims ==
  ASSUME Claiming, Forward, TypeInv, NEW c \in Coord, Stop(c) \/ Crash(c)
  PROVE  Claiming'
<1>0. /\ UNCHANGED <<run, item, site>> /\ Fault /\ coord \in [Coord -> Coordinator] /\ task \in [Consumer -> Task]
  BY DEF Stop, Crash, TypeInv, TypeOK
<1>1. \A k \in Consumer : Of(k) \in Coord
  BY BackfillAssumption
<1>2. CASE Stop(c)
  <2>1. PICK K : task' = CancelAll(c, K)
    BY <1>2 DEF Stop
  <2>2. \A d \in Coord : coord'[d].token = coord[d].token
    <3>1. PICK p : coord' = [coord EXCEPT ![c].pc = p]
      BY <1>2 DEF Stop
    <3> QED BY <1>0, <3>1 DEF Coordinator
  <2>3. \A k \in Consumer : Moves(k, task'[k])
    BY <1>0, <2>1, CancelMoves
  <2> QED BY <1>0, <1>1, <2>2, <2>3, FaultGoes
<1>3. CASE Crash(c)
  <2> DEFINE row == [pc |-> "gone", token |-> None]
  <2>1. coord' = [coord EXCEPT ![c] = row] /\ task' = [k \in Consumer |-> IF Of(k) = c THEN NoTask ELSE task[k]]
    BY <1>3 DEF Crash
  <2>2. row.token = None
    OBVIOUS
  <2> HIDE DEF row
  <2>3. \A d \in Coord : coord'[d].token = IF d = c THEN None ELSE coord[d].token
    BY <1>0, <2>1, <2>2
  <2>4. ASSUME NEW k \in Consumer
        PROVE  Moves(k, task'[k]) /\ (task'[k].pc \notin Idle => coord'[Of(k)].token = coord[Of(k)].token)
    <3>1. CASE Of(k) = c
      BY <2>1, <3>1, IdleMoves DEF NoTask, Idle
    <3>2. CASE Of(k) # c
      BY <1>1, <2>1, <2>3, <3>2, MovesNowhere
    <3> QED BY <3>1, <3>2
  <2> QED BY <1>0, <2>3, <2>4, FaultGoes
<1> QED BY <1>2, <1>3

LEMMA ErrorClaims ==
  ASSUME Claiming, Forward, TypeInv, NEW k \in Consumer, StorageError(k)
  PROVE  Claiming'
<1> DEFINE x == task[k]
           i == x.item
<1>0. /\ UNCHANGED <<run, item, site, coord>> /\ Fault /\ task \in [Consumer -> Task]
  BY DEF StorageError, TypeInv, TypeOK
<1>1. faults = 0 /\ faults' = 1 /\ x.pc \notin {"fuse", "crashed"}
  <2>1. faults = 0 /\ faults' = 1
    BY <1>0 DEF Fault, Forward
  <2> QED BY <2>1 DEF Claiming
<1>2. ASSUME \A j \in Consumer : Moves(j, task'[j]) PROVE Claiming'
  BY <1>0, <1>2, FaultGoes
<1>3. ASSUME NEW r, task' = [task EXCEPT ![k] = r], Moves(k, r) PROVE Claiming'
  <2>1. \A j \in Consumer : task'[j] = IF j = k THEN r ELSE task[j]
    BY <1>0, <1>3
  <2>2. \A j \in Consumer : Moves(j, task'[j])
    BY <1>3, <2>1, MovesNowhere
  <2> QED BY <1>2, <2>2
<1>4. ASSUME NEW p, Sent(k, p), x.pc \notin Idle, p \in {"finish", "fuse", "crashed", "release"},
             p \in {"fuse", "crashed"} => x.pc \in AtWork,
             p = "finish" => x.pc \in Early
      PROVE  Claiming'
  <2> DEFINE r == task'[k]
  <2>1. r.pc = p /\ r.item = i /\ r.stamp = x.stamp /\ task' = [task EXCEPT ![k] = r]
    BY <1>4 DEF Sent
  <2>2. p = "finish" => (HoldsItem(k) /\ Ours(site'[i]) => run.stop \/ ~Holds(Of(k)))
    BY <1>0, <1>1, <1>4 DEF Claiming, FoundBy
  <2>3. p \notin Idle \cup Early /\ (p \in Late => p = "finish") /\ (p \in AtWork => p \in {"fuse", "crashed"})
    BY <1>4 DEF Idle, Early, Late, AtWork, Working
  <2>4. Moves(k, r)
    BY <1>1, <1>4, <2>1, <2>2, <2>3 DEF Moves
  <2> HIDE DEF r
  <2> QED BY <1>3, <2>1, <2>4
<1>5. CASE \E K : task' = [CancelAll(Of(k), K) EXCEPT ![k] = NoTask]
  <2>1. PICK K : task' = [CancelAll(Of(k), K) EXCEPT ![k] = NoTask]
    BY <1>5
  <2>2. \A j \in Consumer : task'[j] = IF j = k THEN NoTask ELSE CancelAll(Of(k), K)[j]
    BY <2>1 DEF CancelAll
  <2>3. \A j \in Consumer : Moves(j, task'[j])
    BY <1>0, <2>2, CancelMoves, IdleMoves
  <2> QED BY <1>2, <2>3
<1>6. CASE x.pc \in {"intent", "site"} /\ task' = [task EXCEPT ![k].pc = "finish", ![k].out = "failed"]
  <2>1. Sent(k, "finish")
    BY <1>0, <1>6, SentBy
  <2>2. x.pc \in Early /\ x.pc \notin Idle
    BY <1>6 DEF Early, Idle
  <2> QED BY <1>4, <2>1, <2>2
<1>7. CASE x.pc \in Working /\ Go(k, IF Invoked(k) THEN "fuse" ELSE "crashed")
  <2>1. PICK p \in {"fuse", "crashed"} : task' = [task EXCEPT ![k].pc = p]
    BY <1>7 DEF Go
  <2>2. Sent(k, p)
    BY <1>0, <2>1, SentBy
  <2>3. x.pc \in AtWork /\ x.pc \notin Idle
    BY <1>7, PcSets
  <2> QED BY <1>4, <2>1, <2>2, <2>3
<1>8. CASE x.pc = "unclaim" /\ task' = [task EXCEPT ![k].out = "failed", ![k].pc = "release"]
  <2>1. Sent(k, "release")
    BY <1>0, <1>8, SentBy
  <2>2. x.pc \notin Idle
    BY <1>8 DEF Idle
  <2> QED BY <1>4, <2>1, <2>2
<1>9. CASE End(k)
  <2>1. task' = [task EXCEPT ![k] = NoTask]
    BY <1>9 DEF End
  <2> QED BY <1>3, <2>1, IdleMoves
<1>10. \/ \E K : task' = [CancelAll(Of(k), K) EXCEPT ![k] = NoTask]
       \/ x.pc \in {"intent", "site"} /\ task' = [task EXCEPT ![k].pc = "finish", ![k].out = "failed"]
       \/ x.pc \in Working /\ Go(k, IF Invoked(k) THEN "fuse" ELSE "crashed")
       \/ x.pc = "unclaim" /\ task' = [task EXCEPT ![k].out = "failed", ![k].pc = "release"]
       \/ End(k)
  BY <1>1 DEF StorageError
<1> QED BY <1>5, <1>6, <1>7, <1>8, <1>9, <1>10

LEMMA SiteWorld ==
  ASSUME Claiming, Forward, TypeInv, UNCHANGED <<run, item, coord, task>>, NEW i \in Item, NEW y,
         site' = [site EXCEPT ![i] = y],
         ~Ours(y) \/ (/\ Ours(y) => Ours(site[i])
                      /\ y.stamp = site[i].stamp /\ y.there = site[i].there /\ y.page = site[i].page
                      /\ y.llm = site[i].llm)
  PROVE  Claiming'
<1>1. \A j \in Item : SameHold(j) /\ OwnStays(j)
  <2>1. \A j \in Item : site'[j] = IF j = i THEN y ELSE site[j]
    BY DEF TypeInv, TypeOK
  <2> QED BY <2>1 DEF SameHold, OwnStays
<1>2. SameTokens /\ SameLease
  BY DEF SameTokens, SameLease
<1> QED BY <1>1, <1>2, WorldGoes

LEMMA SitesClaims ==
  ASSUME Claiming, Forward, TypeInv, NEW i \in Item,
         Age(i) \/ Edit(i) \/ Delete(i) \/ ForeignClaim(i) \/ ForeignEnd(i)
  PROVE  Claiming'
<1> DEFINE x == site[i]
<1>0. UNCHANGED <<run, item, coord, task>> /\ x \in Site
  BY DEF Age, Edit, Delete, ForeignClaim, ForeignEnd, TypeInv, TypeOK
<1>1. ASSUME NEW y, ~Ours(y), site' = [site EXCEPT ![i] = y] PROVE Claiming'
  BY <1>0, <1>1, SiteWorld
<1>2. CASE Age(i)
  <2> DEFINE y == [x EXCEPT !.stale = TRUE]
  <2>1. site' = [site EXCEPT ![i] = y]
    BY <1>2 DEF Age
  <2>2. /\ Ours(y) => Ours(x)
        /\ y.stamp = x.stamp /\ y.there = x.there /\ y.page = x.page /\ y.llm = x.llm
    <3> HIDE DEF x
    <3> QED BY <1>0 DEF Site, Ours
  <2> HIDE DEF y
  <2> QED BY <1>0, <2>1, <2>2, SiteWorld
<1>3. CASE Edit(i)
  <2> DEFINE y == [x EXCEPT !.moved = TRUE]
             z == [x EXCEPT !.moved = TRUE, !.status = "not_analyzed", !.stamp = None, !.stale = FALSE,
                            !.page = FALSE, !.llm = "missing"]
  <2>1. site' = [site EXCEPT ![i] = y] \/ site' = [site EXCEPT ![i] = z]
    BY <1>3 DEF Edit
  <2>2. ~Ours(y) /\ ~Ours(z)
    <3> HIDE DEF x
    <3> QED BY <1>0 DEF Site, Ours
  <2> HIDE DEF y, z
  <2> QED BY <1>1, <2>1, <2>2
<1>4. CASE Delete(i)
  <2> DEFINE y == [x EXCEPT !.there = FALSE, !.status = "not_analyzed", !.stamp = None, !.stale = FALSE]
  <2>1. site' = [site EXCEPT ![i] = y]
    BY <1>4 DEF Delete
  <2>2. ~Ours(y)
    <3> HIDE DEF x
    <3> QED BY <1>0 DEF Site, Ours
  <2> HIDE DEF y
  <2> QED BY <1>1, <2>1, <2>2
<1>5. CASE ForeignClaim(i)
  <2> DEFINE y == [x EXCEPT !.status = "pending", !.stamp = Foreign, !.stale = FALSE]
  <2>1. site' = [site EXCEPT ![i] = y]
    BY <1>5 DEF ForeignClaim
  <2>2. ~Ours(y)
    <3> HIDE DEF x
    <3> QED BY <1>0, BackfillAssumption DEF Site, Ours
  <2> HIDE DEF y
  <2> QED BY <1>1, <2>1, <2>2
<1>6. CASE ForeignEnd(i)
  <2>1. PICK s \in {"complete", "failed", "not_analyzed"}, p, m, v \in BOOLEAN :
          site' = [site EXCEPT ![i] = [x EXCEPT !.status = s, !.stamp = None, !.stale = FALSE,
                     !.page = @ \/ p, !.llm = IF m THEN "settled" ELSE @, !.moved = @ \/ v]]
    BY ZenonT(60), <1>6 DEF ForeignEnd
  <2> DEFINE y == [x EXCEPT !.status = s, !.stamp = None, !.stale = FALSE,
                     !.page = @ \/ p, !.llm = IF m THEN "settled" ELSE @, !.moved = @ \/ v]
  <2>2. ~Ours(y)
    <3>1. y.status = s
      <4> HIDE DEF x
      <4> QED BY <1>0 DEF Site
    <3> HIDE DEF y
    <3> QED BY <3>1 DEF Ours
  <2>3. site' = [site EXCEPT ![i] = y]
    BY <2>1
  <2> HIDE DEF y
  <2> QED BY <1>1, <2>2, <2>3
<1> QED BY <1>2, <1>3, <1>4, <1>5, <1>6

LEMMA ClockClaims ==
  ASSUME Claiming, Forward, TypeInv, NEW i \in Item, Wake(i) \/ LapseItem(i) \/ CoolDown
  PROVE  Claiming'
<1>0. /\ UNCHANGED <<site, coord, task>> /\ run \in Run /\ item \in [Item -> Target] /\ item[i] \in Target
  BY DEF Wake, LapseItem, CoolDown, TypeInv, TypeOK
<1>1. \A j \in Consumer : Moves(j, task'[j])
  BY <1>0, MovesNowhere
<1>2. CASE CoolDown
  <2>1. UNCHANGED item /\ SameLease
    BY <1>0, <1>2 DEF CoolDown, SameLease, Run
  <2>2. SameTokens /\ \A j \in Item : SameHold(j) /\ OwnStays(j)
    BY <1>0, <2>1 DEF SameTokens, SameHold, OwnStays
  <2> QED BY <1>0, <2>1, <2>2, WorldGoes
<1>3. CASE Wake(i)
  <2>1. PICK w : UNCHANGED run /\ item' = [item EXCEPT ![i].waits = w]
    BY <1>3 DEF Wake
  <2>2. SameTokens /\ SameLease /\ \A j \in Item : SameHold(j) /\ OwnStays(j)
    BY <1>0, <2>1 DEF SameTokens, SameLease, SameHold, OwnStays, Target
  <2> QED BY <1>0, <2>2, WorldGoes
<1>4. CASE LapseItem(i)
  <2>1. PICK w : UNCHANGED run /\ item' = [item EXCEPT ![i].live = w] /\ Fault
    BY <1>4 DEF LapseItem
  <2>2. /\ \A j \in Item : /\ item'[j].state = item[j].state /\ item'[j].by = item[j].by
                           /\ item'[j].token = item[j].token /\ item'[j].claimed = item[j].claimed
        /\ faults' > faults /\ faults' >= 1
    BY <1>0, <2>1 DEF Target, Fault, Forward
  <2>3. \A j \in Item : OwnStays(j)
    BY <1>0, <2>2 DEF OwnStays
  <2>4. \A j \in Consumer : HoldStays(j)
    <3> SUFFICES ASSUME NEW j \in Consumer, task'[j].pc \notin Idle
                 PROVE  (Holds(Of(j))' => Holds(Of(j))) /\ (HoldsItem(j)' => HoldsItem(j))
      BY <2>2 DEF HoldStays
    <3>1. task'[j] = task[j] /\ task[j].item \in Item
      BY <1>0 DEF Forward
    <3> QED BY <1>0, <2>1, <2>2, <3>1 DEF Holds, HoldsItem
  <2>5. RunLeases' /\ CalmWork'
    BY <1>0, <2>1, <2>2 DEF Claiming, RunLeases, CalmWork, Calm
  <2> QED BY <1>1, <2>1, <2>3, <2>4, <2>5, TasksGo
<1> QED BY <1>2, <1>3, <1>4

\* Without a holder nobody holds anything; with one it is a fault.
LEMMA LapseClaims ==
  ASSUME Claiming, Forward, TypeInv, Lapse
  PROVE  Claiming'
<1>0. /\ UNCHANGED <<site, coord, task>> /\ run \in Run /\ item \in [Item -> Target] /\ run.live
  BY DEF Lapse, TypeInv, TypeOK
<1>1. /\ run'.state = run.state /\ run'.token = run.token /\ ~run'.live
      /\ \A j \in Item : /\ item'[j].state = item[j].state /\ item'[j].by = item[j].by
                         /\ item'[j].token = item[j].token /\ item'[j].claimed = item[j].claimed
  <2>1. PICK w : run' = [run EXCEPT !.live = w] /\ ~w /\ item' = [j \in Item |-> [item[j] EXCEPT !.live = w]]
    BY DEF Lapse
  <2> QED BY <1>0, <2>1 DEF Run, Target
<1>2. \A j \in Item : OwnStays(j)
  BY <1>0, <1>1 DEF OwnStays
<1>3. RunLeases'
  BY <1>0, <1>1 DEF Claiming, RunLeases
<1>4. (\E c \in Coord : coord[c].token = run.token) => faults' > faults /\ faults' >= 1
  BY DEF Lapse, Fault, Forward
<1>5. CalmWork'
  <2>1. ~Calm'
    BY <1>0, <1>4, CalmBefore DEF Claiming, CalmWork, Calm
  <2> QED BY <2>1 DEF CalmWork
<1>6. \A k \in Consumer : Moves(k, task'[k])
  BY <1>0, MovesNowhere
<1>7. ASSUME NEW k \in Consumer PROVE HoldStays(k)
  <2> SUFFICES ASSUME task'[k].pc \notin Idle
               PROVE  /\ Holds(Of(k))' => Holds(Of(k)) /\ faults' > faults
                      /\ HoldsItem(k)' => HoldsItem(k)
    BY DEF HoldStays
  <2>1. task'[k] = task[k] /\ task[k].item \in Item /\ Of(k) \in Coord
    BY <1>0, BackfillAssumption DEF Forward
  <2>2. Holds(Of(k))' => Holds(Of(k))
    BY <1>0, <1>1 DEF Holds
  <2>3. Holds(Of(k)) => faults' > faults
    BY <1>4, <2>1 DEF Holds
  <2>4. HoldsItem(k)' => HoldsItem(k)
    BY <1>0, <1>1, <2>1 DEF HoldsItem
  <2> QED BY <2>2, <2>3, <2>4
<1> QED BY <1>1, <1>2, <1>3, <1>5, <1>6, <1>7, TasksGo

-----------------------------------------------------------------------------
(* The invariant of the claims. *)

LEMMA StepClaims ==
  ASSUME Claiming, Forward, TypeInv, BackfillInv, BackfillInv', NEW k \in Consumer, Step(k)
  PROVE  Claiming'
<1>0. task \in [Consumer -> Task]
  BY DEF TypeInv, TypeOK
<1>1. CASE Needs(k) \/ Intent(k) \/ Fetch(k) \/ Snapshot(k) \/ Permit(k) \/ Call(k) \/ Returned(k) \/ Miss(k)
  BY <1>0, <1>1, StepsClaims
<1>2. CASE Record(k) \/ Fuse(k)
  <2>1. CASE MayRecord(k)
    BY <1>2, <2>1, SignalClaims
  <2>2. CASE ~MayRecord(k)
    BY <1>0, <1>2, <2>2, StepsClaims
  <2> QED BY <2>1, <2>2
<1>3. CASE Finish(k) \/ Defer(k) \/ ReleaseItem(k)
  BY <1>3, GivenUpClaims, NotGivenUpClaims
<1> QED BY <1>1, <1>2, <1>3, ClaimNextClaims, ClaimSiteClaims, EndingClaims DEF Step

LEMMA FaultsGrow ==
  ASSUME [Next]_vars
  PROVE  faults' = faults \/ faults' = faults + 1
<1>1. ASSUME NEW c \in Coord, Start(c) \/ Resume(c) \/ Acquire(c) \/ Release(c) \/ Stop(c) \/ Crash(c)
      PROVE  faults' = faults \/ faults' = faults + 1
  BY <1>1 DEF Start, Resume, Acquire, Release, Stop, Crash, Fault, env
<1>2. ASSUME NEW k \in Consumer, Step(k) PROVE faults' = faults
  BY <1>2 DEF Step, ClaimNext, Needs, Intent, ClaimSite, Fetch, Snapshot, Permit, Call, Returned, Record, Refuse,
              Apply, Miss, Finish, Defer, ReleaseItem, Unclaim, Fuse, Crashed, env
<1>3. ASSUME NEW k \in Consumer, HeartbeatEnds(k) \/ StorageError(k) PROVE faults' = faults \/ faults' = faults + 1
  BY <1>3 DEF HeartbeatEnds, StorageError, Fault, env
<1>4. ASSUME NEW i \in Item,
             LapseItem(i) \/ Wake(i) \/ Age(i) \/ Edit(i) \/ Delete(i) \/ ForeignClaim(i) \/ ForeignEnd(i)
      PROVE  faults' = faults \/ faults' = faults + 1
  BY <1>4 DEF LapseItem, Wake, Age, Edit, Delete, ForeignClaim, ForeignEnd, Fault, env
<1>5. ASSUME Lapse \/ CoolDown PROVE faults' = faults \/ faults' = faults + 1
  BY <1>5 DEF Lapse, CoolDown, Fault, env
<1>6. UNCHANGED vars => faults' = faults
  BY DEF vars
<1> QED BY <1>1, <1>2, <1>3, <1>4, <1>5, <1>6 DEF Next

LEMMA ClaimInit ==
  ASSUME Init
  PROVE  ClaimInv
<1>1. /\ run.state = "none" /\ ~run.live /\ faults = 0
      /\ \A i \in Item : item[i].state # "running" /\ ~Ours(site[i])
      /\ \A c \in Coord : coord[c].token = None
      /\ \A k \in Consumer : task[k].pc = "ended" /\ task[k].item = None
  BY DEF Init, NoRun, NoItem, NewItem, NoTask, AtRest, Ours
<1>2. "ended" \in Idle /\ "ended" \notin AtWork \cup Early \cup Late
  BY DEF Idle, AtWork, Early, Late, Working
<1>3. RunLeases /\ CalmWork
  BY <1>1 DEF RunLeases, CalmWork, In
<1>4. \A k \in Consumer : HeldBy(k) /\ FoundBy(k) /\ LeftBy(k)
  BY <1>1, <1>2 DEF HeldBy, FoundBy, LeftBy
<1>5. \A i \in Item : Known(i)
  BY <1>1 DEF Known
<1> QED BY <1>1, <1>3, <1>4, <1>5 DEF ClaimInv, Claiming

LEMMA ClaimsNext ==
  ASSUME BackfillInv, BackfillInv', TypeInv, ClaimInv, [Next]_vars
  PROVE  ClaimInv'
<1>1. faults \in Nat /\ faults' \in Nat /\ faults <= faults'
  BY FaultsGrow DEF ClaimInv
<1> SUFFICES ASSUME faults' <= 1 PROVE Claiming'
  BY <1>1 DEF ClaimInv
<1>2. Claiming
  BY <1>1 DEF ClaimInv
<1>3. Forward
  <2>1. run.stop => run'.stop
    BY NextInv DEF FuseStep
  <2>2. \A k \in Consumer : task[k].pc \notin Idle => task[k].item \in Item
    BY DEF BackfillInv, TaskRows, TaskRow, Idle
  <2> QED BY <1>1, <2>1, <2>2 DEF Forward
<1>4. ASSUME UNCHANGED <<run, item, site, task>>, SameTokens PROVE Claiming'
  <2>1. SameLease /\ \A i \in Item : SameHold(i) /\ OwnStays(i)
    BY <1>4 DEF SameLease, SameHold, OwnStays
  <2> QED BY <1>2, <1>3, <1>4, <2>1, WorldGoes
<1>5. ASSUME NEW c \in Coord, Resume(c) PROVE Claiming'
  <2>1. coord' = [coord EXCEPT ![c].pc = "acquire"] /\ coord \in [Coord -> Coordinator]
    BY <1>5 DEF Resume, TypeInv, TypeOK
  <2>2. SameTokens
    BY <2>1 DEF SameTokens, Coordinator
  <2> QED BY <1>4, <1>5, <2>2 DEF Resume
<1>6. CASE UNCHANGED vars
  BY <1>4, <1>6 DEF vars, SameTokens
<1>7. ASSUME NEW k \in Consumer, HeartbeatEnds(k) PROVE Claiming'
  BY <1>2, <1>3, <1>7, HeartbeatClaims DEF TypeInv, TypeOK
<1>8. ASSUME NEW c \in Coord, Start(c) \/ Acquire(c) \/ Release(c) \/ Stop(c) \/ Crash(c) PROVE Claiming'
  BY <1>2, <1>3, <1>8, StartClaims, AcquireClaims, ReleaseClaims, DownClaims
<1>9. ASSUME NEW k \in Consumer, Step(k) \/ StorageError(k) PROVE Claiming'
  BY <1>2, <1>3, <1>9, StepClaims, ErrorClaims
<1>10. ASSUME NEW i \in Item,
              LapseItem(i) \/ Wake(i) \/ Age(i) \/ Edit(i) \/ Delete(i) \/ ForeignClaim(i) \/ ForeignEnd(i)
       PROVE  Claiming'
  BY <1>2, <1>3, <1>10, SitesClaims, ClockClaims
<1>11. CASE Lapse
  BY <1>2, <1>3, <1>11, LapseClaims
<1>12. CASE CoolDown
  <2>1. CASE Item = {}
    <3>1. \A i \in Item : SameHold(i) /\ OwnStays(i)
      BY <2>1
    <3>2. SameLease /\ SameTokens /\ UNCHANGED task
      BY <1>12 DEF CoolDown, SameLease, SameTokens, Run, TypeInv, TypeOK
    <3> QED BY <1>2, <1>3, <3>1, <3>2, WorldGoes
  <2>2. CASE Item # {}
    BY <1>2, <1>3, <1>12, <2>2, ClockClaims
  <2> QED BY <2>1, <2>2
<1> QED BY <1>5, <1>6, <1>7, <1>8, <1>9, <1>10, <1>11, <1>12 DEF Next

\* Up to one fault, whichever it is and whenever it comes: every claim that
\* _claim_analysis put on a Site nobody changed is the one its item knows, so
\* that the next attempt takes it up, or a stopped run gives it back.
THEOREM ClaimsKnown == Spec => []NoOrphanClaim
<1>1. Init => BackfillInv /\ TypeInv /\ ClaimInv
  BY InitInv, TypeInit, ClaimInit
<1>2. BackfillInv /\ TypeInv /\ ClaimInv /\ [Next]_vars => (BackfillInv /\ TypeInv /\ ClaimInv)'
  <2> SUFFICES ASSUME BackfillInv, TypeInv, ClaimInv, [Next]_vars PROVE (BackfillInv /\ TypeInv /\ ClaimInv)'
    OBVIOUS
  <2>1. BackfillInv'
    BY NextInv
  <2>2. TypeInv'
    BY TypeNext DEF BackfillInv
  <2> QED BY <2>1, <2>2, ClaimsNext
<1>3. ClaimInv => NoOrphanClaim
  BY DEF ClaimInv, Claiming, Known, Ours, NoOrphanClaim, Pending
<1> QED BY <1>1, <1>2, <1>3, PTL DEF Spec

=============================================================================
