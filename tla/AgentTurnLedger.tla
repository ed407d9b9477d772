--------------------------- MODULE AgentTurnLedger ---------------------------
(***************************************************************************)
(* The durable ledger of Agent turns: claim, lease, journal, checkpoint,   *)
(* finish, expiry and replay of one account's turns, with the requests     *)
(* that execute or retry them, the sweeps that close abandoned ones, the   *)
(* deletion of conversations, lost clients, storage errors and crashes.    *)
(*                                                                         *)
(* Every database transaction of the code is one action, and every await   *)
(* between two transactions is a point where another process may run.      *)
(***************************************************************************)
EXTENDS Integers, FiniteSets

CONSTANTS
  Turn,            \* turn ids of one account (turn_id_hash)
  Payload,         \* semantic request bodies (request_hash)
  InvalidPayload,  \* the bodies the route answers with a protocol error
  Conv,            \* conversation ids, never reused
  Req,             \* HTTP requests; each is one run of the chat handler, and
                   \* names the transcript rows that run creates
  Sweeper,         \* startup recovery, then requests for turns outside Turn
  Visitors,        \* whether there are requests for turns outside Turn
  None,            \* SQL NULL
  Lease,           \* TURN_LEASE_DURATION in ticks
  Delay,           \* most ticks between utc_now() and the statement using it
  ClaimTries,      \* rounds of the claim loop
  SweepLimit,      \* candidates one sweep may close
  TextCap,         \* MAX_PERSISTED_AGENT_TEXT, in deltas
  MaxText, MaxTools, \* bounds: deltas and tool results of one execution
  MaxFaults        \* bound: crashes, storage errors and stalled sweeps

ASSUME LedgerAssumption ==
  /\ Turn # {}
  /\ InvalidPayload \subseteq Payload
  /\ None \notin Req \cup Conv \cup Payload
  /\ Sweeper \notin Req /\ Visitors \in BOOLEAN
  /\ Lease \in Nat \ {0} /\ Delay \in Nat /\ Delay < Lease
  /\ ClaimTries \in Nat \ {0} /\ SweepLimit \in Nat \ {0}
  /\ TextCap \in Nat /\ MaxText \in Nat /\ MaxTools \in Nat /\ MaxFaults \in Nat

VARIABLES
  (* durable: the SQLite database *)
  convs,     \* conversations that exist
  gone,      \* conversations that were deleted
  run,       \* agent_turn_runs, one row per turn id
  msg,       \* the assistant row written by a request
  (* the API process *)
  up,        \* "serving", "booting" or "down"
  pc,        \* where each request and the sweeper are
  todo,      \* candidates left in the sweep of a process
  close,     \* the capability finish_claimed_turn works with
  tries,     \* rounds the claim loop of a request has used
  lease,     \* token of the execution lease a request was granted
  jr,        \* AgentTurnJournal of a request
  (* the environment and what it has seen *)
  req,       \* what each request asks for
  told,      \* what a request reported to its client: the outcome of the
             \* turn, or "failed", an error that claims no stored outcome
  sent,      \* text deltas streamed to the client
  shown,     \* tool results streamed to the client
  owner,     \* the request a turn was granted to
  calls,     \* provider executions started for a turn
  wrote,     \* transcript pairs appended for a turn
  faults

database == <<convs, gone, run, msg>>
memory   == <<todo, close, tries, lease, jr>>
history  == <<sent, shown, owner, calls, wrote>>
vars     == <<database, up, pc, memory, req, told, history, faults>>

Proc     == Req \cup {Sweeper}
Terminal == {"complete", "error", "aborted"}
AnyTurn  == CHOOSE t \in Turn : TRUE

\* A lease is kept as the ticks left until lease_expires_at; below -Delay no
\* comparison with the clock tells two values apart.
Lapsed == -(Delay + 1)

\* The token of a running row is the number of the attempt that drew it: a
\* token is drawn from 32 random bytes together with attempt_count + 1.
Run == [state: {"none", "running"} \cup Terminal, payload: Payload \cup {None},
        requested: Conv \cup {None}, conv: Conv \cup {None},
        msg: Req \cup {None}, token: Nat, left: Lapsed..Lease]
NoRun == [state |-> "none", payload |-> None, requested |-> None,
          conv |-> None, msg |-> None, token |-> 0, left |-> Lapsed]

\* text counts the deltas a row holds, tools the tool results that went into it:
\* a later result may supersede an earlier one there, or have it summarised or
\* dropped when the results outgrow their budget.
Message == [conv: Conv \cup {None}, status: {"absent", "streaming"} \cup Terminal,
            version: Nat, text: Nat, tools: Nat]
NoMsg == [conv |-> None, status |-> "absent", version |-> 0, text |-> 0, tools |-> 0]

Request == [turn: Turn, payload: Payload, conv: Conv \cup {None}]

\* maint is the maintenance task; saving: it holds the journal's lock with the
\* snapshot (snapText, snapTools).
Journal == [version: Nat, text: Nat, tools: Nat, dirty: BOOLEAN, closed: BOOLEAN,
            maint: {"off", "on", "dead"}, saving: BOOLEAN,
            snapText: Nat, snapTools: Nat]
NewJournal(v) == [version |-> v, text |-> 0, tools |-> 0, dirty |-> FALSE,
                  closed |-> FALSE, maint |-> "off", saving |-> FALSE,
                  snapText |-> 0, snapTools |-> 0]

Candidate == [turn: Turn, token: Nat]
Closing == [turn: Turn, token: Nat, as: Terminal, seen: Message,
            mid: Req \cup {None}, back: {"sweep", "settle", "done"}]
Capability(t, k, as, back) == [turn |-> t, token |-> k, as |-> as, seen |-> NoMsg,
                               mid |-> None, back |-> back]
NoClose == Capability(AnyTurn, 0, "aborted", "done")

Closer   == {"load", "loadMessage", "close"}
Claiming == {"sweep", "claim", "insert", "fence", "settle", "protocol"}
Streaming == {"open", "bind", "ready", "stream", "save", "show", "finish", "fail", "abort"}
PC == {"idle", "done", "prepare", "closing"} \cup Closer \cup Claiming \cup Streaming

T(r) == req[r].turn

-----------------------------------------------------------------------------
(* Conditions the statements test, with a clock read d ticks ago. *)

\* Mutant: the WHERE clause forgets the token, so a fenced executor still writes.
OwnsAnyToken(t, k, d) == run[t].state = "running" /\ run[t].left >= -d

\* The WHERE clause of every write of a lease holder.
Owns(t, k, d) == /\ run[t].state = "running"
                 /\ run[t].token = k
                 /\ run[t].left >= -d

\* Mutant: only turns that reached the transcript are swept.
StaleWithTranscript(d) ==
  {t \in Turn : run[t].state = "running" /\ run[t].left <= -d /\ run[t].msg # None}

Stale(d) == {t \in Turn : run[t].state = "running" /\ run[t].left <= -d}

\* The first SweepLimit stale rows by lease_expires_at, with the token read.
Candidates(C, d) ==
  /\ C \subseteq Stale(d)
  /\ Cardinality(C) <= SweepLimit
  /\ C = Stale(d) \/ Cardinality(C) = SweepLimit
  /\ \A t \in C, u \in Stale(d) \ C : run[t].left <= run[u].left

Observed(C) == {[turn |-> t, token |-> run[t].token] : t \in C}

ConversationMatches(t, c) ==
  IF run[t].requested # None THEN c = run[t].requested
                             ELSE c = None \/ c = run[t].conv

\* Journal writes also need the row at the version the journal last saw.
Writable(r) == msg[r].status = "streaming" /\ msg[r].version = jr[r].version

-----------------------------------------------------------------------------
(* Where a process goes when the await it is in raises, or is cancelled. *)

\* A sweep logs the error and goes on with the next candidate; a claim and a
\* cleanup let it escape; an executor closes its turn as an error.
Raise(p) ==
  /\ \/ /\ pc[p] \in Closer /\ close[p].back = "sweep"
        /\ pc' = [pc EXCEPT ![p] = "sweep"]
        /\ close' = [close EXCEPT ![p] = NoClose]
        /\ UNCHANGED told
     \/ /\ \/ pc[p] \in {"claim", "insert", "fence", "settle", "protocol"}
           \/ pc[p] \in Closer /\ close[p].back # "sweep"
        /\ pc' = [pc EXCEPT ![p] = "done"]
        /\ close' = [close EXCEPT ![p] = NoClose]
        /\ told' = [told EXCEPT ![p] = "failed"]
     \/ /\ pc[p] = "prepare"
        /\ pc' = [pc EXCEPT ![p] = "load"]
        /\ close' = [close EXCEPT ![p] = Capability(T(p), lease[p], "error", "done")]
        /\ UNCHANGED told
     \/ /\ pc[p] \in {"open", "bind", "ready", "stream", "save", "finish"}
        /\ pc' = [pc EXCEPT ![p] = "fail"]
        /\ UNCHANGED <<close, told>>
     \/ /\ pc[p] = "fail"
        /\ pc' = [pc EXCEPT ![p] = "closing"]
        /\ told' = [told EXCEPT ![p] = "failed"]
        /\ UNCHANGED close
     \/ /\ pc[p] = "abort"
        /\ pc' = [pc EXCEPT ![p] = "closing"]
        /\ UNCHANGED <<close, told>>
  /\ UNCHANGED <<todo, tries, lease>>

\* The client went away: CancelledError or GeneratorExit at the current await.
Cancelled(r) ==
  /\ \/ /\ pc[r] \in Claiming \cup Closer
        /\ pc' = [pc EXCEPT ![r] = "done"]
        /\ close' = [close EXCEPT ![r] = NoClose]
        /\ todo' = [todo EXCEPT ![r] = {}]
     \/ /\ pc[r] = "prepare"
        /\ pc' = [pc EXCEPT ![r] = "load"]
        /\ close' = [close EXCEPT ![r] = Capability(T(r), lease[r], "aborted", "done")]
        /\ UNCHANGED todo
     \/ /\ pc[r] \in Streaming \ {"fail", "abort"}
        /\ pc' = [pc EXCEPT ![r] = "abort"]
        /\ UNCHANGED <<close, todo>>
     \/ /\ pc[r] = "fail"
        /\ pc' = [pc EXCEPT ![r] = "closing"]
        /\ UNCHANGED <<close, todo>>
  /\ UNCHANGED <<told, tries, lease>>

Disconnect(r) ==
  /\ Cancelled(r)
  /\ UNCHANGED <<database, up, jr, req, history, faults>>

-----------------------------------------------------------------------------
(* Closing expired turns. *)

\* _fence_expired_turn: replace the observed token if the lease has expired.
CanFence(c, d) == /\ run[c.turn].state = "running"
                  /\ run[c.turn].token = c.token
                  /\ run[c.turn].left <= -d

Fence(p, c, d, back) ==
  /\ CanFence(c, d)
  /\ run' = [run EXCEPT ![c.turn].token = c.token + 1,
                        ![c.turn].left = Lease - d]
  /\ close' = [close EXCEPT ![p] = Capability(c.turn, c.token + 1, "aborted", back)]
  /\ pc' = [pc EXCEPT ![p] = "load"]
  /\ UNCHANGED <<convs, gone, msg>>

\* close_expired_turns: the next candidate of the sweep, fenced or passed over.
SweepNext(p) ==
  /\ pc[p] = "sweep"
  /\ \E c \in todo[p], d \in 0..Delay :
       /\ todo' = [todo EXCEPT ![p] = @ \ {c}]
       /\ \/ Fence(p, c, d, "sweep")
          \/ ~CanFence(c, d) /\ UNCHANGED <<database, pc, close>>
  /\ UNCHANGED <<up, tries, lease, jr, req, told, history, faults>>

\* The sweep is over: a request goes on to claim_turn, the API starts serving.
SweepDone(p) ==
  /\ pc[p] = "sweep" /\ todo[p] = {}
  /\ pc' = [pc EXCEPT ![p] = IF p = Sweeper THEN "idle" ELSE "claim"]
  /\ up' = "serving"
  /\ UNCHANGED <<database, memory, req, told, history, faults>>

\* finish_claimed_turn returns; its caller goes on. The runner whose turn failed
\* before it had a journal reports an unsaved error, whether or not the turn was
\* still its own to close.
Return(p) ==
  /\ pc' = [pc EXCEPT ![p] = close[p].back]
  /\ close' = [close EXCEPT ![p] = NoClose]
  /\ told' = IF close[p].back = "done" /\ close[p].as = "error"
             THEN [told EXCEPT ![p] = "failed"]
             ELSE told

\* Mutant: the assistant row is not looked for.
LoadRunOnly(p) ==
  LET t == close[p].turn IN
  /\ pc[p] = "load"
  /\ IF run[t].state # "running" \/ run[t].token # close[p].token
     THEN Return(p)
     ELSE pc' = [pc EXCEPT ![p] = "close"] /\ UNCHANGED <<close, told>>
  /\ UNCHANGED <<database, up, todo, tries, lease, jr, req, history, faults>>

\* finish_claimed_turn reads the run and stops if it is not the holder's.
LoadRun(p) ==
  LET t == close[p].turn IN
  /\ pc[p] = "load"
  /\ \/ /\ run[t].state # "running" \/ run[t].token # close[p].token
        /\ Return(p)
     \/ /\ run[t].state = "running" /\ run[t].token = close[p].token
        /\ close' = [close EXCEPT ![p].mid = run[t].msg]
        /\ pc' = [pc EXCEPT ![p] = IF run[t].msg = None THEN "close" ELSE "loadMessage"]
        /\ UNCHANGED told
  /\ UNCHANGED <<database, up, todo, tries, lease, jr, req, history, faults>>

\* load_turn_assistant, in a session of its own.
LoadAssistant(p) ==
  /\ pc[p] = "loadMessage"
  /\ close' = [close EXCEPT ![p].seen = msg[close[p].mid]]
  /\ pc' = [pc EXCEPT ![p] = "close"]
  /\ UNCHANGED <<database, up, todo, tries, lease, jr, req, told, history, faults>>

\* The row was still streaming when it was read, and nobody has written it since.
Live(p) == close[p].seen.status = "streaming"
Unmoved(p) == Live(p) => /\ msg[close[p].mid].status = "streaming"
                         /\ msg[close[p].mid].version = close[p].seen.version

\* Mutant: the receipt is closed on the strength of the earlier read alone.
CanCloseUnfenced(p, d) == Unmoved(p)

CanClose(p, d) == Owns(close[p].turn, close[p].token, d) /\ Unmoved(p)

\* The row as the journal rebuilt from the row that was read finishes it.
Closed(p, as) == [msg[close[p].mid] EXCEPT
  !.status = as, !.version = @ + 1,
  !.text = close[p].seen.text, !.tools = close[p].seen.tools]

\* The terminal transaction of finish_claimed_turn: the receipt alone when
\* there is no assistant row or it is settled, else the journal rebuilt from
\* the row read, finished with the receipt.
CloseTurn(p) ==
  LET t    == close[p].turn
      seen == close[p].seen
      as   == IF Live(p) \/ seen.status = "absent" THEN close[p].as ELSE seen.status
  IN
  /\ pc[p] = "close"
  /\ \E d \in 0..Delay :
       \/ /\ CanClose(p, d)
          /\ run' = [run EXCEPT ![t].state = as, ![t].left = Lapsed]
          /\ msg' = IF Live(p)
                    THEN [msg EXCEPT ![close[p].mid] = Closed(p, as)]
                    ELSE msg
          /\ Return(p)
          /\ UNCHANGED <<convs, gone, todo, tries, lease>>
       \/ ~CanClose(p, d) /\ Raise(p) /\ UNCHANGED database
  /\ UNCHANGED <<up, jr, req, history, faults>>

-----------------------------------------------------------------------------
(* Entry of a request and claim_turn. *)

\* The route proves the conversation is the account's; the runner then reads
\* the stale turns of the account. A protocol error claims without a sweep.
Arrive(r) ==
  /\ up = "serving" /\ pc[r] = "idle"
  /\ req[r].conv \in convs \cup {None}
  /\ \/ /\ req[r].payload \in InvalidPayload
        /\ pc' = [pc EXCEPT ![r] = "claim"]
        /\ UNCHANGED todo
     \/ /\ req[r].payload \notin InvalidPayload
        /\ \E C \in SUBSET Turn, d \in 0..Delay :
             /\ Candidates(C, d)
             /\ todo' = [todo EXCEPT ![r] = Observed(C)]
             /\ pc' = [pc EXCEPT ![r] = IF C = {} THEN "claim" ELSE "sweep"]
  /\ UNCHANGED <<database, up, close, tries, lease, jr, req, told, history, faults>>

\* A request of the account for another turn: only its entry sweep matters
\* here, and one that finds nothing changes nothing.
Visit ==
  /\ Visitors /\ up = "serving" /\ pc[Sweeper] = "idle"
  /\ \E C \in SUBSET Turn \ {{}}, d \in 0..Delay :
       Candidates(C, d) /\ todo' = [todo EXCEPT ![Sweeper] = Observed(C)]
  /\ pc' = [pc EXCEPT ![Sweeper] = "sweep"]
  /\ UNCHANGED <<database, up, close, tries, lease, jr, req, told, history, faults>>

Answer(r, what) ==
  /\ pc' = [pc EXCEPT ![r] = "done"]
  /\ told' = [told EXCEPT ![r] = what]

\* A settled turn is replayed: the runner reports the state of the receipt, and
\* _durable_protocol_error the protocol error again, whatever state the receipt
\* was closed in.
Replayed(r) == IF req[r].payload \in InvalidPayload THEN "error" ELSE run[T(r)].state

\* claim_turn reads the row and decides.
ClaimRead(r) ==
  LET t == T(r)
      mine == /\ run[t].payload = req[r].payload
              /\ ConversationMatches(t, req[r].conv)
  IN
  /\ pc[r] = "claim"
  /\ \/ run[t].state = "none" /\ pc' = [pc EXCEPT ![r] = "insert"] /\ UNCHANGED <<close, told>>
     \/ run[t].state # "none" /\ ~mine /\ Answer(r, "conflict") /\ UNCHANGED close
     \/ run[t].state \in Terminal /\ mine /\ Answer(r, Replayed(r)) /\ UNCHANGED close
     \/ /\ run[t].state = "running" /\ mine
        /\ \E d \in 0..Delay :
             \/ run[t].left > -d /\ Answer(r, "in_progress") /\ UNCHANGED close
             \/ /\ run[t].left <= -d
                /\ pc' = [pc EXCEPT ![r] = "fence"]
                /\ close' = [close EXCEPT ![r] =
                                 Capability(t, run[t].token, "aborted", "done")]
                /\ UNCHANGED told
  /\ UNCHANGED <<database, up, todo, tries, lease, jr, req, history, faults>>

\* The claim loop starts over, or gives up after its last round.
ClaimAgain(r) ==
  /\ close' = [close EXCEPT ![r] = NoClose]
  /\ tries' = [tries EXCEPT ![r] = @ + 1]
  /\ IF tries[r] + 1 < ClaimTries
     THEN pc' = [pc EXCEPT ![r] = "claim"] /\ UNCHANGED told
     ELSE Answer(r, "failed")

\* claim_turn inserts the row; the unique key turns a lost race into another
\* round, a conversation deleted meanwhile into a foreign key error. With cut,
\* the client is gone by the time the commit lands: nobody holds the lease.
ClaimInsert(r, cut) ==
  LET t == T(r) IN
  /\ pc[r] = "insert"
  /\ \/ /\ run[t].state = "none"
        /\ req[r].conv \in convs \cup {None}
        /\ \E d \in 0..Delay :
             run' = [run EXCEPT ![t] =
               [state |-> "running", payload |-> req[r].payload,
                requested |-> req[r].conv, conv |-> req[r].conv, msg |-> None,
                token |-> 1, left |-> Lease - d]]
        /\ owner' = [owner EXCEPT ![t] = r]
        /\ lease' = [lease EXCEPT ![r] = 1]
        /\ pc' = [pc EXCEPT ![r] =
             IF cut THEN "done"
             ELSE IF req[r].payload \in InvalidPayload THEN "protocol" ELSE "prepare"]
        /\ UNCHANGED <<told, close, tries>>
     \/ run[t].state # "none" /\ ~cut /\ ClaimAgain(r) /\ UNCHANGED <<run, lease, owner>>
     \/ /\ run[t].state = "none" /\ ~cut
        /\ req[r].conv \notin convs \cup {None}
        /\ Raise(r)
        /\ UNCHANGED <<run, owner>>
  /\ UNCHANGED <<convs, gone, msg, up, todo, jr, req, sent, shown, calls, wrote, faults>>

\* Mutant: whoever takes an expired turn over resumes it.
ClaimFenceResumes(r) ==
  /\ pc[r] = "fence"
  /\ \E d \in 0..Delay :
       /\ CanFence([turn |-> close[r].turn, token |-> close[r].token], d)
       /\ run' = [run EXCEPT ![T(r)].token = @ + 1, ![T(r)].left = Lease - d]
  /\ lease' = [lease EXCEPT ![r] = close[r].token + 1]
  /\ pc' = [pc EXCEPT ![r] = "ready"]
  /\ UNCHANGED <<convs, gone, msg, up, todo, close, tries, jr, req, told, history, faults>>

\* The expired row is fenced for closing, never for execution.
ClaimFence(r) ==
  LET c == [turn |-> close[r].turn, token |-> close[r].token] IN
  /\ pc[r] = "fence"
  /\ \E d \in 0..Delay :
       \/ Fence(r, c, d, "settle") /\ UNCHANGED <<told, tries>>
       \/ ~CanFence(c, d) /\ ClaimAgain(r) /\ UNCHANGED database
  /\ UNCHANGED <<up, todo, lease, jr, req, history, faults>>

\* Mutant: the retry reports the closing it asked for.
ClaimSettleBlind(r) ==
  /\ pc[r] = "settle"
  /\ Answer(r, IF run[T(r)].state = "running" THEN "aborted" ELSE Replayed(r))
  /\ UNCHANGED <<database, up, memory, req, history, faults>>

\* Mutant: the reloaded receipt is taken for a settled one.
ClaimSettleVerbatim(r) ==
  /\ pc[r] = "settle" /\ Answer(r, run[T(r)].state)
  /\ UNCHANGED <<database, up, memory, req, history, faults>>

\* claim_turn reads the row again after closing it.
ClaimSettle(r) ==
  /\ pc[r] = "settle"
  /\ Answer(r, IF run[T(r)].state = "running" THEN "in_progress" ELSE Replayed(r))
  /\ UNCHANGED <<database, up, memory, req, history, faults>>

\* _durable_protocol_error: the receipt is closed without a transcript.
ProtocolError(r) ==
  LET t == T(r) IN
  /\ pc[r] = "protocol"
  /\ \E d \in 0..Delay :
       \/ /\ Owns(t, lease[r], d)
          /\ run' = [run EXCEPT ![t].state = "error", ![t].left = Lapsed]
          /\ Answer(r, "error")
          /\ UNCHANGED <<close, todo, tries, lease>>
       \/ ~Owns(t, lease[r], d) /\ Raise(r) /\ UNCHANGED run
  /\ UNCHANGED <<convs, gone, msg, up, jr, req, history, faults>>

-----------------------------------------------------------------------------
(* Execution: LangGraphAgentRunner.run and the journal of one executor. *)

\* _prepare_conversation: conversation, transcript pair and binding commit
\* together. With cut the rows are there and the runner has no journal.
Prepare(r, cut) ==
  LET t == T(r)
      ok(c, d) == /\ Owns(t, lease[r], d)
                  /\ run[t].requested \in {None, c}
                  /\ run[t].conv \in {None, c}
                  /\ run[t].msg = None
  IN
  /\ pc[r] = "prepare"
  /\ \/ \E c \in (IF req[r].conv = None THEN Conv \ (convs \cup gone)
                                        ELSE convs \cap {req[r].conv}), d \in 0..Delay :
          /\ ok(c, d)
          /\ convs' = convs \cup {c}
          /\ msg' = [msg EXCEPT ![r] = [conv |-> c, status |-> "streaming",
                                        version |-> 1, text |-> 0, tools |-> 0]]
          /\ run' = [run EXCEPT ![t].conv = c, ![t].msg = r]
          /\ wrote' = [wrote EXCEPT ![t] = @ + 1]
          /\ \/ /\ ~cut
                /\ jr' = [jr EXCEPT ![r] = NewJournal(1)]
                /\ pc' = [pc EXCEPT ![r] = "open"]
                /\ UNCHANGED <<told, close, todo, tries, lease>>
             \/ cut /\ Cancelled(r) /\ UNCHANGED jr
     \/ /\ ~cut
        /\ \/ req[r].conv \notin convs \cup {None}
           \/ \E c \in (IF req[r].conv = None THEN Conv \ (convs \cup gone)
                        ELSE {req[r].conv}), d \in 0..Delay : ~ok(c, d)
        /\ Raise(r)
        /\ UNCHANGED <<convs, run, msg, jr, wrote>>
  /\ UNCHANGED <<gone, up, req, sent, shown, owner, calls, faults>>

\* AgentTurnJournal.checkpoint: the lease test and the row update commit
\* together. It saves what the journal holds: text deltas x, tool results y.
CanCheckpoint(r, d) == Owns(T(r), lease[r], d) /\ Writable(r)

Save(r, x, y) ==
  msg' = [msg EXCEPT ![r].version = @ + 1, ![r].text = x, ![r].tools = y]

\* Mutant: a checkpoint acknowledges what arrived while it was being written.
AcknowledgeAll(j, x) == [j EXCEPT !.version = @ + 1, !.dirty = FALSE]

\* _acknowledge_snapshot: clean only if nothing arrived since the snapshot.
Acknowledge(j, x) == [j EXCEPT !.version = @ + 1, !.dirty = @ /\ j.text # x]

\* A forced checkpoint by the runner, which waits for the journal's lock.
Checkpoint(r, next, maint, cut) ==
  /\ ~jr[r].saving
  /\ \E d \in 0..Delay :
       \/ /\ CanCheckpoint(r, d)
          /\ Save(r, jr[r].text, jr[r].tools)
          /\ \/ /\ ~cut
                /\ jr' = [jr EXCEPT ![r] = [Acknowledge(@, jr[r].text) EXCEPT !.maint = maint]]
                /\ pc' = [pc EXCEPT ![r] = next]
                /\ UNCHANGED <<told, close, todo, tries, lease>>
             \/ cut /\ Cancelled(r) /\ UNCHANGED jr
       \/ ~cut /\ ~CanCheckpoint(r, d) /\ Raise(r) /\ UNCHANGED <<msg, jr>>
  /\ UNCHANGED <<convs, gone, run, up, req, faults>>

\* The first checkpoint gives the placeholder its identity; then the
\* maintenance task starts.
OpenJournal(r, cut) ==
  pc[r] = "open" /\ Checkpoint(r, "bind", "on", cut) /\ UNCHANGED history

\* The provider is resolved and recorded by a second checkpoint.
BindProvider(r, cut) ==
  pc[r] = "bind" /\ Checkpoint(r, "ready", jr[r].maint, cut) /\ UNCHANGED history

\* The graph starts and calls the provider. The last test of the lease was the
\* checkpoint; the metadata chunk has been yielded since.
CallProvider(r) ==
  /\ pc[r] = "ready"
  /\ pc' = [pc EXCEPT ![r] = "stream"]
  /\ calls' = [calls EXCEPT ![T(r)] = @ + 1]
  /\ UNCHANGED <<database, up, memory, req, told, sent, shown, owner, wrote, faults>>

\* A graph event first looks at the maintenance task (ensure_active).
Event(r) == pc[r] = "stream" /\ jr[r].maint # "dead"

NoticeLostLease(r) ==
  /\ pc[r] = "stream" /\ jr[r].maint = "dead"
  /\ Raise(r)
  /\ UNCHANGED <<database, up, jr, req, history, faults>>

\* add_text: what exceeds the cap is dropped and leaves the journal as it was.
AddText(j) == IF j.text < TextCap THEN [j EXCEPT !.text = @ + 1, !.dirty = TRUE] ELSE j

\* All the text goes to the client at once, and what the journal took of it to
\* the row at a later checkpoint.
StreamText(r) ==
  /\ Event(r) /\ sent[r] < MaxText
  /\ jr' = [jr EXCEPT ![r] = AddText(@)]
  /\ sent' = [sent EXCEPT ![r] = @ + 1]
  /\ UNCHANGED <<database, up, pc, todo, close, tries, lease, req, told,
                 shown, owner, calls, wrote, faults>>

\* A tool result enters the journal; it is saved before it is shown.
ToolResult(r) ==
  /\ jr[r].tools < MaxTools
  /\ \/ Event(r)
     \/ pc[r] = "bind"    \* a collection request answered without the model
  /\ jr' = [jr EXCEPT ![r].tools = @ + 1]
  /\ pc' = [pc EXCEPT ![r] = "save"]
  /\ UNCHANGED <<database, up, todo, close, tries, lease, req, told, history, faults>>

\* Mutant: the result is shown first and left to the next checkpoint.
ShowFirst(r, cut) ==
  /\ pc[r] = "save" /\ ~cut
  /\ pc' = [pc EXCEPT ![r] = "show"] /\ jr' = [jr EXCEPT ![r].dirty = TRUE]
  /\ UNCHANGED <<database, up, todo, close, tries, lease, req, told, history, faults>>

SaveToolResult(r, cut) ==
  pc[r] = "save" /\ Checkpoint(r, "show", jr[r].maint, cut) /\ UNCHANGED history

ShowToolResult(r) ==
  /\ pc[r] = "show"
  /\ shown' = [shown EXCEPT ![r] = jr[r].tools]
  /\ pc' = [pc EXCEPT ![r] = "stream"]
  /\ UNCHANGED <<database, up, memory, req, told, sent, owner, calls, wrote, faults>>

\* The graph is exhausted, or the provider fails.
EndStream(r) ==
  /\ pc[r] = "stream"
  /\ pc' = [pc EXCEPT ![r] = "finish"]
  /\ UNCHANGED <<database, up, memory, req, told, history, faults>>

ProviderError(r) ==
  /\ pc[r] \in {"bind", "ready", "stream"}
  /\ Raise(r)
  /\ UNCHANGED <<database, up, jr, req, history, faults>>

\* journal.finish: receipt and row become terminal in one transaction.
Outcome(r) == CASE pc[r] = "finish" -> "complete"
                [] pc[r] = "fail"   -> "error"
                [] pc[r] = "abort"  -> "aborted"

\* Mutant: the last checkpoint is trusted to have saved everything.
FinalAsSaved(r) == [msg[r] EXCEPT !.status = Outcome(r), !.version = @ + 1]

\* The row as finish writes it, with all the journal holds.
Final(r) == [msg[r] EXCEPT !.status = Outcome(r), !.version = @ + 1,
                           !.text = jr[r].text, !.tools = jr[r].tools]

FinishTurn(r, cut) ==
  LET t == T(r)
      s == Outcome(r)
  IN
  /\ pc[r] \in {"finish", "fail", "abort"}
  /\ ~jr[r].saving
  /\ \E d \in 0..Delay :
       \/ /\ CanCheckpoint(r, d)
          /\ run' = [run EXCEPT ![t].state = s, ![t].left = Lapsed]
          /\ msg' = [msg EXCEPT ![r] = Final(r)]
          /\ \/ /\ ~cut
                /\ jr' = [jr EXCEPT ![r] =
                     [Acknowledge(@, jr[r].text) EXCEPT !.closed = TRUE]]
                /\ pc' = [pc EXCEPT ![r] = "closing"]
                /\ told' = [told EXCEPT ![r] = IF s = "aborted" THEN @ ELSE s]
                /\ UNCHANGED <<close, todo, tries, lease>>
             \/ cut /\ Cancelled(r) /\ UNCHANGED jr
       \/ ~cut /\ ~CanCheckpoint(r, d) /\ Raise(r) /\ UNCHANGED <<run, msg, jr>>
  /\ UNCHANGED <<convs, gone, up, req, history, faults>>

\* journal.close waits for the maintenance task; the request is over.
CloseJournal(r) ==
  /\ pc[r] = "closing" /\ ~jr[r].saving
  /\ pc' = [pc EXCEPT ![r] = "done"]
  /\ jr' = [jr EXCEPT ![r] = NewJournal(0)]
  /\ lease' = [lease EXCEPT ![r] = 0]
  /\ UNCHANGED <<database, up, todo, close, tries, req, told, history, faults>>

-----------------------------------------------------------------------------
(* The maintenance task of an executor. *)

Maintained(r) == /\ pc[r] \in (Streaming \ {"open"}) \cup {"closing"}
                 /\ jr[r].maint = "on" /\ ~jr[r].saving /\ ~jr[r].closed

Heartbeat(r) ==
  /\ Maintained(r)
  /\ \E d \in 0..Delay :
       \/ /\ Owns(T(r), lease[r], d)
          /\ run' = [run EXCEPT ![T(r)].left = Lease - d]
          /\ UNCHANGED jr
       \/ /\ ~Owns(T(r), lease[r], d)
          /\ jr' = [jr EXCEPT ![r].maint = "dead"]
          /\ UNCHANGED run
  /\ UNCHANGED <<convs, gone, msg, up, pc, todo, close, tries, lease, req,
                 told, history, faults>>

\* A periodic checkpoint takes the lock and its snapshot while text goes on.
TakeSnapshot(r) ==
  /\ Maintained(r) /\ jr[r].dirty
  /\ jr' = [jr EXCEPT ![r].saving = TRUE, ![r].snapText = jr[r].text,
                      ![r].snapTools = jr[r].tools]
  /\ UNCHANGED <<database, up, pc, todo, close, tries, lease, req, told, history, faults>>

Released(j) == [j EXCEPT !.saving = FALSE, !.snapText = 0, !.snapTools = 0]

SaveSnapshot(r) ==
  /\ jr[r].saving
  /\ \E d \in 0..Delay :
       \/ /\ CanCheckpoint(r, d)
          /\ Save(r, jr[r].snapText, jr[r].snapTools)
          /\ jr' = [jr EXCEPT ![r] = Released(Acknowledge(@, jr[r].snapText))]
       \/ /\ ~CanCheckpoint(r, d)
          /\ jr' = [jr EXCEPT ![r] = [Released(@) EXCEPT !.maint = "dead"]]
          /\ UNCHANGED msg
  /\ UNCHANGED <<convs, gone, run, up, pc, todo, close, tries, lease, req,
                 told, history, faults>>

-----------------------------------------------------------------------------
(* The rest of the account, the clock and the failures. *)

\* Mutant: the transcript rows survive their conversation.
DeleteKeepsRows(c) ==
  /\ up = "serving" /\ c \in convs
  /\ convs' = convs \ {c} /\ gone' = gone \cup {c}
  /\ run' = [t \in Turn |->
       IF c \in {run[t].requested, run[t].conv}
       THEN [run[t] EXCEPT !.requested = None, !.conv = None, !.msg = None]
       ELSE run[t]]
  /\ UNCHANGED <<msg, up, pc, memory, req, told, history, faults>>

\* Mutant: the receipts of a conversation are deleted with it.
DeleteReceipts(c) ==
  /\ up = "serving" /\ c \in convs
  /\ convs' = convs \ {c} /\ gone' = gone \cup {c}
  /\ run' = [t \in Turn |-> IF c \in {run[t].requested, run[t].conv} THEN NoRun ELSE run[t]]
  /\ msg' = [r \in Req |-> IF msg[r].conv = c THEN NoMsg ELSE msg[r]]
  /\ UNCHANGED <<up, pc, memory, req, told, history, faults>>

\* delete_conversation keeps the receipts and takes the transcript away.
DeleteConversation(c) ==
  /\ up = "serving" /\ c \in convs
  /\ convs' = convs \ {c} /\ gone' = gone \cup {c}
  /\ run' = [t \in Turn |->
       IF c \in {run[t].requested, run[t].conv}
       THEN [run[t] EXCEPT !.requested = None, !.conv = None, !.msg = None]
       ELSE run[t]]
  /\ msg' = [r \in Req |-> IF msg[r].conv = c THEN NoMsg ELSE msg[r]]
  /\ UNCHANGED <<up, pc, memory, req, told, history, faults>>

\* A sweep may stall past the lease it took; that counts as a fault.
Stalled == \E p \in Proc : /\ pc[p] \in Closer
                           /\ run[close[p].turn].state = "running"
                           /\ run[close[p].turn].token = close[p].token
                           /\ run[close[p].turn].left = 1

Tick ==
  /\ \E t \in Turn : run[t].left > Lapsed
  /\ run' = [t \in Turn |-> [run[t] EXCEPT !.left = IF @ > Lapsed THEN @ - 1 ELSE @]]
  /\ IF Stalled THEN faults < MaxFaults /\ faults' = faults + 1
                ELSE UNCHANGED faults
  /\ UNCHANGED <<convs, gone, msg, up, pc, memory, req, told, history>>

\* The statement a process is in fails (SQLITE_BUSY, disk I/O).
StorageError(p) ==
  /\ faults < MaxFaults /\ faults' = faults + 1
  /\ pc[p] \in {"claim", "insert", "fence", "settle", "protocol", "prepare",
                "open", "bind", "save", "finish", "fail", "abort"} \cup Closer
  /\ Raise(p)
  /\ UNCHANGED <<database, up, jr, req, history>>

MaintenanceError(r) ==
  /\ faults < MaxFaults /\ faults' = faults + 1
  /\ jr[r].saving \/ Maintained(r)
  /\ jr' = [jr EXCEPT ![r] = [Released(@) EXCEPT !.maint = "dead"]]
  /\ UNCHANGED <<database, up, pc, todo, close, tries, lease, req, told, history>>

\* The API process dies: every request and the sweep with it, the rows stay.
Crash ==
  /\ up # "down" /\ faults < MaxFaults
  /\ up' = "down" /\ faults' = faults + 1
  /\ pc' = [p \in Proc |-> IF p = Sweeper THEN "idle"
                           ELSE IF pc[p] = "idle" THEN "idle" ELSE "done"]
  /\ todo' = [p \in Proc |-> {}]
  /\ close' = [p \in Proc |-> NoClose]
  /\ tries' = [r \in Req |-> 0]
  /\ lease' = [r \in Req |-> 0]
  /\ jr' = [r \in Req |-> NewJournal(0)]
  /\ UNCHANGED <<database, req, told, history>>

\* lifespan: the stale turns are swept before requests are served.
Restart ==
  /\ up = "down" /\ up' = "booting"
  /\ \E C \in SUBSET Turn, d \in 0..Delay :
       Candidates(C, d) /\ todo' = [todo EXCEPT ![Sweeper] = Observed(C)]
  /\ pc' = [pc EXCEPT ![Sweeper] = "sweep"]
  /\ UNCHANGED <<database, close, tries, lease, jr, req, told, history, faults>>

-----------------------------------------------------------------------------
Init ==
  /\ convs \in SUBSET Conv /\ gone = {}
  /\ run = [t \in Turn |-> NoRun]
  /\ msg = [r \in Req |-> NoMsg]
  /\ up = "down"
  /\ pc = [p \in Proc |-> "idle"]
  /\ todo = [p \in Proc |-> {}]
  /\ close = [p \in Proc |-> NoClose]
  /\ tries = [r \in Req |-> 0]
  /\ lease = [r \in Req |-> 0]
  /\ jr = [r \in Req |-> NewJournal(0)]
  /\ req \in [Req -> Request]
  /\ told = [r \in Req |-> "none"]
  /\ sent = [r \in Req |-> 0]
  /\ shown = [r \in Req |-> 0]
  /\ owner = [t \in Turn |-> None]
  /\ calls = [t \in Turn |-> 0]
  /\ wrote = [t \in Turn |-> 0]
  /\ faults = 0

\* What a request does on its own account, once it has arrived.
Claim(r) == ClaimRead(r) \/ ClaimInsert(r, FALSE) \/ ClaimFence(r) \/ ClaimSettle(r)
            \/ ProtocolError(r)
Execute(r) == \/ Prepare(r, FALSE) \/ OpenJournal(r, FALSE) \/ BindProvider(r, FALSE)
              \/ CallProvider(r) \/ SaveToolResult(r, FALSE) \/ ShowToolResult(r)
              \/ FinishTurn(r, FALSE) \/ CloseJournal(r)
Generate(r) == StreamText(r) \/ ToolResult(r) \/ EndStream(r) \/ NoticeLostLease(r)
Sweep(p) == SweepNext(p) \/ SweepDone(p) \/ LoadRun(p) \/ LoadAssistant(p) \/ CloseTurn(p)
Maintain(r) == Heartbeat(r) \/ TakeSnapshot(r) \/ SaveSnapshot(r)
CutShort(r) == \/ Disconnect(r) \/ ClaimInsert(r, TRUE) \/ Prepare(r, TRUE)
               \/ OpenJournal(r, TRUE) \/ BindProvider(r, TRUE)
               \/ SaveToolResult(r, TRUE) \/ FinishTurn(r, TRUE)

Next ==
  \/ \E r \in Req : \/ Arrive(r) \/ Claim(r) \/ Execute(r) \/ Generate(r)
                    \/ ProviderError(r) \/ Maintain(r) \/ CutShort(r)
                    \/ MaintenanceError(r)
  \/ \E p \in Proc : Sweep(p) \/ StorageError(p)
  \/ \E c \in Conv : DeleteConversation(c)
  \/ Visit \/ Tick \/ Crash \/ Restart

Spec == Init /\ [][Next]_vars

\* The API process and its event loop run everything a request has started;
\* time passes; a crashed process is started again; the account keeps sending
\* requests; and a provider stream ends, since every provider call has a
\* timeout and the graph a recursion limit. Nothing makes the client stay, a
\* heartbeat be on time or a request for the same turn come back.
Fairness ==
  /\ WF_vars(Tick) /\ WF_vars(Restart) /\ WF_vars(Visit)
  /\ \A p \in Proc : WF_vars(Sweep(p))
  /\ \A r \in Req : /\ WF_vars(Claim(r)) /\ WF_vars(Execute(r))
                     /\ WF_vars(Generate(r)) /\ WF_vars(SaveSnapshot(r))

FairSpec == Spec /\ Fairness

-----------------------------------------------------------------------------
TypeOK ==
  /\ convs \subseteq Conv /\ gone \subseteq Conv
  /\ run \in [Turn -> Run]
  /\ msg \in [Req -> Message]
  /\ up \in {"serving", "booting", "down"}
  /\ pc \in [Proc -> PC]
  /\ todo \in [Proc -> SUBSET Candidate]
  /\ close \in [Proc -> Closing]
  /\ tries \in [Req -> Nat]
  /\ lease \in [Req -> Nat]
  /\ jr \in [Req -> Journal]
  /\ req \in [Req -> Request]
  /\ told \in [Req -> {"none", "failed", "conflict", "in_progress"} \cup Terminal]
  /\ sent \in [Req -> Nat] /\ shown \in [Req -> Nat]
  /\ owner \in [Turn -> Req \cup {None}]
  /\ calls \in [Turn -> Nat] /\ wrote \in [Turn -> Nat]
  /\ faults \in Nat

\* A turn id calls the provider and writes its transcript pair at most once,
\* however often it is retried, expires, loses its process or is deleted
\* (README.md:218; the tombstone of delete_conversation).
AtMostOneExecution == \A t \in Turn : calls[t] <= 1 /\ wrote[t] <= 1

\* The receipt and the row it points to always tell the same story: streaming
\* while the turn runs, its outcome afterwards, whoever closed it.
ReceiptMatchesTranscript ==
  \A t \in Turn : run[t].msg # None =>
    msg[run[t].msg].status = (IF run[t].state = "running" THEN "streaming"
                                                          ELSE run[t].state)

\* No row is left that no receipt answers for: a process exit cannot leave an
\* unbound streaming placeholder (langgraph_runner.py:781).
NoOrphanTranscript ==
  \A r \in Req : msg[r].status # "absent" => run[T(r)].msg = r

\* A tool result the client has seen went into the row, whatever fails next.
ShownIsDurable ==
  \A r \in Req : msg[r].status # "absent" => shown[r] <= msg[r].tools

\* A completed row took in every tool result the client received and holds every
\* delta up to the cap, and no more: a reply is cut at the cap, nowhere else.
CompleteIsWhole ==
  \A r \in Req : msg[r].status = "complete" =>
    /\ msg[r].text = (IF sent[r] < TextCap THEN sent[r] ELSE TextCap)
    /\ msg[r].tools = shown[r]

\* While its executor streams under its own lease, a journal that believes it
\* is clean has nothing unsaved, and it knows the version of its row: text
\* that arrives during a checkpoint is not acknowledged by it.
JournalInSync ==
  \A r \in Req :
    pc[r] \in {"stream", "save", "show", "finish"} /\ msg[r].status = "streaming"
      /\ run[T(r)].token = lease[r]
    => /\ msg[r].version = jr[r].version
       /\ ~jr[r].dirty => msg[r].text = jr[r].text

\* What a client was told holds for good. The outcome reported for a valid body
\* is the outcome of the turn. A protocol error is reported only of a turn that
\* never reached a provider or a transcript and never will, even if the receipt
\* was lost and swept as aborted. And a request that held the turn and reported
\* a failure never finds it completed: what was told to fail has not succeeded.
ToldIsTrue ==
  \A r \in Req :
    /\ told[r] \in Terminal =>
         IF req[r].payload \in InvalidPayload
         THEN /\ run[T(r)].state \in {"error", "aborted"}
              /\ calls[T(r)] = 0 /\ wrote[T(r)] = 0
         ELSE run[T(r)].state = told[r]
    /\ told[r] = "failed" /\ owner[T(r)] = r => run[T(r)].state # "complete"

\* A terminal receipt is never reopened or overwritten, and its row is not
\* touched again except by deletion: fencing stops a stale executor.
TerminalIsFinal ==
  [][\A t \in Turn : run[t].state \in Terminal =>
       /\ run'[t].state = run[t].state
       /\ run'[t].msg \in {run[t].msg, None}
       /\ \A r \in Req : T(r) = t => msg'[r] \in {msg[r], NoMsg}]_vars

\* Once a turn is fenced, its executor writes nothing: what a row holds
\* changes only under the lease of the request that created it and only by adding
\* to it, and closing an expired turn keeps what was saved.
ContentUnderLease ==
  [][\A r \in Req : msg[r].status # "absent" /\ msg'[r].status # "absent" =>
       /\ msg'[r].text >= msg[r].text /\ msg'[r].tools >= msg[r].tools
       /\ run[T(r)].token # 1 => /\ msg'[r].text = msg[r].text
                                 /\ msg'[r].tools = msg[r].tools]_vars

\* Every claimed turn reaches an outcome, without anyone retrying it.
EveryTurnSettles ==
  \A t \in Turn : run[t].state = "running" ~> run[t].state \in Terminal

\* The ledger implements the promise of TurnReceipt.
Receipt == INSTANCE TurnReceipt WITH
  outcome    <- [t \in Turn |-> run[t].state],
  transcript <- [t \in Turn |-> IF run[t].msg # None THEN msg[run[t].msg].status
                               ELSE IF wrote[t] > 0 THEN "deleted" ELSE "none"],
  executed   <- [t \in Turn |-> calls[t] > 0]

ImplementsReceipt == Receipt!Spec
=============================================================================
