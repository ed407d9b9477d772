--------------------- MODULE AgentTurnLedgerRefinement ----------------------
(***************************************************************************)
(* The ledger implements TurnReceipt, and a settled turn is settled for    *)
(* good. Both rest on one classification: seen from outside, a step keeps  *)
(* every turn as it is, forgets a conversation, or moves a single turn     *)
(* through acceptance, publication, execution or settlement.               *)
(***************************************************************************)
EXTENDS AgentTurnLedgerProofs

\* What the conversation shows of a turn.
Story(t) == IF run[t].msg # None THEN msg[run[t].msg].status
            ELSE IF wrote[t] > 0 THEN "deleted" ELSE "none"

\* No receipt moves; a row is written only while its turn runs.
Still ==
  /\ \A t \in Turn : run'[t].state = run[t].state /\ run'[t].msg = run[t].msg
  /\ \A r \in Req : /\ msg'[r].status = msg[r].status
                    /\ msg'[r] = msg[r] \/ run[T(r)].state = "running"
  /\ UNCHANGED <<wrote, calls>>

\* Rows go, and the receipts that pointed at them stay.
Forgets ==
  /\ \A t \in Turn :
       /\ run'[t].state = run[t].state
       /\ \/ run'[t].msg = None
          \/ /\ run'[t].msg = run[t].msg
             /\ run[t].msg # None => msg'[run[t].msg] = msg[run[t].msg]
  /\ \A r \in Req : msg'[r] \in {msg[r], NoMsg}
  /\ UNCHANGED <<wrote, calls>>

\* Nothing happens to the other turns.
Elsewhere(t) ==
  /\ \A u \in Turn \ {t} :
       /\ run'[u].state = run[u].state /\ run'[u].msg = run[u].msg
       /\ wrote'[u] = wrote[u] /\ calls'[u] = calls[u]
  /\ \A r \in Req : T(r) # t => msg'[r] = msg[r]

Accepts(t) ==
  /\ run[t].state = "none" /\ run'[t].state = "running"
  /\ run'[t].msg = None /\ wrote'[t] = wrote[t] /\ calls'[t] = calls[t]

Publishes(t) ==
  /\ run[t].state = "running" /\ run'[t].state = "running"
  /\ run[t].msg = None /\ wrote[t] = 0 /\ calls'[t] = calls[t]
  /\ run'[t].msg # None /\ msg'[run'[t].msg].status = "streaming"

Calls(t) ==
  /\ run'[t].state = run[t].state /\ run'[t].msg = run[t].msg /\ msg' = msg
  /\ wrote[t] = 1 /\ wrote'[t] = 1 /\ calls[t] = 0 /\ calls'[t] = 1

Settles(t, s) ==
  /\ run[t].state = "running" /\ run'[t].state = s
  /\ run'[t].msg = run[t].msg /\ wrote'[t] = wrote[t] /\ calls'[t] = calls[t]
  /\ run[t].msg # None => msg'[run[t].msg].status = s

Moves(t) == /\ Elsewhere(t)
            /\ \/ Accepts(t)
               \/ Publishes(t)
               \/ Calls(t)
               \/ \E s \in Terminal : Settles(t, s)

Effect == \/ Still
          \/ Forgets
          \/ \E t \in Turn : Moves(t)

-----------------------------------------------------------------------------
\* A step that leaves the tables alone moves nothing.
LEMMA UntouchedEffect == ASSUME UNCHANGED <<run, msg, wrote, calls>> PROVE Still
BY DEF Still

\* A settling transaction moves its turn.
LEMMA SettleEffect ==
  ASSUME TypeInv, LedgerInv, NEW t \in Turn, NEW s \in Terminal, run[t].state = "running",
         run' = [run EXCEPT ![t].state = s, ![t].left = Lapsed],
         \A r \in Req : T(r) # t => msg'[r] = msg[r],
         run[t].msg # None => msg'[run[t].msg].status = s,
         UNCHANGED <<wrote, calls>>
  PROVE  Moves(t)
<1>1. /\ \A u \in Turn \ {t} : run'[u] = run[u]
      /\ run'[t].state = s /\ run'[t].msg = run[t].msg
  BY DEF TypeInv, DataType, Run
<1>2. Elsewhere(t) /\ Settles(t, s)
  BY <1>1 DEF Elsewhere, Settles
<1> QED BY <1>2 DEF Moves

\* A checkpoint writes a row of a running turn.
LEMMA SaveEffect ==
  ASSUME TypeInv, NEW r \in Req, NEW x, NEW y, NEW d, CanCheckpoint(r, d), Save(r, x, y),
         \A t \in Turn : run'[t].state = run[t].state /\ run'[t].msg = run[t].msg,
         UNCHANGED <<wrote, calls>>
  PROVE  Still
<1>1. msg[r] \in Message /\ msg \in [Req -> Message]
  BY DEF TypeInv, DataType
<1>2. msg'[r].status = msg[r].status /\ \A q \in Req \ {r} : msg'[q] = msg[q]
  BY <1>1 DEF Save, Message
<1>3. run[T(r)].state = "running"
  BY DEF CanCheckpoint, Owns
<1> QED BY <1>2, <1>3 DEF Still

\* The forced checkpoints of the runner.
LEMMA CheckpointEffect ==
  ASSUME TypeInv, NEW r \in Req, NEW next, NEW maint, NEW cut \in BOOLEAN,
         Checkpoint(r, next, maint, cut), UNCHANGED history
  PROVE  Still
<1>1. run' = run /\ UNCHANGED <<wrote, calls>>
  BY DEF Checkpoint, history
<1>2. CASE msg' = msg
  BY <1>1, <1>2 DEF Still
<1>3. CASE \E d \in 0..Delay : CanCheckpoint(r, d) /\ Save(r, jr[r].text, jr[r].tools)
  BY <1>1, <1>3, SaveEffect
<1> QED BY <1>2, <1>3 DEF Checkpoint

\* Fencing replaces a token.
LEMMA FenceEffect ==
  ASSUME TypeInv, NEW p, NEW c \in Candidate, NEW d, NEW b, Fence(p, c, d, b),
         UNCHANGED history
  PROVE  Still
<1>1. c.turn \in Turn /\ run \in [Turn -> Run]
  BY DEF Candidate, TypeInv, DataType
<1>2. \A t \in Turn : run'[t].state = run[t].state /\ run'[t].msg = run[t].msg
  BY <1>1 DEF Fence, Run
<1> QED BY <1>2 DEF Fence, Still, history

\* Time and the heartbeat move the expiry alone; a periodic checkpoint saves.
LEMMA ClockEffect ==
  ASSUME TypeInv,
         \/ Tick
         \/ \E r \in Req : Heartbeat(r) \/ SaveSnapshot(r)
  PROVE  Still
<1>1. UNCHANGED <<wrote, calls>>
  BY DEF Tick, Heartbeat, SaveSnapshot, history
<1>2. CASE Tick
  <2>1. \A t \in Turn : run[t] \in Run
    BY DEF TypeInv, DataType
  <2>2. \A t \in Turn : run'[t] = [run[t] EXCEPT !.left = IF @ > Lapsed THEN @ - 1 ELSE @]
    BY <1>2 DEF Tick
  <2>3. \A t \in Turn : run'[t].state = run[t].state /\ run'[t].msg = run[t].msg
    BY <2>1, <2>2 DEF Run
  <2>4. msg' = msg
    BY <1>2 DEF Tick
  <2> QED BY <1>1, <2>3, <2>4 DEF Still
<1>3. ASSUME NEW r \in Req, Heartbeat(r) PROVE Still
  <2>1. \A t \in Turn : run'[t].state = run[t].state /\ run'[t].msg = run[t].msg
    BY <1>3 DEF Heartbeat, TypeInv, DataType, Run
  <2> QED BY <1>1, <1>3, <2>1 DEF Heartbeat, Still
<1>4. ASSUME NEW r \in Req, SaveSnapshot(r) PROVE Still
  <2>1. run' = run
    BY <1>4 DEF SaveSnapshot
  <2>2. CASE msg' = msg
    BY <1>1, <2>1, <2>2, UntouchedEffect
  <2>3. CASE \E d \in 0..Delay : CanCheckpoint(r, d) /\ Save(r, jr[r].snapText, jr[r].snapTools)
    BY <1>1, <2>1, <2>3, SaveEffect
  <2> QED BY <1>4, <2>2, <2>3 DEF SaveSnapshot
<1> QED BY <1>2, <1>3, <1>4

\* Inserting the row of a turn accepts it.
LEMMA ClaimInsertEffect ==
  ASSUME TypeInv, LedgerInv, NEW r \in Req, NEW cut \in BOOLEAN, ClaimInsert(r, cut)
  PROVE  Effect
<1>0. UNCHANGED <<msg, wrote, calls>> /\ T(r) \in Turn
  BY Typed DEF ClaimInsert
<1>1. CASE run' = run
  BY <1>0, <1>1, UntouchedEffect DEF Effect
<1>2. CASE /\ run[T(r)].state = "none"
           /\ \E d \in 0..Delay : run' = [run EXCEPT ![T(r)] =
               [state |-> "running", payload |-> req[r].payload,
                requested |-> req[r].conv, conv |-> req[r].conv, msg |-> None,
                token |-> 1, left |-> Lease - d]]
  <2>1. /\ run'[T(r)].state = "running" /\ run'[T(r)].msg = None
        /\ \A u \in Turn \ {T(r)} : run'[u] = run[u]
    BY <1>0, <1>2 DEF TypeInv, DataType
  <2>2. Elsewhere(T(r)) /\ Accepts(T(r))
    BY <1>0, <1>2, <2>1 DEF Elsewhere, Accepts
  <2> QED BY <1>0, <2>2 DEF Moves, Effect
<1> QED BY <1>1, <1>2 DEF ClaimInsert

\* Preparing the conversation publishes the turn.
LEMMA PrepareEffect ==
  ASSUME TypeInv, LedgerInv, NEW r \in Req, NEW cut \in BOOLEAN, Prepare(r, cut)
  PROVE  Effect
<1>p. PICK t \in Turn : t = T(r)
  BY Typed
<1>0. calls' = calls /\ wrote[t] = 0 /\ r # None
  BY <1>p, Typed DEF Prepare, LedgerInv, OwnerOK
<1>1. CASE UNCHANGED <<run, msg, wrote>>
  BY <1>0, <1>1, UntouchedEffect DEF Effect
<1>2. ASSUME NEW c, NEW d, Owns(t, lease[r], d), run[t].msg = None,
             msg' = [msg EXCEPT ![r] = [conv |-> c, status |-> "streaming",
                                        version |-> 1, text |-> 0, tools |-> 0]],
             run' = [run EXCEPT ![t].conv = c, ![t].msg = r],
             wrote' = [wrote EXCEPT ![t] = @ + 1]
      PROVE  Effect
  <2>1. run'[t] = [run[t] EXCEPT !.conv = c, !.msg = r] /\ run[t] \in Run
    BY <1>2 DEF TypeInv, DataType
  <2>2. run[t].state = "running" /\ run'[t].state = "running" /\ run'[t].msg = r
    <3>1. run'[t].state = run[t].state /\ run'[t].msg = r
      BY <2>1 DEF Run
    <3>2. run[t].state = "running"
      BY <1>2 DEF Owns
    <3> QED BY <3>1, <3>2
  <2>3. \A u \in Turn \ {t} : run'[u] = run[u] /\ wrote'[u] = wrote[u]
    BY <1>2 DEF TypeInv, DataType, RestType
  <2>4. msg'[r].status = "streaming" /\ \A q \in Req \ {r} : msg'[q] = msg[q]
    BY <1>2 DEF TypeInv, DataType
  <2>5. Elsewhere(t)
    BY <1>0, <1>p, <2>3, <2>4 DEF Elsewhere
  <2>6. Publishes(t)
    BY <1>0, <1>2, <2>2, <2>4 DEF Publishes
  <2> QED BY <1>0, <2>5, <2>6 DEF Moves, Effect
<1> QED BY <1>p, <1>1, <1>2 DEF Prepare

\* The start of the graph executes it.
LEMMA CallProviderEffect ==
  ASSUME TypeInv, LedgerInv, NEW r \in Req, CallProvider(r)
  PROVE  Effect
<1>0. T(r) \in Turn /\ calls[T(r)] = 0 /\ wrote[T(r)] = 1
  BY Typed DEF CallProvider, LedgerInv, OwnerOK, Early, Streaming
<1>1. /\ calls'[T(r)] = 1 /\ \A u \in Turn \ {T(r)} : calls'[u] = calls[u]
      /\ UNCHANGED <<run, msg, wrote>>
  BY <1>0 DEF CallProvider, TypeInv, RestType, database
<1>2. Elsewhere(T(r)) /\ Calls(T(r))
  BY <1>0, <1>1 DEF Elsewhere, Calls
<1> QED BY <1>0, <1>2 DEF Moves, Effect

\* A protocol error settles a turn that has no transcript.
LEMMA ProtocolErrorEffect ==
  ASSUME TypeInv, LedgerInv, NEW r \in Req, ProtocolError(r)
  PROVE  Effect
<1>0. UNCHANGED <<msg, wrote, calls>> /\ T(r) \in Turn
  BY Typed DEF ProtocolError, history
<1>1. CASE run' = run
  BY <1>0, <1>1, UntouchedEffect DEF Effect
<1>2. CASE /\ \E d \in 0..Delay : Owns(T(r), lease[r], d)
           /\ run' = [run EXCEPT ![T(r)].state = "error", ![T(r)].left = Lapsed]
  <2>1. run[T(r)].state = "running" /\ "error" \in Terminal
    BY <1>2 DEF Owns, Terminal
  <2>2. run[T(r)].msg = None
    BY <1>0 DEF ProtocolError, LedgerInv, OwnerOK, RunOK
  <2> QED BY <1>0, <1>2, <2>1, <2>2, SettleEffect DEF Effect
<1> QED BY <1>1, <1>2 DEF ProtocolError

\* journal.finish settles receipt and row.
LEMMA FinishTurnEffect ==
  ASSUME TypeInv, LedgerInv, NEW r \in Req, NEW cut \in BOOLEAN, FinishTurn(r, cut)
  PROVE  Effect
<1> DEFINE s == Outcome(r)
<1>0. T(r) \in Turn /\ s \in Terminal /\ UNCHANGED <<wrote, calls>>
  BY Typed DEF FinishTurn, Outcome, Terminal, history
<1>1. CASE UNCHANGED <<run, msg>>
  BY <1>0, <1>1, UntouchedEffect DEF Effect
<1>2. CASE /\ \E d \in 0..Delay : CanCheckpoint(r, d)
           /\ run' = [run EXCEPT ![T(r)].state = s, ![T(r)].left = Lapsed]
           /\ msg' = [msg EXCEPT ![r] = Final(r)]
  <2>1. run[T(r)].state = "running" /\ msg[r].status = "streaming"
    BY <1>2 DEF CanCheckpoint, Owns, Writable
  <2>2. run[T(r)].msg = r
    BY <2>1 DEF LedgerInv, BoundOK
  <2>3. msg'[r].status = s
    BY <1>2 DEF Final, TypeInv, DataType, Message
  <2>4. \A q \in Req : T(q) # T(r) => msg'[q] = msg[q]
    BY <1>2 DEF TypeInv, DataType
  <2> QED BY <1>0, <1>2, <2>1, <2>2, <2>3, <2>4, SettleEffect DEF Effect
<1> QED BY <1>1, <1>2 DEF FinishTurn

\* So does the terminal transaction of finish_claimed_turn.
LEMMA CloseTurnEffect ==
  ASSUME TypeInv, LedgerInv, NEW p \in Proc, CloseTurn(p)
  PROVE  Effect
<1> DEFINE t == close[p].turn
           m == close[p].mid
           seen == close[p].seen
           as == IF Live(p) \/ seen.status = "absent" THEN close[p].as ELSE seen.status
<1>0. UNCHANGED <<wrote, calls>>
  BY DEF CloseTurn, history
<1>1. CASE UNCHANGED database
  BY <1>0, <1>1, UntouchedEffect DEF Effect, database
<1>2. CASE /\ \E d \in 0..Delay : CanClose(p, d)
           /\ run' = [run EXCEPT ![t].state = as, ![t].left = Lapsed]
           /\ msg' = IF Live(p)
                     THEN [msg EXCEPT ![m] = Closed(p, as)]
                     ELSE msg
  <2>1. /\ t \in Turn /\ close[p].as \in Terminal
        /\ seen \in Message /\ m \in Req \cup {None}
        /\ CloserOK(p) /\ pc[p] = "close"
    BY Typed DEF TypeInv, ControlType, Closing, LedgerInv, CloseTurn, Closer
  <2>2. run[t].state = "running" /\ run[t].token = close[p].token /\ Unmoved(p)
    BY <1>2 DEF CanClose, Owns
  <2>3. as \in Terminal
    BY <2>1 DEF Message, Live
  <2>4. CASE ~Live(p)
    <3>1. run[t].msg = None
      BY <2>1, <2>2, <2>4 DEF CloserOK, Live, Message, Terminal
    <3> QED BY <1>0, <1>2, <2>1, <2>2, <2>3, <2>4, <3>1, SettleEffect DEF Effect
  <2>5. CASE Live(p)
    <3>1. seen.status = "streaming" /\ msg[m].status = "streaming"
      BY <2>2, <2>5 DEF Live, Unmoved
    <3>2. m \in Req /\ T(m) = t
      BY <2>1, <3>1 DEF CloserOK
    <3>3. run[t].msg = m
      BY <3>1, <3>2 DEF LedgerInv, BoundOK
    <3>4. msg' = [msg EXCEPT ![m] = Closed(p, as)]
      BY <1>2, <2>5
    <3>5. msg'[m].status = as
      BY <3>2, <3>4 DEF Closed, TypeInv, DataType, Message
    <3>6. \A q \in Req : T(q) # t => msg'[q] = msg[q]
      BY <3>2, <3>4 DEF TypeInv, DataType
    <3> QED BY <1>0, <1>2, <2>1, <2>2, <2>3, <3>3, <3>5, <3>6, SettleEffect DEF Effect
  <2> QED BY <2>4, <2>5
<1> QED BY <1>1, <1>2 DEF CloseTurn

\* Deleting a conversation forgets the transcripts it holds.
LEMMA DeleteEffect ==
  ASSUME TypeInv, LedgerInv, NEW c \in Conv, DeleteConversation(c)
  PROVE  Effect
<1>1. UNCHANGED <<wrote, calls>> /\ c # None
  BY LedgerAssumption DEF DeleteConversation, history
<1>2. \A t \in Turn :
        /\ run'[t].state = run[t].state
        /\ c \in {run[t].requested, run[t].conv} => run'[t].msg = None
        /\ c \notin {run[t].requested, run[t].conv} => run'[t] = run[t]
  BY DEF DeleteConversation, TypeInv, DataType, Run
<1>3. \A r \in Req : msg'[r] = IF msg[r].conv = c THEN NoMsg ELSE msg[r]
  BY DEF DeleteConversation
<1>4. ASSUME NEW t \in Turn, c \notin {run[t].requested, run[t].conv}, run[t].msg # None
      PROVE  msg'[run[t].msg] = msg[run[t].msg]
  <2>1. /\ run[t].msg \in Req \cup {None} /\ TaleOK(t) /\ RunOK(t)
        /\ run[t].state \in {"none", "running"} \cup Terminal
    BY Typed DEF LedgerInv
  <2>2. run[t].msg \in Req /\ T(run[t].msg) = t /\ msg[run[t].msg].status # "absent"
    BY <1>4, <2>1 DEF TaleOK, RunOK, Terminal
  <2>3. msg[run[t].msg].conv = run[t].conv
    BY <2>2 DEF LedgerInv, BoundOK
  <2> QED BY <1>3, <1>4, <2>2, <2>3
<1>5. Forgets
  BY <1>1, <1>2, <1>3, <1>4 DEF Forgets
<1> QED BY <1>5 DEF Effect

\* Every step of the ledger has one of these effects.
LEMMA StepEffect ==
  ASSUME TypeInv, LedgerInv, [Next]_vars
  PROVE  Effect
<1>1. ASSUME NEW r \in Req,
             \/ Arrive(r) \/ ClaimRead(r) \/ ClaimSettle(r) \/ ShowToolResult(r)
             \/ EndStream(r) \/ ToolResult(r) \/ CloseJournal(r) \/ StreamText(r)
             \/ NoticeLostLease(r) \/ ProviderError(r) \/ TakeSnapshot(r)
             \/ MaintenanceError(r) \/ Disconnect(r)
      PROVE  Effect
  <2>1. UNCHANGED <<run, msg, wrote, calls>>
    BY <1>1 DEF Arrive, ClaimRead, ClaimSettle, ShowToolResult, EndStream, ToolResult,
       CloseJournal, StreamText, NoticeLostLease, ProviderError, TakeSnapshot,
       MaintenanceError, Disconnect, database, history
  <2> QED BY <2>1, UntouchedEffect DEF Effect
<1>2. ASSUME NEW p \in Proc,
             SweepDone(p) \/ LoadRun(p) \/ LoadAssistant(p) \/ StorageError(p)
      PROVE  Effect
  <2>1. UNCHANGED <<run, msg, wrote, calls>>
    BY <1>2 DEF SweepDone, LoadRun, LoadAssistant, StorageError, database, history
  <2> QED BY <2>1, UntouchedEffect DEF Effect
<1>3. ASSUME Visit \/ Crash \/ Restart \/ UNCHANGED vars PROVE Effect
  <2>1. UNCHANGED <<run, msg, wrote, calls>>
    BY <1>3 DEF Visit, Crash, Restart, vars, database, history
  <2> QED BY <2>1, UntouchedEffect DEF Effect
<1>4. ASSUME NEW p \in Proc, SweepNext(p) PROVE Effect
  <2>1. PICK c \in todo[p], d \in 0..Delay :
          \/ Fence(p, c, d, "sweep")
          \/ UNCHANGED <<database, pc, close>>
    BY <1>4 DEF SweepNext
  <2>2. c \in Candidate /\ UNCHANGED history
    BY <1>4 DEF TypeInv, ControlType, SweepNext
  <2>3. CASE Fence(p, c, d, "sweep")
    BY <2>2, <2>3, FenceEffect DEF Effect
  <2>4. CASE UNCHANGED <<database, pc, close>>
    BY <2>2, <2>4, UntouchedEffect DEF Effect, database, history
  <2> QED BY <2>1, <2>3, <2>4
<1>5. ASSUME NEW r \in Req, ClaimFence(r) PROVE Effect
  <2> DEFINE c == [turn |-> close[r].turn, token |-> close[r].token]
  <2>1. c \in Candidate /\ UNCHANGED history
    BY <1>5, Typed DEF Candidate, ClaimFence
  <2>2. CASE \E d \in 0..Delay : Fence(r, c, d, "settle")
    BY <2>1, <2>2, FenceEffect DEF Effect
  <2>3. CASE UNCHANGED database
    BY <2>1, <2>3, UntouchedEffect DEF Effect, database, history
  <2> QED BY <1>5, <2>2, <2>3 DEF ClaimFence
<1>6. ASSUME NEW r \in Req, NEW cut \in BOOLEAN,
             OpenJournal(r, cut) \/ BindProvider(r, cut) \/ SaveToolResult(r, cut)
      PROVE  Effect
  BY <1>6, CheckpointEffect DEF OpenJournal, BindProvider, SaveToolResult, Effect
<1>7. ASSUME NEW r \in Req, NEW cut \in BOOLEAN,
             ClaimInsert(r, cut) \/ Prepare(r, cut) \/ FinishTurn(r, cut)
      PROVE  Effect
  BY <1>7, ClaimInsertEffect, PrepareEffect, FinishTurnEffect
<1>8. ASSUME NEW r \in Req, Claim(r) \/ Execute(r) PROVE Effect
  BY <1>1, <1>5, <1>6, <1>7, <1>8, ProtocolErrorEffect, CallProviderEffect DEF Claim, Execute
<1>9. ASSUME NEW r \in Req, Generate(r) \/ Maintain(r) \/ CutShort(r) PROVE Effect
  BY <1>1, <1>6, <1>7, <1>9, ClockEffect DEF Generate, Maintain, CutShort, Effect
<1>10. ASSUME NEW p \in Proc, Sweep(p) PROVE Effect
  BY <1>2, <1>4, <1>10, CloseTurnEffect DEF Sweep
<1>11. Tick => Effect
  BY ClockEffect DEF Effect
<1> QED BY <1>1, <1>2, <1>3, <1>8, <1>9, <1>10, <1>11, DeleteEffect DEF Next

-----------------------------------------------------------------------------
\* No effect reopens, overwrites or edits a settled turn.
LEMMA EffectFinal ==
  ASSUME Effect, NEW t \in Turn, run[t].state \in Terminal
  PROVE  /\ run'[t].state = run[t].state
         /\ run'[t].msg \in {run[t].msg, None}
         /\ \A r \in Req : T(r) = t => msg'[r] \in {msg[r], NoMsg}
<1>1. run[t].state \notin {"none", "running"}
  BY DEF Terminal
<1>2. CASE Still
  BY <1>1, <1>2 DEF Still
<1>3. CASE Forgets
  BY <1>3 DEF Forgets
<1>4. ASSUME NEW u \in Turn, Moves(u), u # t
      PROVE  /\ run'[t].state = run[t].state /\ run'[t].msg = run[t].msg
             /\ \A r \in Req : T(r) = t => msg'[r] = msg[r]
  BY <1>4 DEF Moves, Elsewhere
<1>5. ASSUME Moves(t)
      PROVE  run'[t].state = run[t].state /\ run'[t].msg = run[t].msg /\ msg' = msg
  BY <1>1, <1>5 DEF Moves, Accepts, Publishes, Calls, Settles
<1> QED BY <1>2, <1>3, <1>4, <1>5 DEF Effect

\* A terminal receipt is never reopened or overwritten, and its row is not
\* touched again except by deletion: fencing stops a stale executor.
THEOREM SettledForGood == Spec => TerminalIsFinal
<1>1. TypeInv /\ LedgerInv /\ [Next]_vars =>
        [\A t \in Turn : run[t].state \in Terminal =>
           /\ run'[t].state = run[t].state
           /\ run'[t].msg \in {run[t].msg, None}
           /\ \A r \in Req : T(r) = t => msg'[r] \in {msg[r], NoMsg}]_vars
  BY StepEffect, EffectFinal
<1> QED BY <1>1, LedgerCorrect, PTL DEF Spec, TerminalIsFinal

-----------------------------------------------------------------------------
\* A turn whose pointer, row and count of pairs stay tells the same story.
LEMMA StoryKept ==
  ASSUME NEW t \in Turn, run'[t].msg = run[t].msg, wrote'[t] = wrote[t],
         run[t].msg # None => msg'[run[t].msg].status = msg[run[t].msg].status
  PROVE  Story(t)' = Story(t)
BY DEF Story

\* The row a receipt points to is one of its own turn, and has a status.
LEMMA StoryTold ==
  ASSUME TypeInv, LedgerInv, NEW t \in Turn, run[t].msg # None
  PROVE  /\ run[t].msg \in Req /\ T(run[t].msg) = t /\ wrote[t] = 1
         /\ Story(t) \in {"streaming"} \cup Terminal
         /\ run[t].state = "running" => Story(t) = "streaming"
<1>1. /\ run[t].msg \in Req \cup {None} /\ TaleOK(t) /\ RunOK(t)
      /\ run[t].state \in {"none", "running"} \cup Terminal
  BY Typed DEF LedgerInv
<1>2. run[t].state # "none" /\ wrote[t] = 1 /\ T(run[t].msg) = t
  BY <1>1 DEF RunOK, TaleOK
<1>3. Story(t) = (IF run[t].state = "running" THEN "streaming" ELSE run[t].state)
  BY <1>1 DEF TaleOK, Story
<1> QED BY <1>1, <1>2, <1>3

\* What TurnReceipt sees of the ledger: the refinement mapping.
Outcomes == [t \in Turn |-> run[t].state]
Stories  == [t \in Turn |-> Story(t)]
Executed == [t \in Turn |-> calls[t] > 0]

\* The other turns look the same to TurnReceipt.
LEMMA ElsewhereKept ==
  ASSUME TypeInv, LedgerInv, NEW t \in Turn, Elsewhere(t)
  PROVE  \A u \in Turn \ {t} : /\ Outcomes'[u] = Outcomes[u]
                               /\ Stories'[u] = Stories[u]
                               /\ Executed'[u] = Executed[u]
<1> SUFFICES ASSUME NEW u \in Turn \ {t}
    PROVE  /\ Outcomes'[u] = Outcomes[u] /\ Stories'[u] = Stories[u]
           /\ Executed'[u] = Executed[u]
  OBVIOUS
<1>1. /\ run'[u].state = run[u].state /\ run'[u].msg = run[u].msg
      /\ wrote'[u] = wrote[u] /\ calls'[u] = calls[u]
  BY DEF Elsewhere
<1>2. run[u].msg # None => msg'[run[u].msg] = msg[run[u].msg]
  BY StoryTold DEF Elsewhere
<1>3. Story(u)' = Story(u)
  BY <1>1, <1>2, StoryKept
<1> QED BY <1>1, <1>3 DEF Outcomes, Stories, Executed

\* A step without movement is a stutter of TurnReceipt.
LEMMA StillStutters ==
  ASSUME TypeInv, LedgerInv, Still
  PROVE  Outcomes' = Outcomes /\ Stories' = Stories /\ Executed' = Executed
<1>1. ASSUME NEW t \in Turn PROVE Story(t)' = Story(t)
  <2>1. run'[t].msg = run[t].msg /\ wrote'[t] = wrote[t]
    BY DEF Still
  <2>2. run[t].msg # None => msg'[run[t].msg].status = msg[run[t].msg].status
    BY StoryTold DEF Still
  <2> QED BY <2>1, <2>2, StoryKept
<1> QED BY <1>1 DEF Still, Outcomes, Stories, Executed

\* Deletion is Forget of the turns whose receipt loses its row.
LEMMA ForgetsForget ==
  ASSUME TypeInv, LedgerInv, Forgets
  PROVE  \E S \in SUBSET Turn :
           /\ \A t \in S : Stories[t] \notin {"none", "deleted"}
           /\ Stories' = [t \in Turn |-> IF t \in S THEN "deleted" ELSE Stories[t]]
           /\ Outcomes' = Outcomes /\ Executed' = Executed
<1> DEFINE S == {t \in Turn : run[t].msg # None /\ run'[t].msg = None}
<1>1. \A t \in S : Stories[t] \notin {"none", "deleted"}
  BY StoryTold DEF Stories, Terminal
<1>2. ASSUME NEW t \in Turn
      PROVE  Story(t)' = IF t \in S THEN "deleted" ELSE Story(t)
  <2>1. wrote'[t] = wrote[t]
    BY DEF Forgets
  <2>2. CASE t \in S
    <3>1. wrote[t] = 1 /\ run'[t].msg = None
      BY <2>2, StoryTold
    <3> QED BY <2>1, <2>2, <3>1 DEF Story
  <2>3. CASE t \notin S
    <3>1. run'[t].msg = run[t].msg /\ (run[t].msg # None => msg'[run[t].msg] = msg[run[t].msg])
      BY <2>3 DEF Forgets
    <3> QED BY <2>1, <2>3, <3>1, StoryKept
  <2> QED BY <2>2, <2>3
<1>3. Stories' = [t \in Turn |-> IF t \in S THEN "deleted" ELSE Stories[t]]
  BY <1>2 DEF Stories
<1>4. Outcomes' = Outcomes /\ Executed' = Executed
  BY DEF Forgets, Outcomes, Executed
<1> HIDE DEF S
<1>5. S \in SUBSET Turn
  BY DEF S
<1> QED BY <1>1, <1>3, <1>4, <1>5

\* A turn that moves makes the step of TurnReceipt with the same name.
LEMMA MovesMove ==
  ASSUME TypeInv, LedgerInv, NEW t \in Turn, Moves(t)
  PROVE  \/ Receipt!Accept(t) \/ Receipt!Publish(t) \/ Receipt!Execute(t)
         \/ \E s \in Terminal : Receipt!Settle(t, s)
<1>0. /\ Outcomes[t] = run[t].state /\ Outcomes'[t] = run'[t].state
      /\ Stories[t] = Story(t) /\ Stories'[t] = Story(t)'
      /\ Executed[t] = (calls[t] > 0) /\ Executed'[t] = (calls'[t] > 0)
      /\ calls[t] \in Nat
  BY Typed DEF Outcomes, Stories, Executed
<1>1. \A u \in Turn \ {t} : /\ Outcomes'[u] = Outcomes[u] /\ Stories'[u] = Stories[u]
                            /\ Executed'[u] = Executed[u]
  BY ElsewhereKept DEF Moves
<1>2. CASE Accepts(t)
  <2>1. Outcomes[t] = "none" /\ Outcomes' = [Outcomes EXCEPT ![t] = "running"]
    BY <1>0, <1>1, <1>2 DEF Accepts, Outcomes
  <2>2. Story(t)' = Story(t)
    BY <1>2 DEF Accepts, LedgerInv, RunOK, Story
  <2>3. Stories' = Stories /\ Executed' = Executed
    BY <1>0, <1>1, <1>2, <2>2 DEF Accepts, Stories, Executed
  <2> QED BY <2>1, <2>3 DEF Receipt!Accept, Outcomes, Stories, Story, Executed
<1>3. CASE Publishes(t)
  <2>1. Stories[t] = "none" /\ Story(t)' = "streaming"
    BY <1>0, <1>3 DEF Publishes, Story
  <2>2. Stories' = [Stories EXCEPT ![t] = "streaming"]
    BY <1>0, <1>1, <2>1 DEF Stories
  <2>3. Outcomes[t] = "running" /\ Outcomes' = Outcomes /\ Executed' = Executed
    BY <1>0, <1>1, <1>3 DEF Publishes, Outcomes, Executed
  <2> QED BY <2>1, <2>2, <2>3 DEF Receipt!Publish, Outcomes, Stories, Story, Executed
<1>4. CASE Calls(t)
  <2>1. Stories[t] # "none"
    BY <1>0, <1>4, StoryTold DEF Calls, Story, Terminal
  <2>2. ~Executed[t] /\ Executed' = [Executed EXCEPT ![t] = TRUE]
    <3>1. ~(calls[t] > 0) /\ calls'[t] > 0
      BY <1>4 DEF Calls
    <3>2. ~Executed[t] /\ Executed'[t] = TRUE
      BY <1>0, <3>1, Zenon
    <3> QED BY <1>1, <3>2 DEF Executed
  <2>3. Story(t)' = Story(t)
    BY <1>4 DEF Calls, Story
  <2>4. Stories' = Stories /\ Outcomes' = Outcomes
    BY <1>0, <1>1, <1>4, <2>3 DEF Calls, Outcomes, Stories
  <2> QED BY <2>1, <2>2, <2>4 DEF Receipt!Execute, Outcomes, Stories, Story, Executed
<1>5. ASSUME NEW s \in Terminal, Settles(t, s) PROVE Receipt!Settle(t, s)
  <2>1. Outcomes[t] = "running" /\ Outcomes' = [Outcomes EXCEPT ![t] = s]
    BY <1>0, <1>1, <1>5 DEF Settles, Outcomes
  <2>2. Executed' = Executed
    BY <1>0, <1>1, <1>5 DEF Settles, Executed
  <2>3. Story(t)' = IF Story(t) = "streaming" THEN s ELSE Story(t)
    <3>1. CASE run[t].msg # None
      BY <1>5, <3>1, StoryTold DEF Settles, Story
    <3>2. CASE run[t].msg = None
      BY <1>5, <3>2 DEF Settles, Story
    <3> QED BY <3>1, <3>2
  <2>4. Stories' = [Stories EXCEPT ![t] = IF @ = "streaming" THEN s ELSE @]
    BY <1>0, <1>1, <2>3 DEF Stories
  <2> QED BY <2>1, <2>2, <2>4 DEF Receipt!Settle, Outcomes, Stories, Story, Executed
<1> QED BY <1>2, <1>3, <1>4, <1>5 DEF Moves

\* The ledger implements TurnReceipt: every turn is accepted, published,
\* executed and settled at most once, and deletion takes no receipt away.
THEOREM Implements == Spec => ImplementsReceipt
<1>1. Init => Receipt!Init
  <2> SUFFICES ASSUME Init PROVE Receipt!Init
    OBVIOUS
  <2>1. \A t \in Turn : run[t].state = "none" /\ run[t].msg = None
                        /\ wrote[t] = 0 /\ calls[t] = 0
    BY DEF Init, NoRun
  <2>2. \A t \in Turn : (calls[t] > 0) = FALSE /\ ~(wrote[t] > 0)
    BY <2>1
  <2>3. [t \in Turn |-> calls[t] > 0] = [t \in Turn |-> FALSE]
    BY <2>2, Zenon
  <2> QED BY <2>1, <2>2, <2>3 DEF Receipt!Init
<1>2. TypeInv /\ LedgerInv /\ [Next]_vars => [Receipt!Next]_(Receipt!vars)
  <2> SUFFICES ASSUME TypeInv, LedgerInv, [Next]_vars
      PROVE  Receipt!Next \/ UNCHANGED Receipt!vars
    OBVIOUS
  <2>1. CASE Still
    BY <2>1, StillStutters DEF Receipt!vars, Outcomes, Stories, Story, Executed
  <2>2. CASE Forgets
    <3>1. PICK S \in SUBSET Turn :
            /\ \A t \in S : Stories[t] \notin {"none", "deleted"}
            /\ Stories' = [t \in Turn |-> IF t \in S THEN "deleted" ELSE Stories[t]]
            /\ Outcomes' = Outcomes /\ Executed' = Executed
      BY <2>2, ForgetsForget
    <3>2. Receipt!Forget(S)
      BY <3>1 DEF Receipt!Forget, Outcomes, Stories, Story, Executed
    <3> QED BY <3>2 DEF Receipt!Next
  <2>3. ASSUME NEW t \in Turn, Moves(t) PROVE Receipt!Next
    BY <2>3, MovesMove DEF Receipt!Next, Receipt!Settled, Terminal
  <2> QED BY <2>1, <2>2, <2>3, StepEffect DEF Effect
<1> QED BY <1>1, <1>2, LedgerCorrect, PTL DEF Spec, ImplementsReceipt, Receipt!Spec
=============================================================================
