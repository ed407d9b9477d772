------------------------ MODULE AgentTurnLedgerTypes ------------------------
(***************************************************************************)
(* Type correctness of the turn ledger, for every value of the constants.  *)
(* The types are split by what the actions touch: the database, the places *)
(* and capabilities of the processes, and the rest.                        *)
(***************************************************************************)
EXTENDS AgentTurnLedger, TLAPS

DataType == /\ convs \subseteq Conv /\ gone \subseteq Conv
            /\ run \in [Turn -> Run] /\ msg \in [Req -> Message]
SweeperPlace == pc[Sweeper] \in {"idle", "sweep", "settle", "done"} \cup Closer
RowToLoad == \A p \in Proc : pc[p] = "loadMessage" => close[p].mid \in Req
Told == {"none", "failed", "conflict", "in_progress"} \cup Terminal
ControlType == /\ pc \in [Proc -> PC] /\ todo \in [Proc -> SUBSET Candidate]
               /\ close \in [Proc -> Closing] /\ told \in [Req -> Told]
               /\ SweeperPlace /\ RowToLoad
RestType == /\ up \in {"serving", "booting", "down"}
            /\ tries \in [Req -> Nat] /\ lease \in [Req -> Nat]
            /\ jr \in [Req -> Journal] /\ req \in [Req -> Request]
            /\ sent \in [Req -> Nat] /\ shown \in [Req -> Nat]
            /\ owner \in [Turn -> Req \cup {None}]
            /\ calls \in [Turn -> Nat] /\ wrote \in [Turn -> Nat]
            /\ faults \in Nat
TypeInv == DataType /\ ControlType /\ RestType

\* The initial rows, journals and capabilities the code builds are well-typed.
LEMMA Values ==
  /\ NoRun \in Run /\ NoMsg \in Message /\ NoClose \in Closing
  /\ \A v \in Nat : NewJournal(v) \in Journal
  /\ \A t \in Turn, k \in Nat, as \in Terminal, b \in {"sweep", "settle", "done"} :
       /\ Capability(t, k, as, b) \in Closing
       /\ Capability(t, k, as, b).mid = None
<1> USE LedgerAssumption
<1>1. NoRun \in Run
  BY DEF NoRun, Run, Lapsed
<1>2. NoMsg \in Message
  BY DEF NoMsg, Message
<1>3. AnyTurn \in Turn
  BY DEF AnyTurn
<1>4. \A t \in Turn, k \in Nat, as \in Terminal, b \in {"sweep", "settle", "done"} :
       /\ Capability(t, k, as, b) \in Closing
       /\ Capability(t, k, as, b).mid = None
  BY <1>2 DEF Capability, Closing
<1>5. \A v \in Nat : NewJournal(v) \in Journal
  BY DEF NewJournal, Journal
<1> QED BY <1>1, <1>2, <1>3, <1>4, <1>5 DEF NoClose, Terminal

\* What an edit of a receipt, of a transcript row or of a journal yields:
\* the UPDATE statements of turns.py keep the columns in their types.
LEMMA RunEdits ==
  ASSUME NEW x \in Run
  PROVE  /\ \A k \in Nat, l \in Lapsed..Lease : [x EXCEPT !.token = k, !.left = l] \in Run
         /\ \A l \in Lapsed..Lease : [x EXCEPT !.left = l] \in Run
         /\ \A s \in Terminal, l \in Lapsed..Lease : [x EXCEPT !.state = s, !.left = l] \in Run
         /\ \A c \in Conv, r \in Req : [x EXCEPT !.conv = c, !.msg = r] \in Run
         /\ [x EXCEPT !.requested = None, !.conv = None, !.msg = None] \in Run
BY DEF Run

\* The same for a transcript row (checkpoint and finish).
LEMMA MessageEdits ==
  ASSUME NEW x \in Message, NEW v \in Nat, NEW a \in Nat, NEW b \in Nat, NEW s \in Terminal
  PROVE  /\ [x EXCEPT !.version = v, !.text = a, !.tools = b] \in Message
         /\ [x EXCEPT !.status = s, !.version = v] \in Message
         /\ [x EXCEPT !.status = s, !.version = v, !.text = a, !.tools = b] \in Message
BY DEF Message

\* The same for the in-memory journal of an executor.
LEMMA JournalEdits ==
  ASSUME NEW j \in Journal, NEW x \in Nat
  PROVE  /\ Acknowledge(j, x) \in Journal
         /\ Released(j) \in Journal
         /\ \A m \in {"off", "on", "dead"} : [j EXCEPT !.maint = m] \in Journal
         /\ [j EXCEPT !.closed = TRUE] \in Journal
         /\ [j EXCEPT !.text = x, !.dirty = TRUE] \in Journal
         /\ [j EXCEPT !.tools = x] \in Journal
         /\ \A y \in Nat : [j EXCEPT !.saving = TRUE, !.snapText = x, !.snapTools = y] \in Journal
<1>1. Acknowledge(j, x) \in Journal
  <2>1. \A v \in Nat, b \in BOOLEAN : [j EXCEPT !.version = v, !.dirty = b] \in Journal
    BY DEF Journal
  <2>2. j.version + 1 \in Nat /\ (j.dirty /\ j.text # x) \in BOOLEAN
    BY DEF Journal
  <2> QED BY <2>1, <2>2 DEF Acknowledge
<1>2. Released(j) \in Journal
  BY DEF Journal, Released
<1> QED BY <1>1, <1>2 DEF Journal

\* A place and a capability of process p are well-typed after p moved.
LEMMA Moved ==
  ASSUME ControlType, NEW p \in Proc, NEW v \in PC \ {"loadMessage"}, NEW k \in Closing,
         p = Sweeper => v \in {"idle", "sweep", "settle", "done"} \cup Closer,
         pc' = [pc EXCEPT ![p] = v],
         close' = [close EXCEPT ![p] = k] \/ close' = close
  PROVE  pc' \in [Proc -> PC] /\ close' \in [Proc -> Closing] /\ SweeperPlace' /\ RowToLoad'
BY DEF ControlType, SweeperPlace, RowToLoad, Proc

\* An exception leaves the control state of a process well-typed.
LEMMA RaiseType ==
  ASSUME ControlType, RestType, NEW p \in Proc, Raise(p)
  PROVE  /\ ControlType'
         /\ UNCHANGED <<todo, tries, lease>>
<1>1. /\ \E v \in PC \ {"loadMessage"} :
              /\ p = Sweeper => v \in {"idle", "sweep", "settle", "done"} \cup Closer
              /\ pc' = [pc EXCEPT ![p] = v]
  BY DEF Raise, PC, Claiming, Streaming, Closer, ControlType, SweeperPlace
<1>2. \E k \in Closing : close' = [close EXCEPT ![p] = k] \/ close' = close
  <2>1. pc[p] = "prepare" => p \in Req
    BY LedgerAssumption DEF ControlType, SweeperPlace, Proc, Closer
  <2>2. p \in Req => T(p) \in Turn /\ lease[p] \in Nat
    BY DEF RestType, T, Request
  <2> QED BY <2>1, <2>2, Values DEF Raise, Terminal
<1>3. told' \in [Req -> Told]
  BY DEF Raise, ControlType, Told
<1>4. UNCHANGED <<todo, tries, lease>>
  BY DEF Raise
<1>5. pc' \in [Proc -> PC] /\ close' \in [Proc -> Closing] /\ SweeperPlace' /\ RowToLoad'
  BY <1>1, <1>2, Moved
<1> QED BY <1>3, <1>4, <1>5 DEF ControlType

\* So does a cancellation by a lost client.
LEMMA CancelledType ==
  ASSUME ControlType, RestType, NEW r \in Req, Cancelled(r)
  PROVE  /\ ControlType'
         /\ UNCHANGED <<told, tries, lease>>
<1>0. r # Sweeper /\ r \in Proc
  BY LedgerAssumption DEF Proc
<1>1. \E v \in PC \ {"loadMessage"} : pc' = [pc EXCEPT ![r] = v]
  BY DEF Cancelled, PC, Claiming, Streaming, Closer
<1>2. \E k \in Closing : close' = [close EXCEPT ![r] = k] \/ close' = close
  <2>1. T(r) \in Turn /\ lease[r] \in Nat
    BY DEF RestType, T, Request
  <2> QED BY <2>1, Values DEF Cancelled, Terminal
<1>3. todo' \in [Proc -> SUBSET Candidate]
  BY DEF Cancelled, ControlType
<1>4. UNCHANGED <<told, tries, lease>>
  BY DEF Cancelled
<1>5. pc' \in [Proc -> PC] /\ close' \in [Proc -> Closing] /\ SweeperPlace' /\ RowToLoad'
  BY <1>0, <1>1, <1>2, Moved
<1> QED BY <1>3, <1>4, <1>5 DEF ControlType

\* A request that answers its client stays well-typed.
LEMMA AnswerType ==
  ASSUME ControlType, NEW r \in Req, NEW what \in Told, Answer(r, what),
         UNCHANGED todo, \E k \in Closing : close' = [close EXCEPT ![r] = k] \/ close' = close
  PROVE  ControlType'
<1>1. r # Sweeper /\ r \in Proc /\ "done" \in PC \ {"loadMessage"}
  BY LedgerAssumption DEF Proc, PC
<1>2. pc' \in [Proc -> PC] /\ close' \in [Proc -> Closing] /\ SweeperPlace' /\ RowToLoad'
  BY <1>1, Moved DEF Answer
<1> QED BY <1>2 DEF ControlType, Answer

\* Fencing an expired turn (_fence_expired_turn) keeps rows and capabilities typed.
LEMMA FenceType ==
  ASSUME TypeInv, NEW p \in Proc, NEW c \in Candidate, NEW d \in 0..Delay,
         NEW b \in {"sweep", "settle", "done"}, Fence(p, c, d, b)
  PROVE  /\ DataType'
         /\ pc' \in [Proc -> PC] /\ close' \in [Proc -> Closing]
         /\ SweeperPlace' /\ RowToLoad'
<1> USE DEF TypeInv
<1>1. c.turn \in Turn /\ c.token \in Nat /\ c.token + 1 \in Nat
  BY DEF Candidate
<1>2. run[c.turn] \in Run /\ Lease - d \in Lapsed..Lease
  BY <1>1, LedgerAssumption DEF DataType, Lapsed
<1>3. [run[c.turn] EXCEPT !.token = c.token + 1, !.left = Lease - d] \in Run
  BY <1>1, <1>2, RunEdits
<1>4. DataType'
  BY <1>1, <1>3 DEF DataType, Fence
<1>5. Capability(c.turn, c.token + 1, "aborted", b) \in Closing
  BY <1>1, Values DEF Terminal
<1>6. "load" \in PC \ {"loadMessage"} /\ "load" \in Closer
  BY DEF PC, Closer
<1> QED BY <1>4, <1>5, <1>6, Moved DEF Fence

\* finish_claimed_turn returns to a place its caller can be in.
LEMMA ReturnType ==
  ASSUME ControlType, NEW p \in Proc, Return(p)
  PROVE  /\ pc' \in [Proc -> PC] /\ close' \in [Proc -> Closing] /\ SweeperPlace' /\ RowToLoad'
         /\ told' \in [Req -> Told]
<1>1. close[p].back \in {"sweep", "settle", "done"}
  BY DEF ControlType, Closing
<1>2. pc' \in [Proc -> PC] /\ close' \in [Proc -> Closing] /\ SweeperPlace' /\ RowToLoad'
  BY <1>1, Values, Moved DEF Return, PC, Claiming
<1>3. told' \in [Req -> Told]
  BY DEF Return, ControlType, Told
<1> QED BY <1>2, <1>3

\* A forced checkpoint keeps every variable typed, committed, refused or cut.
LEMMA CheckpointType ==
  ASSUME TypeInv, NEW r \in Req, NEW next \in PC \ {"loadMessage"},
         NEW maint \in {"off", "on", "dead"}, NEW cut \in BOOLEAN,
         Checkpoint(r, next, maint, cut), UNCHANGED history
  PROVE  TypeInv'
<1> USE DEF TypeInv
<1>0. r # Sweeper /\ r \in Proc
  BY LedgerAssumption DEF Proc
<1>1. /\ jr[r] \in Journal /\ jr[r].text \in Nat /\ jr[r].tools \in Nat
      /\ msg[r] \in Message /\ msg[r].version + 1 \in Nat
  BY DEF RestType, DataType, Journal, Message
<1>2. [msg[r] EXCEPT !.version = @ + 1, !.text = jr[r].text, !.tools = jr[r].tools] \in Message
  BY <1>1, MessageEdits DEF Terminal
<1>3. [Acknowledge(jr[r], jr[r].text) EXCEPT !.maint = maint] \in Journal
  BY <1>1, JournalEdits
<1>4. DataType'
  BY <1>2 DEF DataType, Checkpoint, Save
<1>5. ControlType'
  <2>1. CASE Raise(r)
    BY <2>1, <1>0, RaiseType
  <2>2. CASE Cancelled(r)
    BY <2>2, CancelledType
  <2>3. CASE pc' = [pc EXCEPT ![r] = next] /\ UNCHANGED <<told, close, todo, tries, lease>>
    <3>1. NoClose \in Closing
      BY Values
    <3>2. pc' \in [Proc -> PC] /\ close' \in [Proc -> Closing] /\ SweeperPlace' /\ RowToLoad'
      BY <2>3, <3>1, <1>0, Moved
    <3> QED BY <2>3, <3>2 DEF ControlType
  <2> QED BY <2>1, <2>2, <2>3 DEF Checkpoint
<1>6. jr' \in [Req -> Journal]
  BY <1>3 DEF Checkpoint, RestType
<1>7. RestType'
  BY <1>6, RaiseType, CancelledType, <1>0 DEF Checkpoint, RestType, history
<1> QED BY <1>4, <1>5, <1>7

\* A capability may name no row: the edit is then no edit.
LEMMA RowEdit ==
  ASSUME NEW f \in [Req -> Message], NEW m, NEW x, m \in Req => x \in Message
  PROVE  [f EXCEPT ![m] = x] \in [Req -> Message]
OBVIOUS

\* Every step of the ledger keeps the type invariant.
LEMMA StepType == TypeInv /\ [Next]_vars => TypeInv'
<1> SUFFICES ASSUME TypeInv, [Next]_vars PROVE TypeInv'
  OBVIOUS
<1>d. DataType /\ ControlType /\ RestType
  BY DEF TypeInv
<1>v. NoClose \in Closing /\ "failed" \in Told
  BY Values DEF Told
<1>r. \A r \in Req : /\ r # Sweeper /\ r \in Proc /\ T(r) \in Turn
                     /\ run[T(r)] \in Run /\ jr[r] \in Journal /\ msg[r] \in Message
                     /\ jr[r].text \in Nat /\ jr[r].tools \in Nat /\ lease[r] \in Nat
                     /\ jr[r].text + 1 \in Nat /\ jr[r].tools + 1 \in Nat
  BY <1>d, LedgerAssumption DEF Proc, T, Request, DataType, RestType, Journal
<1>l. Lapsed \in Lapsed..Lease /\ \A d \in 0..Delay : Lease - d \in Lapsed..Lease
  BY LedgerAssumption DEF Lapsed
<1>o. \A C \in SUBSET Turn : Observed(C) \subseteq Candidate
  BY <1>d DEF Observed, Candidate, DataType, Run
<1>1. ASSUME NEW r \in Req, Arrive(r) PROVE TypeInv'
  <2>1. ControlType'
    <3>1. \E v \in PC \ {"loadMessage"} : pc' = [pc EXCEPT ![r] = v]
      BY <1>1 DEF Arrive, PC, Claiming
    <3>2. todo' \in [Proc -> SUBSET Candidate]
      BY <1>1, <1>o, <1>d DEF Arrive, ControlType
    <3> QED BY <1>1, <3>1, <3>2, <1>d, <1>r, <1>v, Moved DEF Arrive, ControlType
  <2> QED BY <1>1, <2>1, <1>d DEF Arrive, TypeInv, DataType, RestType, database, history
<1>2. ASSUME NEW r \in Req, ClaimRead(r) PROVE TypeInv'
  <2>1. ControlType'
    <3>1. CASE \E w \in Told : Answer(r, w) /\ UNCHANGED <<close, todo>>
      BY <3>1, <1>d, <1>v, AnswerType
    <3>2. CASE /\ \E v \in {"insert", "fence"} : pc' = [pc EXCEPT ![r] = v]
               /\ UNCHANGED <<told, todo>>
               /\ \/ UNCHANGED close
                  \/ close' = [close EXCEPT ![r] =
                       Capability(T(r), run[T(r)].token, "aborted", "done")]
      <4>1. run[T(r)].token \in Nat
        BY <1>r DEF Run
      <4>2. Capability(T(r), run[T(r)].token, "aborted", "done") \in Closing
        BY <1>r, <4>1, Values DEF Terminal
      <4>3. {"insert", "fence"} \subseteq PC \ {"loadMessage"}
        BY DEF PC, Claiming
      <4> QED BY <3>2, <4>2, <4>3, <1>d, <1>r, <1>v, Moved DEF ControlType
    <3>3. run[T(r)].state \in Terminal => Replayed(r) \in Told
      BY DEF Replayed, Told, Terminal
    <3> QED BY <1>2, <3>1, <3>2, <3>3 DEF ClaimRead, Told
  <2> QED BY <1>2, <2>1, <1>d DEF ClaimRead, TypeInv, DataType, RestType, database, history
<1>3. ASSUME NEW r \in Req, NEW cut \in BOOLEAN, ClaimInsert(r, cut) PROVE TypeInv'
  <2>1. run' \in [Turn -> Run]
    <3>1. \A d \in 0..Delay : req[r].conv \in Conv \cup {None} =>
            [state |-> "running", payload |-> req[r].payload,
             requested |-> req[r].conv, conv |-> req[r].conv, msg |-> None,
             token |-> 1, left |-> Lease - d] \in Run
      BY <1>l, <1>d DEF Run, RestType, Request
    <3>2. req[r].conv \in Conv \cup {None}
      BY <1>d DEF RestType, Request
    <3> QED BY <1>3, <3>1, <3>2, <1>d, <1>r DEF ClaimInsert, DataType
  <2>2. ControlType'
    <3>1. CASE Raise(r)
      BY <3>1, <1>d, <1>r, RaiseType
    <3>2. CASE ClaimAgain(r)
      <4>1. \E v \in PC \ {"loadMessage"} : pc' = [pc EXCEPT ![r] = v]
        BY <3>2 DEF ClaimAgain, Answer, PC, Claiming
      <4>2. told' \in [Req -> Told]
        BY <3>2, <1>d, <1>v DEF ClaimAgain, Answer, ControlType
      <4>3. todo' = todo
        BY <1>3 DEF ClaimInsert
      <4> QED BY <3>2, <4>1, <4>2, <4>3, <1>d, <1>r, <1>v, Moved DEF ClaimAgain, ControlType
    <3>3. CASE /\ \E v \in {"done", "protocol", "prepare"} : pc' = [pc EXCEPT ![r] = v]
               /\ UNCHANGED <<told, close, todo>>
      <4>1. {"done", "protocol", "prepare"} \subseteq PC \ {"loadMessage"}
        BY DEF PC, Claiming
      <4> QED BY <3>3, <4>1, <1>d, <1>r, <1>v, Moved DEF ControlType
    <3> QED BY <1>3, <3>1, <3>2, <3>3 DEF ClaimInsert
  <2>3. RestType'
    BY <1>3, <1>d, RaiseType, <1>r DEF ClaimInsert, ClaimAgain, RestType
  <2> QED BY <1>3, <2>1, <2>2, <2>3, <1>d DEF ClaimInsert, TypeInv, DataType
<1>4. ASSUME NEW r \in Req, ClaimFence(r) PROVE TypeInv'
  <2> DEFINE c == [turn |-> close[r].turn, token |-> close[r].token]
  <2>0. c \in Candidate
    BY <1>d, <1>r DEF Candidate, ControlType, Closing
  <2>1. CASE \E d \in 0..Delay : Fence(r, c, d, "settle") /\ UNCHANGED told
    <3>1. DataType' /\ pc' \in [Proc -> PC] /\ close' \in [Proc -> Closing]
          /\ SweeperPlace' /\ RowToLoad'
      BY <2>0, <2>1, <1>r, FenceType
    <3> QED BY <1>4, <2>1, <3>1, <1>d DEF ClaimFence, TypeInv, ControlType, RestType, history, ClaimAgain
  <2>2. CASE ClaimAgain(r) /\ UNCHANGED database
    <4>1. \E v \in PC \ {"loadMessage"} : pc' = [pc EXCEPT ![r] = v]
      BY <2>2 DEF ClaimAgain, Answer, PC, Claiming
    <4>2. told' \in [Req -> Told]
      BY <2>2, <1>d, <1>v DEF ClaimAgain, Answer, ControlType
    <4>3. ControlType'
      BY <1>4, <2>2, <4>1, <4>2, <1>d, <1>r, <1>v, Moved DEF ClaimAgain, ControlType, ClaimFence
    <4> QED BY <1>4, <2>2, <4>3, <1>d DEF ClaimFence, ClaimAgain, TypeInv, DataType, RestType, database, history
  <2> QED BY <1>4, <2>1, <2>2 DEF ClaimFence
<1>5. ASSUME NEW r \in Req, ClaimSettle(r) PROVE TypeInv'
  <2>1. ControlType'
    <3>1. Replayed(r) \in {"none", "running"} \cup Terminal
      BY <1>r DEF Run, Replayed, Terminal
    <3> QED BY <1>5, <3>1, <1>d, <1>v, <1>r, AnswerType DEF ClaimSettle, Told, memory, Replayed
  <2> QED BY <1>5, <2>1, <1>d DEF ClaimSettle, TypeInv, DataType, RestType, database, memory, history
<1>6. ASSUME NEW r \in Req, ProtocolError(r) PROVE TypeInv'
  <2>1. run' \in [Turn -> Run]
    <3>1. [run[T(r)] EXCEPT !.state = "error", !.left = Lapsed] \in Run
      BY <1>r, <1>l, RunEdits DEF Terminal
    <3> QED BY <1>6, <3>1, <1>d, <1>r DEF ProtocolError, DataType
  <2>2. ControlType' /\ UNCHANGED <<tries, lease>>
    <3>1. CASE Raise(r)
      BY <3>1, <1>d, <1>r, RaiseType
    <3>2. CASE Answer(r, "error") /\ UNCHANGED <<close, todo, tries, lease>>
      BY <3>2, <1>d, <1>v, AnswerType DEF Told, Terminal
    <3> QED BY <1>6, <3>1, <3>2 DEF ProtocolError
  <2> QED BY <1>6, <2>1, <2>2, <1>d DEF ProtocolError, TypeInv, DataType, RestType, history
<1>7. ASSUME NEW r \in Req, NEW cut \in BOOLEAN, Prepare(r, cut) PROVE TypeInv'
  <2>1. DataType'
    <3>1. CASE UNCHANGED <<convs, run, msg>>
      BY <1>7, <3>1, <1>d DEF Prepare, DataType
    <3>2. ASSUME NEW c \in Conv, convs' = convs \cup {c},
                 msg' = [msg EXCEPT ![r] = [conv |-> c, status |-> "streaming",
                                            version |-> 1, text |-> 0, tools |-> 0]],
                 run' = [run EXCEPT ![T(r)].conv = c, ![T(r)].msg = r]
          PROVE  DataType'
      <4>1. [conv |-> c, status |-> "streaming", version |-> 1, text |-> 0, tools |-> 0]
              \in Message
        BY DEF Message
      <4>2. [run[T(r)] EXCEPT !.conv = c, !.msg = r] \in Run
        BY <1>r, RunEdits
      <4>3. run' \in [Turn -> Run]
        BY <3>2, <4>2, <1>d, <1>r DEF DataType
      <4> QED BY <1>7, <3>2, <4>1, <4>3, <1>d DEF Prepare, DataType
    <3>3. convs \subseteq Conv
      BY <1>d DEF DataType
    <3> QED BY <1>7, <3>1, <3>2, <3>3 DEF Prepare
  <2>2. ControlType' /\ UNCHANGED <<tries, lease>>
    <3>1. CASE Raise(r)
      BY <3>1, <1>d, <1>r, RaiseType
    <3>2. CASE Cancelled(r)
      BY <3>2, <1>d, CancelledType
    <3>3. CASE pc' = [pc EXCEPT ![r] = "open"] /\ UNCHANGED <<told, close, todo, tries, lease>>
      <4>1. "open" \in PC \ {"loadMessage"}
        BY DEF PC, Streaming
      <4> QED BY <3>3, <4>1, <1>d, <1>r, <1>v, Moved DEF ControlType
    <3> QED BY <1>7, <3>1, <3>2, <3>3 DEF Prepare
  <2>3. RestType'
    <3>1. jr' \in [Req -> Journal] /\ wrote' \in [Turn -> Nat]
      <4>1. NewJournal(1) \in Journal /\ wrote[T(r)] + 1 \in Nat
        BY <1>d, <1>r, Values DEF RestType
      <4> QED BY ZenonT(60), <1>7, <4>1, <1>d, <1>r DEF Prepare, RestType
    <3> QED BY <1>7, <3>1, <2>2, <1>d DEF Prepare, RestType
  <2> QED BY <2>1, <2>2, <2>3 DEF TypeInv
<1>8. ASSUME NEW r \in Req, NEW cut \in BOOLEAN, OpenJournal(r, cut) PROVE TypeInv'
  BY <1>8, CheckpointType DEF OpenJournal, PC, Streaming
<1>9. ASSUME NEW r \in Req, NEW cut \in BOOLEAN, BindProvider(r, cut) PROVE TypeInv'
  <2>1. jr[r].maint \in {"off", "on", "dead"}
    BY <1>r DEF Journal
  <2> QED BY <1>9, <2>1, CheckpointType DEF BindProvider, PC, Streaming
<1>10. ASSUME NEW r \in Req, NEW cut \in BOOLEAN, SaveToolResult(r, cut) PROVE TypeInv'
  <2>1. jr[r].maint \in {"off", "on", "dead"}
    BY <1>r DEF Journal
  <2> QED BY <1>10, <2>1, CheckpointType DEF SaveToolResult, PC, Streaming
<1>m. ASSUME NEW r \in Req, NEW v \in PC \ {"loadMessage"}, pc' = [pc EXCEPT ![r] = v],
             UNCHANGED <<todo, close, told>>
      PROVE  ControlType'
  BY <1>m, <1>d, <1>r, <1>v, Moved DEF ControlType
<1>s. {"stream", "save", "finish", "done"} \subseteq PC \ {"loadMessage"}
  BY DEF PC, Streaming
<1>11. ASSUME NEW r \in Req, CallProvider(r) PROVE TypeInv'
  <2>1. ControlType'
    BY <1>11, <1>m, <1>s DEF CallProvider, memory
  <2> QED BY <1>11, <2>1, <1>d, <1>r DEF CallProvider, TypeInv, DataType, RestType, database, memory
<1>12. ASSUME NEW r \in Req, StreamText(r) PROVE TypeInv'
  <2>1. jr' \in [Req -> Journal]
    <3>1. AddText(jr[r]) \in Journal
      BY <1>r, JournalEdits DEF AddText
    <3> QED BY <1>12, <3>1, <1>d, <1>r DEF StreamText, RestType
  <2> QED BY <1>12, <2>1, <1>d DEF StreamText, TypeInv, DataType, ControlType, RestType, SweeperPlace, RowToLoad, database
<1>13. ASSUME NEW r \in Req, ToolResult(r) PROVE TypeInv'
  <2>1. jr' \in [Req -> Journal]
    <3>1. [jr[r] EXCEPT !.tools = @ + 1] \in Journal
      BY <1>r, JournalEdits
    <3> QED BY <1>13, <3>1, <1>d, <1>r DEF ToolResult, RestType
  <2>2. ControlType'
    BY <1>13, <1>m, <1>s DEF ToolResult
  <2> QED BY <1>13, <2>1, <2>2, <1>d DEF ToolResult, TypeInv, DataType, RestType, database, history
<1>14. ASSUME NEW r \in Req, ShowToolResult(r) PROVE TypeInv'
  <2>1. ControlType'
    BY <1>14, <1>m, <1>s DEF ShowToolResult, memory
  <2> QED BY <1>14, <2>1, <1>d, <1>r DEF ShowToolResult, TypeInv, DataType, RestType, database, memory
<1>15. ASSUME NEW r \in Req, EndStream(r) PROVE TypeInv'
  <2>1. ControlType'
    BY <1>15, <1>m, <1>s DEF EndStream, memory
  <2> QED BY <1>15, <2>1, <1>d DEF EndStream, TypeInv, DataType, RestType, database, memory, history
<1>16. ASSUME NEW r \in Req, ProviderError(r) \/ NoticeLostLease(r) PROVE TypeInv'
  <2>1. ControlType' /\ UNCHANGED <<tries, lease>>
    BY <1>16, <1>d, <1>r, RaiseType DEF ProviderError, NoticeLostLease
  <2> QED BY <1>16, <2>1, <1>d DEF ProviderError, NoticeLostLease, TypeInv, DataType, RestType, database, history
<1>17. ASSUME NEW r \in Req, NEW cut \in BOOLEAN, FinishTurn(r, cut) PROVE TypeInv'
  <2>0. Outcome(r) \in Terminal /\ msg[r].version + 1 \in Nat
    BY <1>17, <1>r DEF FinishTurn, Outcome, Terminal, Message
  <2>1. DataType'
    <3>1. Final(r) \in Message
      BY <2>0, <1>r, MessageEdits DEF Final
    <3>2. run' \in [Turn -> Run]
      <4>1. [run[T(r)] EXCEPT !.state = Outcome(r), !.left = Lapsed] \in Run
        BY <2>0, <1>r, <1>l, RunEdits
      <4> QED BY <1>17, <4>1, <1>d, <1>r DEF FinishTurn, DataType
    <3> QED BY <1>17, <3>1, <3>2, <1>d DEF FinishTurn, DataType
  <2>2. ControlType' /\ UNCHANGED <<tries, lease>>
    <3>1. CASE Raise(r)
      BY <3>1, <1>d, <1>r, RaiseType
    <3>2. CASE Cancelled(r)
      BY <3>2, <1>d, CancelledType
    <3>3. CASE /\ pc' = [pc EXCEPT ![r] = "closing"] /\ UNCHANGED <<close, todo, tries, lease>>
               /\ told' = [told EXCEPT ![r] = IF Outcome(r) = "aborted" THEN @ ELSE Outcome(r)]
      <4>1. "closing" \in PC \ {"loadMessage"}
        BY DEF PC
      <4>2. told' \in [Req -> Told]
        BY <3>3, <2>0, <1>d DEF ControlType, Told
      <4> QED BY <3>3, <4>1, <4>2, <1>d, <1>r, <1>v, Moved DEF ControlType
    <3> QED BY <1>17, <3>1, <3>2, <3>3 DEF FinishTurn
  <2>3. jr' \in [Req -> Journal]
    <3>1. [Acknowledge(jr[r], jr[r].text) EXCEPT !.closed = TRUE] \in Journal
      BY <1>r, JournalEdits
    <3> QED BY <1>17, <3>1, <1>d DEF FinishTurn, RestType
  <2> QED BY <1>17, <2>1, <2>2, <2>3, <1>d DEF FinishTurn, TypeInv, RestType, history
<1>18. ASSUME NEW r \in Req, CloseJournal(r) PROVE TypeInv'
  <2>1. ControlType'
    BY <1>18, <1>m, <1>s DEF CloseJournal
  <2> QED BY <1>18, <2>1, <1>d, <1>r, Values DEF CloseJournal, TypeInv, DataType, RestType, database, history
<1>19. ASSUME NEW r \in Req, Disconnect(r) PROVE TypeInv'
  <2>1. ControlType' /\ UNCHANGED <<tries, lease>>
    BY <1>19, <1>d, CancelledType DEF Disconnect
  <2> QED BY <1>19, <2>1, <1>d DEF Disconnect, TypeInv, DataType, RestType, database, history
<1>20. ASSUME NEW r \in Req, Heartbeat(r) PROVE TypeInv'
  <2>1. run' \in [Turn -> Run]
    <3>1. \A d \in 0..Delay : [run[T(r)] EXCEPT !.left = Lease - d] \in Run
      BY <1>r, <1>l, RunEdits
    <3> QED BY <1>20, <3>1, <1>d, <1>r DEF Heartbeat, DataType
  <2>2. jr' \in [Req -> Journal]
    <3>1. [jr[r] EXCEPT !.maint = "dead"] \in Journal
      BY <1>r, JournalEdits
    <3> QED BY <1>20, <3>1, <1>d, <1>r DEF Heartbeat, RestType
  <2> QED BY <1>20, <2>1, <2>2, <1>d DEF Heartbeat, TypeInv, DataType, ControlType, RestType, SweeperPlace, RowToLoad, history
<1>21. ASSUME NEW r \in Req, TakeSnapshot(r) PROVE TypeInv'
  <2>1. jr' \in [Req -> Journal]
    BY <1>21, <1>d, <1>r, JournalEdits DEF TakeSnapshot, RestType
  <2> QED BY <1>21, <2>1, <1>d DEF TakeSnapshot, TypeInv, DataType, ControlType, RestType, SweeperPlace, RowToLoad, database, history
<1>22. ASSUME NEW r \in Req, SaveSnapshot(r) PROVE TypeInv'
  <2>0. jr[r].snapText \in Nat /\ jr[r].snapTools \in Nat /\ msg[r].version + 1 \in Nat
    BY <1>r DEF Journal, Message
  <2>1. jr' \in [Req -> Journal]
    <3>1. Released(Acknowledge(jr[r], jr[r].snapText)) \in Journal
      BY <2>0, <1>r, JournalEdits
    <3>2. [Released(jr[r]) EXCEPT !.maint = "dead"] \in Journal
      BY <1>r, JournalEdits
    <3> QED BY <1>22, <3>1, <3>2, <1>d, <1>r DEF SaveSnapshot, RestType
  <2>2. msg' \in [Req -> Message]
    <3>1. [msg[r] EXCEPT !.version = @ + 1, !.text = jr[r].snapText,
                         !.tools = jr[r].snapTools] \in Message
      BY <2>0, <1>r, MessageEdits DEF Terminal
    <3> QED BY <1>22, <3>1, <1>d DEF SaveSnapshot, Save, DataType
  <2> QED BY <1>22, <2>1, <2>2, <1>d DEF SaveSnapshot, TypeInv, DataType, ControlType, RestType, SweeperPlace, RowToLoad, history
<1>23. ASSUME NEW r \in Req, MaintenanceError(r) PROVE TypeInv'
  <2>1. jr' \in [Req -> Journal]
    BY <1>23, <1>d, <1>r, JournalEdits DEF MaintenanceError, RestType
  <2> QED BY <1>23, <2>1, <1>d DEF MaintenanceError, TypeInv, DataType, ControlType, RestType, SweeperPlace, RowToLoad, database, history
<1>24. ASSUME NEW p \in Proc, SweepNext(p) PROVE TypeInv'
  <2>1. PICK c \in todo[p], d \in 0..Delay :
          /\ todo' = [todo EXCEPT ![p] = @ \ {c}]
          /\ \/ Fence(p, c, d, "sweep")
             \/ UNCHANGED <<database, pc, close>>
    BY <1>24 DEF SweepNext
  <2>2. c \in Candidate /\ todo' \in [Proc -> SUBSET Candidate]
    BY <2>1, <1>d DEF ControlType
  <2>3. CASE Fence(p, c, d, "sweep")
    <3>1. DataType' /\ pc' \in [Proc -> PC] /\ close' \in [Proc -> Closing]
          /\ SweeperPlace' /\ RowToLoad'
      BY <2>2, <2>3, FenceType
    <3> QED BY <1>24, <2>2, <3>1, <1>d DEF SweepNext, TypeInv, ControlType, RestType, history
  <2>4. CASE UNCHANGED <<database, pc, close>>
    BY <1>24, <2>2, <2>4, <1>d DEF SweepNext, TypeInv, DataType, ControlType, RestType, SweeperPlace, RowToLoad, database, history
  <2> QED BY <2>1, <2>3, <2>4
<1>25. ASSUME NEW p \in Proc, SweepDone(p) PROVE TypeInv'
  <2>1. \E v \in PC \ {"loadMessage"} : /\ pc' = [pc EXCEPT ![p] = v]
                                        /\ p = Sweeper => v = "idle"
    BY <1>25 DEF SweepDone, PC, Claiming
  <2>2. ControlType'
    BY <1>25, <2>1, <1>d, <1>v, Moved DEF SweepDone, ControlType, memory
  <2> QED BY <1>25, <2>2, <1>d DEF SweepDone, TypeInv, DataType, RestType, database, memory, history
<1>26. ASSUME NEW p \in Proc, LoadRun(p) PROVE TypeInv'
  <2>0. close[p] \in Closing /\ close[p].turn \in Turn /\ run[close[p].turn] \in Run
    BY <1>d DEF ControlType, DataType, Closing
  <2>1. pc' \in [Proc -> PC] /\ close' \in [Proc -> Closing] /\ SweeperPlace' /\ RowToLoad'
    <3>1. CASE Return(p)
      BY <3>1, <1>d, ReturnType
    <3>2. CASE /\ close' = [close EXCEPT ![p].mid = run[close[p].turn].msg]
               /\ pc' = [pc EXCEPT ![p] = IF run[close[p].turn].msg = None
                                          THEN "close" ELSE "loadMessage"]
      <4>1. run[close[p].turn].msg \in Req \cup {None}
        BY <2>0 DEF Run
      <4>2. [close[p] EXCEPT !.mid = run[close[p].turn].msg] \in Closing
        BY <2>0, <4>1 DEF Closing
      <4>3. close' \in [Proc -> Closing]
        BY <3>2, <4>2, <1>d DEF ControlType
      <4>4. pc' \in [Proc -> PC] /\ SweeperPlace'
        BY <3>2, <1>d DEF ControlType, SweeperPlace, Closer, PC
      <4>5. RowToLoad'
        BY <3>2, <4>1, <2>0, <1>d DEF ControlType, RowToLoad
      <4> QED BY <4>3, <4>4, <4>5
    <3> QED BY <1>26, <3>1, <3>2 DEF LoadRun
  <2>2. told' \in [Req -> Told]
    BY <1>26, <1>d, ReturnType DEF LoadRun, ControlType
  <2> QED BY <1>26, <2>1, <2>2, <1>d DEF LoadRun, TypeInv, DataType, ControlType, RestType, database, history
<1>27. ASSUME NEW p \in Proc, LoadAssistant(p) PROVE TypeInv'
  <2>0. close[p] \in Closing /\ msg[close[p].mid] \in Message
    BY <1>27, <1>d DEF LoadAssistant, ControlType, DataType, RowToLoad
  <2>1. [close[p] EXCEPT !.seen = msg[close[p].mid]] \in Closing
    BY <2>0 DEF Closing
  <2>2. "close" \in PC \ {"loadMessage"} /\ "close" \in Closer
    BY DEF PC, Closer
  <2>3. pc' \in [Proc -> PC] /\ close' \in [Proc -> Closing] /\ SweeperPlace' /\ RowToLoad'
    BY <1>27, <2>1, <2>2, <1>d, Moved DEF LoadAssistant
  <2> QED BY <1>27, <2>3, <1>d DEF LoadAssistant, TypeInv, DataType, ControlType, RestType, database, history
<1>28. ASSUME NEW p \in Proc, CloseTurn(p) PROVE TypeInv'
  <2> DEFINE seen == close[p].seen
             as == IF Live(p) \/ seen.status = "absent" THEN close[p].as ELSE seen.status
  <2>0. close[p] \in Closing /\ close[p].turn \in Turn /\ run[close[p].turn] \in Run
        /\ seen \in Message /\ seen.text \in Nat /\ seen.tools \in Nat
    BY <1>d DEF ControlType, DataType, Closing, Message
  <2>1. as \in Terminal
    BY <2>0 DEF Closing, Message, Live
  <2>2. CASE \E d \in 0..Delay : ~CanClose(p, d) /\ Raise(p) /\ UNCHANGED database
    BY <1>28, <2>2, <1>d, RaiseType DEF CloseTurn, TypeInv, DataType, RestType, database, history
  <2>3. CASE /\ run' = [run EXCEPT ![close[p].turn].state = as, ![close[p].turn].left = Lapsed]
             /\ msg' = IF Live(p)
                       THEN [msg EXCEPT ![close[p].mid] = Closed(p, as)]
                       ELSE msg
             /\ Return(p)
             /\ UNCHANGED <<convs, gone, todo, tries, lease>>
    <3>1. run' \in [Turn -> Run]
      BY <2>3, <2>0, <2>1, <1>d, <1>l, RunEdits DEF DataType
    <3>2. ASSUME close[p].mid \in Req PROVE Closed(p, as) \in Message
      <4>1. msg[close[p].mid] \in Message /\ msg[close[p].mid].version + 1 \in Nat
        BY <1>r, <3>2 DEF Message
      <4> QED BY <4>1, <2>0, <2>1, MessageEdits DEF Closed
    <3>3. msg' \in [Req -> Message]
      BY <2>3, <3>2, <1>d, RowEdit DEF DataType
    <3>4. ControlType'
      BY <2>3, <1>d, ReturnType DEF ControlType
    <3> QED BY <1>28, <2>3, <3>1, <3>3, <3>4, <1>d DEF CloseTurn, TypeInv, DataType, RestType, history
  <2> QED BY <1>28, <2>2, <2>3 DEF CloseTurn
<1>29. ASSUME NEW p \in Proc, StorageError(p) PROVE TypeInv'
  <2>1. ControlType' /\ UNCHANGED <<tries, lease>>
    BY <1>29, <1>d, RaiseType DEF StorageError
  <2> QED BY <1>29, <2>1, <1>d DEF StorageError, TypeInv, DataType, RestType, database, history
<1>30. ASSUME NEW c \in Conv, DeleteConversation(c) PROVE TypeInv'
  <2>1. run' \in [Turn -> Run]
    <3>1. \A t \in Turn : [run[t] EXCEPT !.requested = None, !.conv = None, !.msg = None] \in Run
      BY <1>d, RunEdits DEF DataType
    <3> QED BY <1>30, <3>1, <1>d DEF DeleteConversation, DataType
  <2>2. msg' \in [Req -> Message]
    BY <1>30, <1>d, Values DEF DeleteConversation, DataType
  <2> QED BY <1>30, <2>1, <2>2, <1>d DEF DeleteConversation, TypeInv, DataType, ControlType, RestType, SweeperPlace, RowToLoad, memory, history
<1>p. Sweeper \in Proc /\ {"sweep", "idle"} \subseteq PC \ {"loadMessage"}
  BY DEF Proc, PC, Claiming
<1>31. ASSUME Visit PROVE TypeInv'
  <2>1. todo' \in [Proc -> SUBSET Candidate]
    <3>1. PICK C \in SUBSET Turn : todo' = [todo EXCEPT ![Sweeper] = Observed(C)]
      BY <1>31 DEF Visit
    <3> QED BY <3>1, <1>o, <1>d DEF ControlType
  <2>2. ControlType'
    BY <1>31, <2>1, <1>p, <1>d, <1>v, Moved DEF Visit, ControlType
  <2> QED BY <1>31, <2>2, <1>d DEF Visit, TypeInv, DataType, RestType, database, history
<1>32. ASSUME Restart PROVE TypeInv'
  <2>1. todo' \in [Proc -> SUBSET Candidate]
    BY <1>32, <1>o, <1>d DEF Restart, ControlType
  <2>2. ControlType'
    BY <1>32, <2>1, <1>p, <1>d, <1>v, Moved DEF Restart, ControlType
  <2> QED BY <1>32, <2>2, <1>d DEF Restart, TypeInv, DataType, RestType, database, history
<1>33. ASSUME Tick PROVE TypeInv'
  <2>1. run' \in [Turn -> Run]
    <3>1. \A l \in Lapsed..Lease : (IF l > Lapsed THEN l - 1 ELSE l) \in Lapsed..Lease
      BY LedgerAssumption DEF Lapsed
    <3>2. \A t \in Turn : run[t] \in Run /\ run[t].left \in Lapsed..Lease
      BY <1>d DEF DataType, Run
    <3>3. \A t \in Turn :
            [run[t] EXCEPT !.left = IF @ > Lapsed THEN @ - 1 ELSE @] \in Run
      BY <3>1, <3>2, RunEdits
    <3> QED BY <1>33, <3>3 DEF Tick
  <2> QED BY <1>33, <2>1, <1>d DEF Tick, TypeInv, DataType, ControlType, RestType, SweeperPlace, RowToLoad, memory, history
<1>34. ASSUME Crash PROVE TypeInv'
  <2>1. ControlType'
    BY <1>34, <1>p, <1>d, <1>v DEF Crash, ControlType, SweeperPlace, RowToLoad, PC
  <2> QED BY <1>34, <2>1, <1>d, Values DEF Crash, TypeInv, DataType, RestType, database, history
<1>35. ASSUME UNCHANGED vars PROVE TypeInv'
  BY <1>35, <1>d DEF vars, TypeInv, DataType, ControlType, RestType, SweeperPlace, RowToLoad, database, memory, history
<1> QED
  BY <1>1, <1>2, <1>3, <1>4, <1>5, <1>6, <1>7, <1>8, <1>9, <1>10, <1>11, <1>12, <1>13, <1>14,
     <1>15, <1>16, <1>17, <1>18, <1>19, <1>20, <1>21, <1>22, <1>23, <1>24, <1>25, <1>26, <1>27,
     <1>28, <1>29, <1>30, <1>31, <1>32, <1>33, <1>34, <1>35
     DEF Next, Claim, Execute, Generate, Sweep, Maintain, CutShort

\* An empty ledger and a process that is not running yet are well-typed.
LEMMA InitType == Init => TypeInv
<1> SUFFICES ASSUME Init PROVE TypeInv
  OBVIOUS
<1>1. DataType
  BY Values DEF Init, DataType
<1>2. ControlType
  BY Values, LedgerAssumption DEF Init, ControlType, SweeperPlace, RowToLoad, PC, Told, Proc
<1>3. RestType
  BY Values DEF Init, RestType
<1> QED BY <1>1, <1>2, <1>3 DEF TypeInv

\* Every reachable state of the ledger is well-typed: the rows, the places and
\* capabilities of requests and sweeps, and the journals keep their shapes
\* through every claim, checkpoint, fence, closing, crash and deletion.
THEOREM TypeCorrect == Spec => []TypeOK
<1>1. TypeInv => TypeOK
  BY DEF TypeInv, DataType, ControlType, RestType, Told, TypeOK
<1> QED BY <1>1, InitType, StepType, PTL DEF Spec

=============================================================================
