----------------------- MODULE AgentTurnLedgerProofs ------------------------
(***************************************************************************)
(* The inductive invariant of the turn ledger and what follows from it: at *)
(* most one execution, no orphan transcript, receipts that match their     *)
(* transcripts and reported outcomes that stay true, for any number of     *)
(* turns, requests, conversations, retries, crashes and faults.            *)
(***************************************************************************)
EXTENDS AgentTurnLedgerTypes

\* Where a request works under the lease it was granted.
Executing == {"protocol", "prepare"} \cup Streaming
Early     == {"protocol", "prepare", "open", "bind", "ready"}

RunOK(t) ==
  /\ run[t].state = "none" =>
       /\ run[t].msg = None /\ run[t].requested = None /\ run[t].conv = None
       /\ run[t].token = 0
       /\ owner[t] = None /\ calls[t] = 0 /\ wrote[t] = 0
  /\ run[t].state # "none" => run[t].token >= 1
  /\ run[t].requested # None => run[t].conv = run[t].requested
  /\ run[t].msg # None => wrote[t] = 1

OwnerOK(r) ==
  /\ pc[r] \in Executing => owner[T(r)] = r /\ lease[r] = 1
  /\ pc[r] \in {"protocol", "prepare"} => wrote[T(r)] = 0
  /\ pc[r] \in Streaming => wrote[T(r)] = 1
  /\ pc[r] \in Early => calls[T(r)] = 0

BoundOK(r) == msg[r].status # "absent" =>
                run[T(r)].msg = r /\ run[T(r)].conv = msg[r].conv

TaleOK(t) == run[t].msg # None =>
  /\ T(run[t].msg) = t
  /\ msg[run[t].msg].status = (IF run[t].state = "running" THEN "streaming"
                                                          ELSE run[t].state)

CloserOK(p) ==
  LET t    == close[p].turn
      mid  == close[p].mid
      seen == close[p].seen.status
  IN /\ close[p].token <= run[t].token
     /\ \/ close[p].token >= 2
        \/ close[p].token = 1 /\ p \in Req /\ owner[t] = p
     /\ mid # None => T(mid) = t
     /\ mid = None \/ pc[p] # "close" => seen = "absent"
     /\ pc[p] = "loadMessage" => wrote[t] = 1 /\ run[t].msg \in {mid, None}
     /\ seen \in Terminal => run[t].state \in Terminal
     /\ pc[p] = "close" /\ seen = "absent" /\ run[t].state = "running"
          /\ run[t].token = close[p].token => run[t].msg = None

LedgerInv ==
  /\ \A t \in Turn : RunOK(t) /\ TaleOK(t)
  /\ \A r \in Req : OwnerOK(r) /\ BoundOK(r)
  /\ \A p \in Proc : pc[p] \in Closer => CloserOK(p)
  /\ AtMostOneExecution

\* What process p alone does to the places, capabilities and leases.
Alone(p) ==
  /\ \A q \in Proc \ {p} : pc'[q] = pc[q] /\ close'[q] = close[q]
  /\ \A r \in Req \ {p} : lease'[r] = lease[r]

\* p is as the invariant wants it after the step.
Sound(p) ==
  /\ p \in Req => OwnerOK(p)'
  /\ pc'[p] \in Closer => CloserOK(p)'

SameRuns == \A t \in Turn :
  /\ run'[t].state = run[t].state /\ run'[t].token = run[t].token
  /\ run'[t].requested = run[t].requested /\ run'[t].conv = run[t].conv
  /\ run'[t].msg = run[t].msg

SameRows == \A r \in Req : msg'[r].status = msg[r].status /\ msg'[r].conv = msg[r].conv

\* The facts of the type invariant that the ledger's proofs use.
LEMMA Typed ==
  ASSUME TypeInv
  PROVE  /\ \A r \in Req : /\ r # Sweeper /\ r # None /\ r \in Proc /\ T(r) \in Turn
                           /\ msg[r].conv \in Conv \cup {None}
                           /\ calls[T(r)] \in Nat /\ wrote[T(r)] \in Nat
         /\ \A t \in Turn : /\ run[t].msg \in Req \cup {None} /\ run[t].token \in Nat
                            /\ run[t].state \in {"none", "running"} \cup Terminal
                            /\ calls[t] \in Nat /\ wrote[t] \in Nat
         /\ \A p \in Proc : /\ close[p].turn \in Turn /\ close[p].token \in Nat
                            /\ close[p].mid \in Req \cup {None}
                            /\ close[p].seen.status \in {"absent", "streaming"} \cup Terminal
BY LedgerAssumption DEF TypeInv, DataType, ControlType, RestType, Run, Message, Closing,
   Request, T, Proc

\* A step of one process that leaves the story of every turn as it is.
LEMMA MoveInv ==
  ASSUME TypeInv, LedgerInv, NEW p \in Proc, Alone(p), Sound(p), SameRuns, SameRows,
         UNCHANGED <<req, owner, wrote, calls>>
  PROVE  LedgerInv'
<1>1. \A t \in Turn : RunOK(t)'
  BY DEF LedgerInv, RunOK, SameRuns
<1>2. \A t \in Turn : TaleOK(t)'
  BY Typed DEF LedgerInv, TaleOK, SameRuns, SameRows, T
<1>3. \A r \in Req : BoundOK(r)'
  BY Typed DEF LedgerInv, BoundOK, SameRuns, SameRows, T
<1>4. \A r \in Req : OwnerOK(r)'
  BY Typed DEF LedgerInv, OwnerOK, SameRuns, Alone, Sound, T
<1>5. ASSUME NEW q \in Proc, pc'[q] \in Closer PROVE CloserOK(q)'
  <2>1. CASE q = p
    BY <1>5, <2>1 DEF Sound
  <2>2. CASE q # p
    BY <1>5, <2>2, Typed DEF LedgerInv, CloserOK, SameRuns, Alone, T
  <2> QED BY <2>1, <2>2
<1>6. AtMostOneExecution'
  BY DEF LedgerInv, AtMostOneExecution
<1> QED BY <1>1, <1>2, <1>3, <1>4, <1>5, <1>6 DEF LedgerInv

\* A step of one process that settles a running turn with the row bound to it.
LEMMA SettleInv ==
  ASSUME TypeInv, LedgerInv, NEW p \in Proc, Alone(p), Sound(p),
         NEW t \in Turn, NEW s \in Terminal, run[t].state = "running",
         run' = [run EXCEPT ![t].state = s, ![t].left = Lapsed],
         \A r \in Req :
           /\ msg'[r].conv = msg[r].conv
           /\ msg'[r].status = (IF msg[r].status = "streaming" /\ T(r) = t
                                THEN s ELSE msg[r].status),
         UNCHANGED <<req, owner, wrote, calls>>
  PROVE  LedgerInv'
<1>0. /\ \A u \in Turn :
           /\ run'[u].token = run[u].token /\ run'[u].msg = run[u].msg
           /\ run'[u].requested = run[u].requested /\ run'[u].conv = run[u].conv
      /\ \A u \in Turn \ {t} : run'[u].state = run[u].state
      /\ run'[t].state = s
  BY DEF TypeInv, DataType, Run
<1>1. ASSUME NEW u \in Turn PROVE RunOK(u)'
  <2>1. RunOK(u) /\ RunOK(t)
    BY DEF LedgerInv
  <2>2. CASE u = t
    BY <1>0, <2>1, <2>2 DEF RunOK, Terminal
  <2>3. CASE u # t
    BY <1>0, <2>1, <2>3 DEF RunOK
  <2> QED BY <2>2, <2>3
<1>2. ASSUME NEW u \in Turn PROVE TaleOK(u)'
  <2> SUFFICES ASSUME run[u].msg # None
      PROVE  /\ T(run[u].msg)' = u
             /\ msg'[run[u].msg].status = (IF run'[u].state = "running" THEN "streaming"
                                                                      ELSE run'[u].state)
    BY ZenonT(60), <1>0 DEF TaleOK
  <2>1. run[u].msg \in Req /\ T(run[u].msg) = u
    BY Typed DEF LedgerInv, TaleOK
  <2>2. msg[run[u].msg].status = (IF run[u].state = "running" THEN "streaming"
                                                             ELSE run[u].state)
    BY DEF LedgerInv, TaleOK
  <2>3. CASE u = t
    BY <1>0, <2>1, <2>2, <2>3 DEF Terminal, T
  <2>4. CASE u # t
    BY <1>0, <2>1, <2>2, <2>4 DEF T
  <2> QED BY <2>3, <2>4
<1>3. ASSUME NEW r \in Req PROVE BoundOK(r)'
  <2>1. BoundOK(r) /\ T(r) \in Turn /\ T(r)' = T(r)
    BY Typed DEF LedgerInv, T
  <2>2. msg'[r].status # "absent" => msg[r].status # "absent"
    OBVIOUS
  <2> QED BY <1>0, <2>1, <2>2 DEF BoundOK
<1>4. ASSUME NEW r \in Req PROVE OwnerOK(r)'
  <2>1. OwnerOK(r) /\ T(r) \in Turn /\ T(r)' = T(r) /\ r \in Proc
    BY Typed DEF LedgerInv, T
  <2>2. CASE r = p
    BY <2>2 DEF Sound
  <2>3. CASE r # p
    <3>1. pc'[r] = pc[r] /\ lease'[r] = lease[r]
      BY <2>1, <2>3 DEF Alone
    <3> QED BY <2>1, <3>1 DEF OwnerOK
  <2> QED BY <2>2, <2>3
<1>5. ASSUME NEW q \in Proc, pc'[q] \in Closer PROVE CloserOK(q)'
  <2>1. CASE q = p
    BY <1>5, <2>1 DEF Sound
  <2>2. CASE q # p
    <3>1. /\ pc'[q] = pc[q] /\ close'[q] = close[q] /\ CloserOK(q)
          /\ close[q].turn \in Turn /\ close[q].mid \in Req \cup {None}
      BY <1>5, <2>2, Typed DEF LedgerInv, Alone
    <3>2. T(close[q].mid)' = T(close[q].mid)
      BY <3>1 DEF T
    <3>3. CASE close[q].turn = t
      BY ZenonT(60), <3>1, <3>2, <3>3, <1>0 DEF CloserOK, Terminal
    <3>4. CASE close[q].turn # t
      <4>1. /\ run'[close[q].turn].state = run[close[q].turn].state
            /\ run'[close[q].turn].token = run[close[q].turn].token
            /\ run'[close[q].turn].msg = run[close[q].turn].msg
        BY <3>1, <3>4, <1>0
      <4> QED BY <3>1, <3>2, <4>1 DEF CloserOK
    <3> QED BY <3>3, <3>4
  <2> QED BY <2>1, <2>2
<1>6. AtMostOneExecution'
  BY DEF LedgerInv, AtMostOneExecution
<1> QED BY <1>1, <1>2, <1>3, <1>4, <1>5, <1>6 DEF LedgerInv

\* A step that fences an expired turn for closing.
LEMMA FenceInv ==
  ASSUME TypeInv, LedgerInv, NEW p \in Proc, NEW c \in Candidate, NEW d \in 0..Delay,
         NEW b \in {"sweep", "settle", "done"}, Fence(p, c, d, b),
         UNCHANGED <<req, owner, wrote, calls, lease>>
  PROVE  LedgerInv'
<1>0. /\ c.turn \in Turn /\ c.token \in Nat /\ run[c.turn].token = c.token
      /\ run[c.turn].state = "running" /\ c.token >= 1
      /\ close[p] \in Closing /\ pc \in [Proc -> PC] /\ close \in [Proc -> Closing]
  BY DEF Fence, CanFence, Candidate, TypeInv, ControlType, LedgerInv, RunOK
<1>1. /\ \A u \in Turn :
           /\ run'[u].state = run[u].state /\ run'[u].msg = run[u].msg
           /\ run'[u].requested = run[u].requested /\ run'[u].conv = run[u].conv
      /\ \A u \in Turn \ {c.turn} : run'[u].token = run[u].token
      /\ run'[c.turn].token = c.token + 1
  BY <1>0 DEF TypeInv, DataType, Run, Fence
<1>2. /\ pc' = [pc EXCEPT ![p] = "load"]
      /\ close' = [close EXCEPT ![p] = Capability(c.turn, c.token + 1, "aborted", b)]
      /\ msg' = msg
  BY DEF Fence
<1>3. \A u \in Turn : RunOK(u)'
  BY <1>0, <1>1, Typed DEF LedgerInv, RunOK
<1>4. \A u \in Turn : TaleOK(u)'
  BY <1>1, <1>2, Typed DEF LedgerInv, TaleOK, T
<1>5. \A r \in Req : BoundOK(r)'
  BY <1>1, <1>2, Typed DEF LedgerInv, BoundOK, T
<1>6. \A r \in Req : OwnerOK(r)'
  BY <1>0, <1>2, Typed DEF LedgerInv, OwnerOK, T, Executing, Early, Streaming
<1>7. ASSUME NEW q \in Proc, pc'[q] \in Closer PROVE CloserOK(q)'
  <2>1. CASE q = p
    <3>1. /\ close'[p].turn = c.turn /\ close'[p].token = c.token + 1
          /\ close'[p].mid = None /\ close'[p].seen = NoMsg /\ pc'[p] = "load"
      BY <1>0, <1>2 DEF Capability
    <3> QED BY <2>1, <3>1, <1>0, <1>1 DEF CloserOK, NoMsg, Terminal
  <2>2. CASE q # p
    <3>1. pc'[q] = pc[q] /\ close'[q] = close[q] /\ CloserOK(q)
      BY <1>0, <1>2, <1>7, <2>2 DEF LedgerInv
    <3> QED BY <3>1, <1>0, <1>1, Typed DEF CloserOK, T
  <2> QED BY <2>1, <2>2
<1>8. AtMostOneExecution'
  BY DEF LedgerInv, AtMostOneExecution
<1> QED BY <1>3, <1>4, <1>5, <1>6, <1>7, <1>8 DEF LedgerInv


\* An exception leaves the process where the invariant wants it.
LEMMA RaiseSound ==
  ASSUME TypeInv, LedgerInv, NEW p \in Proc, Raise(p), SameRuns,
         UNCHANGED <<req, owner, wrote, calls>>
  PROVE  Alone(p) /\ Sound(p)
<1>1. pc \in [Proc -> PC] /\ close \in [Proc -> Closing]
  BY DEF TypeInv, ControlType
<1>2. Alone(p)
  BY <1>1 DEF Raise, Alone, Proc
<1>3. ASSUME p \in Req PROVE OwnerOK(p)'
  <2>1. OwnerOK(p) /\ lease'[p] = lease[p] /\ T(p)' = T(p)
    BY <1>3 DEF LedgerInv, Raise, T
  <2>2. \/ pc'[p] \notin Executing
        \/ pc[p] \in Streaming /\ pc'[p] = "fail"
    BY <1>1 DEF Raise, Executing, Streaming, Closer
  <2> QED BY <2>1, <2>2 DEF OwnerOK, Executing, Streaming, Early
<1>4. ASSUME pc'[p] \in Closer PROVE CloserOK(p)'
  <2>1. pc[p] = "prepare" /\ close'[p] = Capability(T(p), lease[p], "error", "done") /\ pc'[p] = "load"
    BY <1>1, <1>4 DEF Raise, Closer
  <2>2. p \in Req
    BY <2>1, LedgerAssumption DEF TypeInv, ControlType, SweeperPlace, Proc, Closer
  <2>3. owner[T(p)] = p /\ lease[p] = 1 /\ T(p) \in Turn
    BY <2>1, <2>2, Typed DEF LedgerInv, OwnerOK, Executing
  <2>4. run[T(p)].token >= 1 /\ run'[T(p)].token = run[T(p)].token
    BY <2>2, <2>3, LedgerAssumption DEF LedgerInv, RunOK, SameRuns
  <2> QED BY <2>1, <2>2, <2>3, <2>4 DEF CloserOK, Capability, NoMsg, Terminal
<1> QED BY <1>2, <1>3, <1>4 DEF Sound

\* So does the loss of the client.
LEMMA CancelledSound ==
  ASSUME TypeInv, LedgerInv, NEW r \in Req, Cancelled(r), SameRuns,
         UNCHANGED <<req, owner, wrote, calls>>
  PROVE  Alone(r) /\ Sound(r)
<1>1. pc \in [Proc -> PC] /\ close \in [Proc -> Closing] /\ r \in Proc
  BY Typed DEF TypeInv, ControlType
<1>2. Alone(r)
  BY <1>1 DEF Cancelled, Alone, Proc
<1>3. OwnerOK(r)'
  <2>1. OwnerOK(r) /\ lease'[r] = lease[r] /\ T(r)' = T(r)
    BY DEF LedgerInv, Cancelled, T
  <2>2. \/ pc'[r] \notin Executing
        \/ pc[r] \in Streaming /\ pc'[r] = "abort"
    BY <1>1 DEF Cancelled, Executing, Streaming
  <2> QED BY <2>1, <2>2 DEF OwnerOK, Executing, Streaming, Early
<1>4. ASSUME pc'[r] \in Closer PROVE CloserOK(r)'
  <2>1. pc[r] = "prepare" /\ pc'[r] = "load"
        /\ close'[r] = Capability(T(r), lease[r], "aborted", "done")
    BY <1>1, <1>4 DEF Cancelled, Closer
  <2>2. owner[T(r)] = r /\ lease[r] = 1 /\ T(r) \in Turn
    BY <2>1, Typed DEF LedgerInv, OwnerOK, Executing
  <2>3. run[T(r)].token >= 1 /\ run'[T(r)].token = run[T(r)].token
    BY <2>2, LedgerAssumption DEF LedgerInv, RunOK, SameRuns
  <2> QED BY <2>1, <2>2, <2>3 DEF CloserOK, Capability, NoMsg, Terminal
<1> QED BY <1>2, <1>3, <1>4 DEF Sound

-----------------------------------------------------------------------------
\* A forced checkpoint of the runner keeps the invariant.
LEMMA CheckpointInv ==
  ASSUME TypeInv, LedgerInv, NEW r \in Req, NEW next, NEW maint, NEW cut \in BOOLEAN,
         Checkpoint(r, next, maint, cut), UNCHANGED history,
         pc[r] \in Streaming, next \in Streaming, next \in Early => pc[r] \in Early
  PROVE  LedgerInv'
<1>1. SameRuns /\ UNCHANGED <<req, owner, wrote, calls>>
  BY DEF Checkpoint, SameRuns, history
<1>2. SameRows
  BY DEF Checkpoint, Save, SameRows, TypeInv, DataType, Message
<1>3. CASE Raise(r)
  BY <1>1, <1>2, <1>3, RaiseSound, MoveInv, Typed
<1>4. CASE Cancelled(r)
  BY <1>1, <1>2, <1>4, CancelledSound, MoveInv, Typed
<1>5. CASE pc' = [pc EXCEPT ![r] = next] /\ UNCHANGED <<close, lease>>
  <2>1. pc \in [Proc -> PC] /\ r \in Proc
    BY Typed DEF TypeInv, ControlType
  <2>2. Alone(r) /\ pc'[r] = next
    BY <1>5, <2>1 DEF Alone
  <2>3. OwnerOK(r)'
    <3>1. OwnerOK(r) /\ T(r)' = T(r) /\ T(r) \in Turn
      BY <1>1, Typed DEF LedgerInv, T
    <3> QED BY <3>1, <1>1, <1>5, <2>2 DEF OwnerOK, SameRuns, Executing, Streaming
  <2>4. pc'[r] \notin Closer
    BY <2>2 DEF Closer, Streaming
  <2> QED BY <1>1, <1>2, <2>1, <2>2, <2>3, <2>4, MoveInv DEF Sound
<1> QED BY <1>3, <1>4, <1>5 DEF Checkpoint

\* A request moves on, away from the transactions of its lease or among them.
LEMMA WalkInv ==
  ASSUME TypeInv, LedgerInv, NEW r \in Req, NEW v, v \notin Closer,
         v \notin Executing \/ /\ v \in Streaming /\ pc[r] \in Streaming
                               /\ v \in Early => pc[r] \in Early,
         pc' = [pc EXCEPT ![r] = v], SameRuns, SameRows,
         \A q \in Proc \ {r} : close'[q] = close[q],
         \A q \in Req \ {r} : lease'[q] = lease[q],
         v \in Executing => lease'[r] = lease[r],
         UNCHANGED <<req, owner, wrote, calls>>
  PROVE  LedgerInv'
<1>1. pc \in [Proc -> PC] /\ r \in Proc
  BY Typed DEF TypeInv, ControlType
<1>2. Alone(r) /\ pc'[r] = v
  BY <1>1 DEF Alone
<1>3. OwnerOK(r) /\ T(r)' = T(r)
  BY DEF LedgerInv, T
<1>4. OwnerOK(r)'
  BY <1>2, <1>3 DEF OwnerOK, Executing, Streaming, Early
<1> QED BY <1>1, <1>2, <1>4, MoveInv DEF Sound

\* The steps that only read the database or only move the request keep it.
LEMMA ReadersInv ==
  ASSUME TypeInv, LedgerInv, NEW r \in Req,
         \/ Arrive(r) \/ ClaimRead(r) \/ ClaimSettle(r) \/ ShowToolResult(r)
         \/ EndStream(r) \/ ToolResult(r) \/ CloseJournal(r)
         \/ ClaimAgain(r) /\ UNCHANGED <<database, req, history, lease>>
  PROVE  LedgerInv'
<1>s. UNCHANGED <<run, msg, req, owner, wrote, calls>>
  BY DEF Arrive, ClaimRead, ClaimSettle, ShowToolResult, EndStream,
     ToolResult, CloseJournal, database, history
<1>d. SameRuns /\ SameRows
  BY <1>s DEF SameRuns, SameRows
<1>1. CASE Arrive(r)
  <2>1. \E v \in {"claim", "sweep"} : pc' = [pc EXCEPT ![r] = v]
    BY <1>1 DEF Arrive
  <2> QED BY <1>1, <2>1, <1>s, <1>d, WalkInv DEF Arrive, Executing, Streaming, Closer
<1>2. CASE ClaimRead(r)
  <2>1. \E v \in {"insert", "fence", "done"} : pc' = [pc EXCEPT ![r] = v]
    BY <1>2 DEF ClaimRead, Answer
  <2>2. \A q \in Proc \ {r} : close'[q] = close[q]
    BY <1>2 DEF ClaimRead, TypeInv, ControlType
  <2> QED BY <1>2, <2>1, <2>2, <1>s, <1>d, WalkInv DEF ClaimRead, Executing, Streaming, Closer
<1>3. CASE ClaimSettle(r)
  <2>1. pc' = [pc EXCEPT ![r] = "done"]
    BY <1>3 DEF ClaimSettle, Answer
  <2> QED BY <1>3, <2>1, <1>s, <1>d, WalkInv DEF ClaimSettle, memory, Executing, Streaming, Closer
<1>4. CASE ShowToolResult(r)
  BY <1>4, <1>s, <1>d, WalkInv DEF ShowToolResult, memory, Streaming, Closer, Early
<1>5. CASE EndStream(r)
  BY <1>5, <1>s, <1>d, WalkInv DEF EndStream, memory, Streaming, Closer, Early
<1>6. CASE ToolResult(r)
  BY <1>6, <1>s, <1>d, WalkInv DEF ToolResult, Event, Streaming, Closer, Early
<1>7. CASE CloseJournal(r)
  <2>1. \A q \in Req \ {r} : lease'[q] = lease[q]
    BY <1>7 DEF CloseJournal, TypeInv, RestType
  <2> QED BY <1>7, <2>1, <1>s, <1>d, WalkInv DEF CloseJournal, Executing, Streaming, Closer
<1>8. CASE ClaimAgain(r) /\ UNCHANGED <<database, req, history, lease>>
  <2>1. \E v \in {"claim", "done"} : pc' = [pc EXCEPT ![r] = v]
    BY <1>8 DEF ClaimAgain, Answer
  <2>2. \A q \in Proc \ {r} : close'[q] = close[q]
    BY <1>8 DEF ClaimAgain, TypeInv, ControlType
  <2> QED BY <1>8, <2>1, <2>2, <1>s, <1>d, WalkInv DEF Executing, Streaming, Closer
<1> QED BY <1>1, <1>2, <1>3, <1>4, <1>5, <1>6, <1>7, <1>8

\* Exceptions and cancellations outside the transactions that commit.
LEMMA EscapeInv ==
  ASSUME TypeInv, LedgerInv, NEW p \in Proc,
         \/ Raise(p) /\ UNCHANGED <<run, msg, req, history>>
         \/ p \in Req /\ Cancelled(p) /\ UNCHANGED <<run, msg, req, history>>
  PROVE  LedgerInv'
BY RaiseSound, CancelledSound, MoveInv DEF SameRuns, SameRows, history

\* Steps that touch neither places nor the story of a turn.
LEMMA QuietInv ==
  ASSUME TypeInv, LedgerInv, SameRuns, SameRows,
         UNCHANGED <<pc, close, lease, req, owner, wrote, calls>>
  PROVE  LedgerInv'
<1>1. \A t \in Turn : RunOK(t)'
  BY DEF LedgerInv, RunOK, SameRuns
<1>2. \A t \in Turn : TaleOK(t)'
  BY Typed DEF LedgerInv, TaleOK, SameRuns, SameRows, T
<1>3. \A r \in Req : BoundOK(r)'
  BY Typed DEF LedgerInv, BoundOK, SameRuns, SameRows, T
<1>4. \A r \in Req : OwnerOK(r)'
  BY Typed DEF LedgerInv, OwnerOK, SameRuns, T
<1>5. \A q \in Proc : pc'[q] \in Closer => CloserOK(q)'
  BY Typed DEF LedgerInv, CloserOK, SameRuns, T
<1>6. AtMostOneExecution'
  BY DEF LedgerInv, AtMostOneExecution
<1> QED BY <1>1, <1>2, <1>3, <1>4, <1>5, <1>6 DEF LedgerInv

\* Granting a new turn to its first claimant keeps the invariant.
LEMMA ClaimInsertInv ==
  ASSUME TypeInv, LedgerInv, NEW r \in Req, NEW cut \in BOOLEAN, ClaimInsert(r, cut)
  PROVE  LedgerInv'
<1>1. CASE ClaimAgain(r) /\ UNCHANGED <<run, lease, owner>>
  BY <1>1, ReadersInv DEF ClaimInsert, database, history
<1>2. CASE Raise(r) /\ UNCHANGED <<run, owner>>
  BY <1>2, EscapeInv, Typed DEF ClaimInsert, history
<1>3. ASSUME NEW v, v \in {"done", "protocol", "prepare"}, run[T(r)].state = "none",
             \E d \in 0..Delay : run' = [run EXCEPT ![T(r)] =
               [state |-> "running", payload |-> req[r].payload,
                requested |-> req[r].conv, conv |-> req[r].conv, msg |-> None,
                token |-> 1, left |-> Lease - d]],
             owner' = [owner EXCEPT ![T(r)] = r], lease' = [lease EXCEPT ![r] = 1],
             pc' = [pc EXCEPT ![r] = v], UNCHANGED <<close, msg, req, calls, wrote>>
      PROVE  LedgerInv'
  <2> DEFINE t == T(r)
  <2>1. /\ t \in Turn /\ r \in Proc /\ r # None /\ T(r)' = t
        /\ RunOK(t) /\ run[t].state = "none"
    BY <1>3, Typed DEF LedgerInv, T
  <2>2. /\ owner[t] = None /\ calls[t] = 0 /\ wrote[t] = 0 /\ run[t].msg = None
        /\ run[t].token = 0
    BY <2>1 DEF RunOK
  <2>3. /\ run'[t].state = "running" /\ run'[t].msg = None /\ run'[t].token = 1
        /\ run'[t].requested = run'[t].conv
        /\ \A u \in Turn \ {t} : run'[u] = run[u] /\ owner'[u] = owner[u]
        /\ owner'[t] = r
        /\ pc'[r] = v /\ lease'[r] = 1
        /\ \A q \in Req \ {r} : lease'[q] = lease[q]
        /\ \A q \in Proc \ {r} : pc'[q] = pc[q]
        /\ msg' = msg /\ close' = close /\ calls' = calls /\ wrote' = wrote
    BY <1>3, <2>1 DEF TypeInv, DataType, ControlType, RestType
  <2>4. \A q \in Req : T(q)' = T(q) /\ T(q) \in Turn
    BY <1>3, Typed DEF T
  <2>5. ASSUME NEW u \in Turn PROVE RunOK(u)' /\ TaleOK(u)'
    <3>1. CASE u = t
      BY <2>2, <2>3, <3>1 DEF RunOK, TaleOK
    <3>2. CASE u # t
      <4>1. RunOK(u) /\ TaleOK(u) /\ run'[u] = run[u] /\ owner'[u] = owner[u]
            /\ run[u].msg \in Req \cup {None}
        BY <2>3, <3>2, Typed DEF LedgerInv
      <4> QED BY <2>3, <2>4, <4>1 DEF RunOK, TaleOK
    <3> QED BY <3>1, <3>2
  <2>6. ASSUME NEW q \in Req PROVE OwnerOK(q)' /\ BoundOK(q)'
    <3>0. OwnerOK(q) /\ BoundOK(q) /\ q # None /\ q \in Proc
      BY Typed DEF LedgerInv
    <3>1. CASE q = r
      <4>1. OwnerOK(q)'
        BY <2>2, <2>3, <2>4, <3>1, <1>3 DEF OwnerOK, Streaming
      <4>2. msg[q].status = "absent"
        BY <2>1, <2>2, <3>0, <3>1 DEF BoundOK
      <4> QED BY <2>3, <4>1, <4>2 DEF BoundOK
    <3>2. CASE q # r /\ T(q) = t
      <4>1. pc[q] \notin Executing /\ pc'[q] = pc[q]
        BY <2>2, <2>3, <3>0, <3>2 DEF OwnerOK
      <4>2. msg[q].status = "absent"
        BY <2>2, <3>0, <3>2 DEF BoundOK
      <4> QED BY <2>3, <4>1, <4>2 DEF OwnerOK, BoundOK, Executing, Early, Streaming
    <3>3. CASE q # r /\ T(q) # t
      BY <2>3, <2>4, <3>0, <3>3 DEF OwnerOK, BoundOK
    <3> QED BY <3>1, <3>2, <3>3
  <2>7. ASSUME NEW q \in Proc, pc'[q] \in Closer PROVE CloserOK(q)'
    <3>1. q # r /\ pc'[q] = pc[q] /\ CloserOK(q)
      BY <1>3, <2>3, <2>7 DEF LedgerInv, Closer
    <3>2. close[q].turn \in Turn /\ close[q].token \in Nat /\ close[q].mid \in Req \cup {None}
      BY Typed
    <3>3. close[q].turn # t
      BY <2>2, <3>1, <3>2 DEF CloserOK
    <3> QED BY <2>3, <2>4, <3>1, <3>2, <3>3 DEF CloserOK
  <2>8. AtMostOneExecution'
    BY <2>3 DEF LedgerInv, AtMostOneExecution
  <2> QED BY <2>5, <2>6, <2>7, <2>8 DEF LedgerInv
<1> QED BY <1>1, <1>2, <1>3 DEF ClaimInsert

\* A retry that fences the expired turn it found keeps it.
LEMMA ClaimFenceInv ==
  ASSUME TypeInv, LedgerInv, NEW r \in Req, ClaimFence(r)
  PROVE  LedgerInv'
<1> DEFINE c == [turn |-> close[r].turn, token |-> close[r].token]
<1>0. c \in Candidate /\ r \in Proc
  BY Typed DEF Candidate
<1>1. CASE ClaimAgain(r) /\ UNCHANGED database
  BY <1>1, ReadersInv DEF ClaimFence
<1>2. CASE \E d \in 0..Delay : Fence(r, c, d, "settle")
  BY <1>0, <1>2, FenceInv DEF ClaimFence, history
<1> QED BY <1>1, <1>2 DEF ClaimFence

\* Closing a receipt without a transcript (_durable_protocol_error) keeps it.
LEMMA ProtocolErrorInv ==
  ASSUME TypeInv, LedgerInv, NEW r \in Req, ProtocolError(r)
  PROVE  LedgerInv'
<1>1. CASE Raise(r) /\ UNCHANGED run
  BY <1>1, EscapeInv, Typed DEF ProtocolError
<1>2. CASE /\ \E d \in 0..Delay : Owns(T(r), lease[r], d)
           /\ run' = [run EXCEPT ![T(r)].state = "error", ![T(r)].left = Lapsed]
           /\ Answer(r, "error") /\ UNCHANGED <<close, lease>>
  <2>1. T(r) \in Turn /\ run[T(r)].state = "running" /\ "error" \in Terminal /\ r \in Proc
    BY <1>2, Typed DEF Owns, Terminal
  <2>2. pc'[r] = "done" /\ Alone(r) /\ T(r)' = T(r)
    BY <1>2, <2>1 DEF Answer, Alone, TypeInv, ControlType, ProtocolError, T
  <2>4. Sound(r)
    BY <2>2 DEF Sound, OwnerOK, Executing, Early, Streaming, Closer
  <2>5. wrote[T(r)] = 0
    BY DEF ProtocolError, LedgerInv, OwnerOK
  <2>6. \A q \in Req : T(q) = T(r) => msg[q].status = "absent"
    BY <2>1, <2>5, Typed DEF LedgerInv, BoundOK, RunOK
  <2> QED BY <1>2, <2>1, <2>2, <2>4, <2>6, SettleInv DEF ProtocolError, history
<1> QED BY <1>1, <1>2 DEF ProtocolError

\* journal.finish by the executor keeps it.
LEMMA FinishTurnInv ==
  ASSUME TypeInv, LedgerInv, NEW r \in Req, NEW cut \in BOOLEAN, FinishTurn(r, cut)
  PROVE  LedgerInv'
<1> DEFINE s == Outcome(r)
<1>0. T(r) \in Turn /\ r \in Proc /\ s \in Terminal /\ pc[r] \in Streaming /\ T(r)' = T(r)
  BY Typed DEF FinishTurn, Outcome, Terminal, Streaming, T
<1>1. CASE Raise(r) /\ UNCHANGED <<run, msg>>
  BY <1>0, <1>1, EscapeInv DEF FinishTurn
<1>2. CASE /\ \E d \in 0..Delay : CanCheckpoint(r, d)
           /\ run' = [run EXCEPT ![T(r)].state = s, ![T(r)].left = Lapsed]
           /\ msg' = [msg EXCEPT ![r] = Final(r)]
           /\ \/ /\ pc' = [pc EXCEPT ![r] = "closing"]
                 /\ UNCHANGED <<close, todo, tries, lease>>
              \/ Cancelled(r)
  <2>1. run[T(r)].state = "running" /\ msg[r].status = "streaming"
    BY <1>2 DEF CanCheckpoint, Owns, Writable
  <2>2. \A q \in Req :
           /\ msg'[q].conv = msg[q].conv
           /\ msg'[q].status = (IF msg[q].status = "streaming" /\ T(q) = T(r)
                                THEN s ELSE msg[q].status)
    <3>1. ASSUME NEW q \in Req, q # r, T(q) = T(r) PROVE msg[q].status = "absent"
      BY <2>1, <3>1 DEF LedgerInv, BoundOK
    <3>2. msg'[r].conv = msg[r].conv /\ msg'[r].status = s
      BY <1>2 DEF Final, TypeInv, DataType, Message
    <3>3. \A q \in Req \ {r} : msg'[q] = msg[q]
      BY <1>2 DEF TypeInv, DataType
    <3> QED BY <2>1, <3>1, <3>2, <3>3
  <2>5. Alone(r) /\ Sound(r)
    <3>1. CASE /\ pc' = [pc EXCEPT ![r] = "closing"]
               /\ UNCHANGED <<close, todo, tries, lease>>
      <4>1. pc'[r] = "closing" /\ Alone(r)
        BY <1>0, <3>1 DEF Alone, TypeInv, ControlType
      <4> QED BY <1>0, <4>1 DEF Sound, OwnerOK, Executing, Early, Streaming, Closer
    <3>2. CASE Cancelled(r)
      <4>1. /\ pc'[r] \in {"closing", "abort"} /\ Alone(r) /\ lease' = lease
            /\ pc'[r] = "abort" => pc[r] \in Streaming
        BY <1>0, <3>2 DEF Cancelled, FinishTurn, Alone, TypeInv, ControlType, Claiming,
           Closer, Streaming, Proc
      <4>2. OwnerOK(r) /\ UNCHANGED <<owner, wrote, calls>>
        BY DEF LedgerInv, FinishTurn, history
      <4>3. OwnerOK(r)'
        BY <1>0, <4>1, <4>2 DEF OwnerOK, Executing, Streaming, Early
      <4> QED BY <4>1, <4>3 DEF Sound, Closer
    <3> QED BY <1>2, <3>1, <3>2
  <2> QED BY <1>0, <1>2, <2>1, <2>2, <2>5, SettleInv DEF FinishTurn, history
<1> QED BY <1>1, <1>2 DEF FinishTurn

\* The call of the provider keeps it: nobody else can ever make one.
LEMMA CallProviderInv ==
  ASSUME TypeInv, LedgerInv, NEW r \in Req, CallProvider(r)
  PROVE  LedgerInv'
<1> DEFINE t == T(r)
<1>0. /\ t \in Turn /\ pc[r] = "ready" /\ OwnerOK(r) /\ pc \in [Proc -> PC] /\ r \in Proc
      /\ \A q \in Req : q \in Proc /\ T(q) \in Turn /\ T(q)' = T(q)
  BY Typed DEF CallProvider, LedgerInv, TypeInv, ControlType, T
<1>1. calls[t] = 0 /\ owner[t] = r /\ wrote[t] = 1 /\ lease[r] = 1
  BY <1>0 DEF OwnerOK, Early, Executing, Streaming
<1>2. /\ calls'[t] = 1 /\ \A u \in Turn \ {t} : calls'[u] = calls[u]
      /\ pc'[r] = "stream" /\ \A q \in Proc \ {r} : pc'[q] = pc[q]
      /\ UNCHANGED <<run, msg, owner, wrote, close, lease>>
  BY <1>0, <1>1 DEF CallProvider, TypeInv, RestType, database, memory
<1>3. \A u \in Turn : RunOK(u)' /\ TaleOK(u)'
  <2>1. \A u \in Turn : RunOK(u)'
    BY <1>1, <1>2 DEF LedgerInv, RunOK
  <2>2. \A u \in Turn : TaleOK(u)'
    BY <1>0, <1>2, Typed DEF LedgerInv, TaleOK
  <2> QED BY <2>1, <2>2
<1>4. ASSUME NEW q \in Req PROVE OwnerOK(q)' /\ BoundOK(q)'
  <2>1. BoundOK(q)'
    BY <1>0, <1>2 DEF LedgerInv, BoundOK
  <2>2. OwnerOK(q)'
    <3>1. CASE q = r
      BY <1>0, <1>1, <1>2, <3>1 DEF OwnerOK, Executing, Streaming, Early
    <3>2. CASE q # r
      <4>1. OwnerOK(q) /\ pc'[q] = pc[q] /\ lease'[q] = lease[q]
        BY <1>0, <1>2, <3>2 DEF LedgerInv
      <4>2. pc[q] \in Early => T(q) # t
        BY <1>1, <3>2, <4>1 DEF OwnerOK, Early, Executing, Streaming
      <4> QED BY <1>0, <1>2, <4>1, <4>2 DEF OwnerOK
    <3> QED BY <3>1, <3>2
  <2> QED BY <2>1, <2>2
<1>5. ASSUME NEW q \in Proc, pc'[q] \in Closer PROVE CloserOK(q)'
  <2>1. q # r /\ pc'[q] = pc[q] /\ CloserOK(q) /\ close[q].mid \in Req \cup {None}
    BY <1>2, <1>5, Typed DEF LedgerInv, Closer
  <2> QED BY <1>0, <1>2, <2>1 DEF CloserOK
<1>6. AtMostOneExecution'
  BY <1>1, <1>2 DEF LedgerInv, AtMostOneExecution
<1> QED BY <1>3, <1>4, <1>5, <1>6 DEF LedgerInv

\* A sweep that fences or passes over a candidate keeps it.
LEMMA SweepNextInv ==
  ASSUME TypeInv, LedgerInv, NEW p \in Proc, SweepNext(p)
  PROVE  LedgerInv'
<1>1. PICK c \in todo[p], d \in 0..Delay :
        \/ Fence(p, c, d, "sweep")
        \/ UNCHANGED <<database, pc, close>>
  BY DEF SweepNext
<1>2. c \in Candidate
  BY DEF TypeInv, ControlType
<1>3. CASE Fence(p, c, d, "sweep")
  BY <1>2, <1>3, FenceInv DEF SweepNext, history
<1>4. CASE UNCHANGED <<database, pc, close>>
  BY <1>4, QuietInv DEF SweepNext, history, database, SameRuns, SameRows
<1> QED BY <1>1, <1>3, <1>4

\* The end of a sweep keeps it.
LEMMA SweepDoneInv ==
  ASSUME TypeInv, LedgerInv, NEW p \in Proc, SweepDone(p)
  PROVE  LedgerInv'
<1>1. SameRuns /\ SameRows /\ UNCHANGED <<req, owner, wrote, calls>>
  BY DEF SweepDone, SameRuns, SameRows, database, history
<1>2. pc'[p] \in {"idle", "claim"} /\ Alone(p)
  BY DEF SweepDone, Alone, memory, TypeInv, ControlType
<1>3. p \in Req => OwnerOK(p)'
  BY <1>2 DEF OwnerOK, Executing, Early, Streaming
<1> QED BY <1>1, <1>2, <1>3, MoveInv DEF Sound, Closer

\* finish_claimed_turn only reads before its terminal transaction.
LEMMA LoadInv ==
  ASSUME TypeInv, LedgerInv, NEW p \in Proc, LoadRun(p) \/ LoadAssistant(p)
  PROVE  LedgerInv'
<1>0. PICK t \in Turn, m \in Req \cup {None} : t = close[p].turn /\ m = close[p].mid
  BY Typed
<1>1. /\ SameRuns /\ SameRows
      /\ UNCHANGED <<run, msg, req, owner, wrote, calls, lease>>
  BY DEF LoadRun, LoadAssistant, SameRuns, SameRows, database, history
<1>2. /\ pc \in [Proc -> PC] /\ close \in [Proc -> Closing] /\ t \in Turn
      /\ close[p].back \in {"sweep", "settle", "done"} /\ close[p].token \in Nat
      /\ run[t].token \in Nat /\ run[t].msg \in Req \cup {None}
      /\ CloserOK(p) /\ RunOK(t) /\ TaleOK(t)
  BY <1>0, Typed DEF TypeInv, ControlType, Closing, LedgerInv, LoadRun, LoadAssistant, Closer
<1>3. Alone(p)
  BY <1>1, <1>2 DEF LoadRun, LoadAssistant, Return, Alone, TypeInv, ControlType
<1>4. pc'[p] \notin Executing \cup Early
  BY <1>2 DEF LoadRun, LoadAssistant, Return, Executing, Early, Streaming
<1>5. p \in Req => OwnerOK(p)'
  BY <1>4 DEF OwnerOK, Executing
<1>6. ASSUME pc'[p] \in Closer PROVE CloserOK(p)'
  <2>1. CASE LoadRun(p)
    <3>1. /\ run[t].state = "running" /\ run[t].token = close[p].token
          /\ close'[p] = [close[p] EXCEPT !.mid = run[t].msg]
          /\ pc'[p] = (IF run[t].msg = None THEN "close" ELSE "loadMessage")
          /\ pc[p] = "load"
      BY <1>0, <1>2, <1>6, <2>1 DEF LoadRun, Return, Closer
    <3>2. /\ close'[p].mid = run[t].msg /\ close'[p].turn = t
          /\ close'[p].token = close[p].token /\ close'[p].seen = close[p].seen
      BY <1>0, <1>2, <3>1 DEF Closing
    <3>3. T(run[t].msg)' = T(run[t].msg)
      BY <1>1 DEF T
    <3>4. close[p].seen.status = "absent"
      BY <1>2, <3>1 DEF CloserOK
    <3>5. (IF run[t].msg = None THEN "close" ELSE "loadMessage") = "close"
            => run[t].msg = None
      OBVIOUS
    <3>6. \/ close'[p].token >= 2
          \/ close'[p].token = 1 /\ p \in Req /\ owner'[t] = p
      BY <1>0, <1>1, <1>2, <3>2 DEF CloserOK
    <3>7. run[t].msg # None => T(run[t].msg) = t /\ wrote[t] = 1
      BY <1>2 DEF TaleOK, RunOK
    <3>8. close[p].token <= run[t].token
      BY <1>0, <1>2 DEF CloserOK
    <3> QED BY <1>1, <3>1, <3>2, <3>3, <3>4, <3>5, <3>6, <3>7, <3>8 DEF CloserOK, Terminal
  <2>2. CASE LoadAssistant(p)
    <3>1. /\ pc[p] = "loadMessage" /\ pc'[p] = "close" /\ m \in Req /\ m # None
          /\ close'[p] = [close[p] EXCEPT !.seen = msg[m]]
      BY <1>0, <1>2, <2>2, Typed DEF LoadAssistant, TypeInv, ControlType, RowToLoad
    <3>2. /\ close'[p].mid = m /\ close'[p].turn = t
          /\ close'[p].token = close[p].token /\ close'[p].seen = msg[m]
      BY <1>0, <1>2, <3>1 DEF Closing
    <3>3. T(m)' = T(m) /\ T(m) = t /\ wrote[t] = 1 /\ run[t].msg \in {m, None}
      <4>1. T(m) = t /\ wrote[t] = 1 /\ run[t].msg \in {m, None}
        BY <1>0, <1>2, <3>1, Typed DEF CloserOK
      <4>2. T(m)' = T(m)
        BY <1>1 DEF T
      <4> QED BY <4>1, <4>2
    <3>4. msg[m].status # "absent" => run[t].msg = m
      BY <3>1, <3>3 DEF LedgerInv, BoundOK
    <3>5. msg[m].status \in Terminal => run[t].state \in Terminal
      <4>1. ASSUME msg[m].status \in Terminal PROVE run[t].state \in Terminal
        <5>1. run[t].msg = m /\ m # None
          BY <3>1, <3>4, <4>1, Typed DEF Terminal
        <5>2. msg[m].status = (IF run[t].state = "running" THEN "streaming" ELSE run[t].state)
          BY <1>2, <5>1 DEF TaleOK
        <5> QED BY <4>1, <5>2 DEF Terminal
      <4> QED BY <4>1
    <3>6. msg[m].status = "absent" => run[t].msg = None
      <4>1. ASSUME run[t].msg = m PROVE msg[m].status # "absent"
        <5>1. m # None
          BY <3>1, Typed
        <5>2. msg[m].status = (IF run[t].state = "running" THEN "streaming" ELSE run[t].state)
          BY <1>2, <4>1, <5>1 DEF TaleOK
        <5>3. run[t].state \in {"none", "running"} \cup Terminal /\ run[t].state # "none"
          BY <1>2, <4>1, <5>1, Typed DEF RunOK
        <5> QED BY <5>2, <5>3 DEF Terminal
      <4> QED BY <3>3, <4>1
    <3>7. /\ close[p].token <= run[t].token
          /\ \/ close'[p].token >= 2
             \/ close'[p].token = 1 /\ p \in Req /\ owner'[t] = p
      BY <1>0, <1>1, <1>2, <3>2 DEF CloserOK
    <3> QED BY <1>1, <3>1, <3>2, <3>3, <3>5, <3>6, <3>7 DEF CloserOK
  <2> QED BY <2>1, <2>2
<1> QED BY <1>1, <1>3, <1>5, <1>6, MoveInv DEF Sound

\* The terminal transaction of finish_claimed_turn keeps it.
LEMMA CloseTurnInv ==
  ASSUME TypeInv, LedgerInv, NEW p \in Proc, CloseTurn(p)
  PROVE  LedgerInv'
<1> DEFINE t == close[p].turn
           m == close[p].mid
           seen == close[p].seen
           as == IF Live(p) \/ seen.status = "absent" THEN close[p].as ELSE seen.status
<1>1. CASE Raise(p) /\ UNCHANGED database
  BY <1>1, EscapeInv DEF CloseTurn, database
<1>2. CASE /\ \E d \in 0..Delay : CanClose(p, d)
           /\ run' = [run EXCEPT ![t].state = as, ![t].left = Lapsed]
           /\ msg' = IF Live(p)
                     THEN [msg EXCEPT ![m] = Closed(p, as)]
                     ELSE msg
           /\ Return(p) /\ UNCHANGED lease
  <2>1. /\ pc \in [Proc -> PC] /\ close \in [Proc -> Closing] /\ t \in Turn
        /\ close[p].back \in {"sweep", "settle", "done"} /\ close[p].as \in Terminal
        /\ seen \in Message /\ m \in Req \cup {None}
        /\ CloserOK(p) /\ RunOK(t) /\ TaleOK(t) /\ pc[p] = "close"
    BY Typed DEF TypeInv, ControlType, Closing, LedgerInv, CloseTurn, Closer
  <2>2. run[t].state = "running" /\ run[t].token = close[p].token /\ Unmoved(p)
    BY <1>2 DEF CanClose, Owns
  <2>3. as \in Terminal
    BY <2>1 DEF Message, Live
  <2>4. Alone(p) /\ pc'[p] \in {"sweep", "settle", "done"}
    BY <1>2, <2>1 DEF Return, Alone, TypeInv, ControlType
  <2>5. p \in Req => OwnerOK(p)'
    BY <2>4 DEF OwnerOK, Executing, Early, Streaming
  <2>7. Sound(p)
    BY <2>4, <2>5 DEF Sound, Closer
  <2>8. CASE ~Live(p)
    <3>1. seen.status # "streaming" /\ run[t].msg = None
      BY <2>1, <2>2, <2>8 DEF CloserOK, Live, Message, Terminal
    <3>2. \A q \in Req : T(q) = t => msg[q].status = "absent"
      BY <3>1, Typed DEF LedgerInv, BoundOK
    <3> QED BY <1>2, <2>1, <2>2, <2>3, <2>4, <2>7, <2>8, <3>2, SettleInv DEF CloseTurn, history
  <2>9. CASE Live(p)
    <3>1. seen.status = "streaming" /\ msg[m].status = "streaming"
      BY <2>2, <2>9 DEF Live, Unmoved
    <3>2. m \in Req /\ T(m) = t
      <4>1. m # None
        BY <2>1, <2>9 DEF CloserOK, Live
      <4> QED BY <2>1, <4>1 DEF CloserOK
    <3>3. \A q \in Req : q # m /\ T(q) = t => msg[q].status = "absent"
      BY <3>1, <3>2 DEF LedgerInv, BoundOK
    <3>4. msg'[m].status = as /\ msg'[m].conv = msg[m].conv /\ \A q \in Req \ {m} : msg'[q] = msg[q]
      BY <1>2, <2>9, <3>2 DEF TypeInv, DataType, Message, Closed
    <3>5. \A q \in Req :
           /\ msg'[q].conv = msg[q].conv
           /\ msg'[q].status = (IF msg[q].status = "streaming" /\ T(q) = t
                                THEN as ELSE msg[q].status)
      BY <3>1, <3>2, <3>3, <3>4
    <3> QED BY <1>2, <2>1, <2>2, <2>3, <2>4, <2>7, <3>5, SettleInv DEF CloseTurn, history
  <2> QED BY <2>8, <2>9
<1> QED BY <1>1, <1>2 DEF CloseTurn

\* Writing and binding the transcript pair (_prepare_conversation) keeps it.
LEMMA PrepareInv ==
  ASSUME TypeInv, LedgerInv, NEW r \in Req, NEW cut \in BOOLEAN, Prepare(r, cut)
  PROVE  LedgerInv'
<1>0. PICK t \in Turn : t = T(r)
  BY Typed
<1>1. CASE Raise(r) /\ UNCHANGED <<run, msg, wrote>>
  BY <1>1, EscapeInv, Typed DEF Prepare, history
<1>2. ASSUME NEW c \in Conv \cup {None}, NEW d \in 0..Delay, Owns(t, lease[r], d),
             run[t].requested \in {None, c}, run[t].conv \in {None, c}, run[t].msg = None,
             msg' = [msg EXCEPT ![r] = [conv |-> c, status |-> "streaming",
                                        version |-> 1, text |-> 0, tools |-> 0]],
             run' = [run EXCEPT ![t].conv = c, ![t].msg = r],
             wrote' = [wrote EXCEPT ![t] = @ + 1],
             \/ pc' = [pc EXCEPT ![r] = "open"] /\ UNCHANGED <<close, lease>>
             \/ Cancelled(r)
      PROVE  LedgerInv'
  <2>1. /\ pc[r] = "prepare" /\ r \in Proc /\ r # None /\ OwnerOK(r) /\ RunOK(t)
        /\ run[t].state = "running" /\ run[t].token = lease[r]
        /\ \A q \in Req : T(q)' = T(q) /\ T(q) \in Turn
        /\ pc \in [Proc -> PC] /\ close \in [Proc -> Closing]
    BY <1>0, <1>2, Typed DEF Prepare, Owns, LedgerInv, T, TypeInv, ControlType
  <2>2. owner[t] = r /\ lease[r] = 1 /\ wrote[t] = 0 /\ calls[t] = 0
    BY <1>0, <2>1 DEF OwnerOK, Executing, Early
  <2>3. /\ run'[t].state = "running" /\ run'[t].token = 1 /\ run'[t].msg = r
        /\ run'[t].conv = c /\ run'[t].requested = run[t].requested
        /\ \A u \in Turn \ {t} : run'[u] = run[u] /\ wrote'[u] = wrote[u]
        /\ wrote'[t] = 1
        /\ msg'[r].status = "streaming" /\ msg'[r].conv = c
        /\ \A q \in Req \ {r} : msg'[q] = msg[q]
        /\ UNCHANGED <<owner, calls, lease>>
    <3>1. run'[t] = [run[t] EXCEPT !.conv = c, !.msg = r] /\ run[t] \in Run
      BY <1>2 DEF TypeInv, DataType
    <3>2. /\ run'[t].state = run[t].state /\ run'[t].token = run[t].token
          /\ run'[t].msg = r /\ run'[t].conv = c /\ run'[t].requested = run[t].requested
      BY <3>1 DEF Run
    <3>3. /\ \A u \in Turn \ {t} : run'[u] = run[u] /\ wrote'[u] = wrote[u]
          /\ wrote'[t] = wrote[t] + 1
      BY <1>2 DEF TypeInv, DataType, RestType
    <3>4. /\ msg'[r].status = "streaming" /\ msg'[r].conv = c
          /\ \A q \in Req \ {r} : msg'[q] = msg[q]
      BY <1>2 DEF TypeInv, DataType
    <3>5. UNCHANGED <<owner, calls, lease>>
      BY <1>2 DEF Prepare, Cancelled
    <3> QED BY <2>1, <2>2, <3>2, <3>3, <3>4, <3>5
  <2>4. /\ \A q \in Proc \ {r} : pc'[q] = pc[q] /\ close'[q] = close[q]
        /\ \/ pc'[r] = "open"
           \/ pc'[r] = "load" /\ close'[r] = Capability(t, 1, "aborted", "done")
    <3>1. CASE pc' = [pc EXCEPT ![r] = "open"] /\ UNCHANGED <<close, lease>>
      BY <2>1, <3>1
    <3>2. CASE Cancelled(r)
      BY <1>0, <2>1, <2>2, <3>2 DEF Cancelled, Claiming, Closer, Streaming
    <3> QED BY <1>2, <3>1, <3>2
  <2>5. \A q \in Req : T(q) = t => msg[q].status = "absent"
    BY <1>2, Typed DEF LedgerInv, BoundOK
  <2>6. ASSUME NEW u \in Turn PROVE RunOK(u)' /\ TaleOK(u)'
    <3>1. CASE u = t
      <4>1. RunOK(u)'
        BY <1>2, <2>1, <2>2, <2>3, <3>1 DEF RunOK
      <4>2. TaleOK(u)'
        BY <1>0, <2>1, <2>3, <3>1 DEF TaleOK
      <4> QED BY <4>1, <4>2
    <3>2. CASE u # t
      <4>1. /\ RunOK(u) /\ TaleOK(u) /\ run'[u] = run[u] /\ wrote'[u] = wrote[u]
            /\ run[u].msg \in Req \cup {None}
        BY <2>3, <3>2, Typed DEF LedgerInv
      <4>2. RunOK(u)'
        BY <2>3, <4>1 DEF RunOK
      <4>3. TaleOK(u)'
        BY <1>0, <2>1, <2>3, <3>2, <4>1 DEF TaleOK
      <4> QED BY <4>2, <4>3
    <3> QED BY <3>1, <3>2
  <2>7. ASSUME NEW q \in Req PROVE OwnerOK(q)' /\ BoundOK(q)'
    <3>0. OwnerOK(q) /\ BoundOK(q) /\ q \in Proc
      BY Typed DEF LedgerInv
    <3>2. BoundOK(q)'
      <4>1. CASE q = r
        BY <1>0, <2>1, <2>3, <4>1 DEF BoundOK
      <4>2. CASE q # r
        BY <2>1, <2>3, <2>5, <3>0, <4>2 DEF BoundOK
      <4> QED BY <4>1, <4>2
    <3>3. OwnerOK(q)'
      <4>1. CASE q = r
        BY <1>0, <2>1, <2>2, <2>3, <2>4, <4>1 DEF OwnerOK, Executing, Early, Streaming
      <4>2. CASE q # r
        <5>1. pc'[q] = pc[q] /\ (pc[q] \in Executing => T(q) # t)
          BY <2>2, <2>4, <3>0, <4>2 DEF OwnerOK
        <5> QED BY <2>1, <2>3, <3>0, <5>1 DEF OwnerOK, Executing
      <4> QED BY <4>1, <4>2
    <3> QED BY <3>2, <3>3
  <2>8. ASSUME NEW q \in Proc, pc'[q] \in Closer PROVE CloserOK(q)'
    <3>1. CASE q = r
      <4>1. /\ pc'[r] = "load" /\ close'[r].turn = t /\ close'[r].token = 1
            /\ close'[r].mid = None /\ close'[r].seen.status = "absent"
        BY <2>4, <2>8, <3>1 DEF Closer, Capability, NoMsg
      <4> QED BY <2>2, <2>3, <3>1, <4>1 DEF CloserOK, Terminal
    <3>2. CASE q # r
      <4>1. /\ pc'[q] = pc[q] /\ close'[q] = close[q] /\ CloserOK(q)
            /\ close[q].turn \in Turn /\ close[q].token \in Nat /\ close[q].mid \in Req \cup {None}
        BY <2>4, <2>8, <3>2, Typed DEF LedgerInv
      <4>2. T(close[q].mid)' = T(close[q].mid)
        BY <4>1 DEF T, Prepare
      <4>3. CASE close[q].turn = t
        BY <2>1, <2>2, <2>3, <3>2, <4>1, <4>2, <4>3 DEF CloserOK
      <4>4. CASE close[q].turn # t
        BY <2>3, <4>1, <4>2, <4>4 DEF CloserOK
      <4> QED BY <4>3, <4>4
    <3> QED BY <3>1, <3>2
  <2>9. AtMostOneExecution'
    BY <2>3 DEF LedgerInv, AtMostOneExecution
  <2> QED BY <2>6, <2>7, <2>8, <2>9 DEF LedgerInv
<1>3. req[r].conv \in Conv \cup {None} /\ convs \subseteq Conv
  BY DEF TypeInv, DataType, RestType, Request
<1> QED BY <1>0, <1>1, <1>2, <1>3 DEF Prepare

\* Deleting a conversation keeps it: the receipts stay, the rows go.
LEMMA DeleteInv ==
  ASSUME TypeInv, LedgerInv, NEW c \in Conv, DeleteConversation(c)
  PROVE  LedgerInv'
<1>1. /\ c # None /\ UNCHANGED <<pc, close, lease, req, owner, wrote, calls>>
      /\ \A q \in Req : T(q)' = T(q) /\ T(q) \in Turn
  BY LedgerAssumption, Typed DEF DeleteConversation, memory, history, T
<1>2. \A u \in Turn :
        /\ run'[u].state = run[u].state /\ run'[u].token = run[u].token
        /\ c \in {run[u].requested, run[u].conv} =>
             run'[u].requested = None /\ run'[u].conv = None /\ run'[u].msg = None
        /\ c \notin {run[u].requested, run[u].conv} => run'[u] = run[u]
  BY DEF DeleteConversation, TypeInv, DataType, Run
<1>3. \A q \in Req : msg'[q] = IF msg[q].conv = c THEN NoMsg ELSE msg[q]
  BY DEF DeleteConversation
<1>4. NoMsg.status = "absent"
  BY DEF NoMsg
<1>5. ASSUME NEW u \in Turn PROVE RunOK(u)'
  <2>1. RunOK(u)
    BY DEF LedgerInv
  <2> QED BY <1>1, <1>2, <2>1 DEF RunOK
<1>6. ASSUME NEW u \in Turn PROVE TaleOK(u)'
  <2>1. CASE c \in {run[u].requested, run[u].conv}
    BY <1>2, <2>1 DEF TaleOK
  <2>2. CASE c \notin {run[u].requested, run[u].conv}
    <3>1. /\ run'[u] = run[u] /\ run[u].msg \in Req \cup {None} /\ TaleOK(u)
          /\ run[u].state \in {"none", "running"} \cup Terminal
          /\ run[u].state = "none" => run[u].msg = None
      BY <1>2, <2>2, Typed DEF LedgerInv, RunOK
    <3>2. ASSUME run[u].msg # None PROVE msg'[run[u].msg] = msg[run[u].msg]
      <4>1. run[u].msg \in Req /\ T(run[u].msg) = u /\ msg[run[u].msg].status # "absent"
        BY <3>1, <3>2 DEF TaleOK, Terminal
      <4>2. msg[run[u].msg].conv = run[u].conv
        BY <4>1 DEF LedgerInv, BoundOK
      <4> QED BY <1>3, <2>2, <4>1, <4>2
    <3> QED BY <1>1, <3>1, <3>2 DEF TaleOK
  <2> QED BY <2>1, <2>2
<1>7. ASSUME NEW q \in Req PROVE BoundOK(q)'
  <2>1. BoundOK(q) /\ RunOK(T(q))
    BY <1>1 DEF LedgerInv
  <2>2. ASSUME msg[q].status # "absent", msg[q].conv # c
        PROVE  c \notin {run[T(q)].requested, run[T(q)].conv}
    BY <1>1, <2>1, <2>2 DEF BoundOK, RunOK
  <2> QED BY <1>1, <1>2, <1>3, <1>4, <2>1, <2>2 DEF BoundOK
<1>8. \A q \in Req : OwnerOK(q)'
  BY <1>1, <1>2 DEF LedgerInv, OwnerOK
<1>9. ASSUME NEW q \in Proc, pc'[q] \in Closer PROVE CloserOK(q)'
  <2>1. CloserOK(q) /\ close[q].turn \in Turn /\ T(close[q].mid)' = T(close[q].mid)
    BY <1>1, <1>9, Typed DEF LedgerInv, T
  <2>2. run'[close[q].turn].msg \in {run[close[q].turn].msg, None}
    BY <1>2, <2>1
  <2> QED BY <1>1, <1>2, <2>1, <2>2 DEF CloserOK
<1>10. AtMostOneExecution'
  BY <1>1 DEF LedgerInv, AtMostOneExecution
<1> QED BY <1>5, <1>6, <1>7, <1>8, <1>9, <1>10 DEF LedgerInv

\* The death of the API process keeps it.
LEMMA CrashInv ==
  ASSUME TypeInv, LedgerInv, Crash
  PROVE  LedgerInv'
<1>1. UNCHANGED <<run, msg, req, owner, wrote, calls>>
  BY DEF Crash, database, history
<1>2. \A p \in Proc : pc'[p] \in {"idle", "done"}
  BY DEF Crash
<1>3. \A t \in Turn : RunOK(t)' /\ TaleOK(t)'
  BY <1>1 DEF LedgerInv, RunOK, TaleOK, T
<1>4. \A r \in Req : BoundOK(r)'
  BY <1>1 DEF LedgerInv, BoundOK, T
<1>5. \A r \in Req : OwnerOK(r)'
  BY <1>2, Typed DEF OwnerOK, Executing, Early, Streaming
<1>6. AtMostOneExecution'
  BY <1>1 DEF LedgerInv, AtMostOneExecution
<1> QED BY <1>2, <1>3, <1>4, <1>5, <1>6 DEF LedgerInv, Closer

\* Startup recovery and requests for other turns keep it.
LEMMA SweeperCalledInv ==
  ASSUME TypeInv, LedgerInv, Visit \/ Restart
  PROVE  LedgerInv'
<1>1. /\ SameRuns /\ SameRows /\ Sweeper \in Proc /\ Sweeper \notin Req
      /\ UNCHANGED <<close, lease, req, owner, wrote, calls>>
  BY LedgerAssumption DEF Visit, Restart, SameRuns, SameRows, database, history, Proc
<1>2. pc'[Sweeper] = "sweep" /\ Alone(Sweeper)
  BY <1>1 DEF Visit, Restart, Alone, TypeInv, ControlType
<1> QED BY <1>1, <1>2, MoveInv DEF Sound, Closer

\* Steps inside an executor or of the clock that move nobody.
LEMMA TickInv ==
  ASSUME TypeInv, LedgerInv,
         \/ Tick
         \/ \E r \in Req : StreamText(r) \/ Heartbeat(r) \/ TakeSnapshot(r)
                           \/ SaveSnapshot(r) \/ MaintenanceError(r)
  PROVE  LedgerInv'
<1>1. UNCHANGED <<pc, close, lease, req, owner, wrote, calls>>
  BY DEF Tick, StreamText, Heartbeat, TakeSnapshot, SaveSnapshot, MaintenanceError, memory, history
<1>2. SameRuns
  <2>1. CASE Tick
    <3>1. \A t \in Turn : run[t] \in Run
      BY DEF TypeInv, DataType
    <3>2. \A t \in Turn :
            run'[t] = [run[t] EXCEPT !.left = IF @ > Lapsed THEN @ - 1 ELSE @]
      BY <2>1 DEF Tick
    <3> QED BY <3>1, <3>2 DEF SameRuns, Run
  <2>2. ASSUME NEW r \in Req, Heartbeat(r) PROVE SameRuns
    BY <2>2 DEF Heartbeat, SameRuns, TypeInv, DataType, Run
  <2>3. ASSUME NEW r \in Req, StreamText(r) \/ TakeSnapshot(r) \/ SaveSnapshot(r)
                              \/ MaintenanceError(r)
        PROVE  run' = run
    BY <2>3 DEF StreamText, TakeSnapshot, SaveSnapshot, MaintenanceError, database
  <2> QED BY <2>1, <2>2, <2>3 DEF SameRuns
<1>3. SameRows
  <2>1. CASE Tick
    BY <2>1 DEF Tick, SameRows
  <2>2. ASSUME NEW r \in Req, SaveSnapshot(r) PROVE SameRows
    <3>1. msg[r] \in Message /\ msg \in [Req -> Message]
      BY DEF TypeInv, DataType
    <3>2. ASSUME NEW x, NEW y, Save(r, x, y) PROVE SameRows
      BY <3>1, <3>2 DEF Save, SameRows, Message
    <3>3. ASSUME msg' = msg PROVE SameRows
      BY <3>3 DEF SameRows
    <3> QED BY <2>2, <3>2, <3>3 DEF SaveSnapshot
  <2>3. ASSUME NEW r \in Req, StreamText(r) \/ TakeSnapshot(r) \/ Heartbeat(r)
                              \/ MaintenanceError(r)
        PROVE  msg' = msg
    BY <2>3 DEF StreamText, TakeSnapshot, Heartbeat, MaintenanceError, database
  <2> QED BY <2>1, <2>2, <2>3 DEF SameRows
<1> QED BY <1>1, <1>2, <1>3, QuietInv

\* Every step of the ledger keeps the invariant.
LEMMA LedgerStep == TypeInv /\ LedgerInv /\ [Next]_vars => LedgerInv'
<1> SUFFICES ASSUME TypeInv, LedgerInv, [Next]_vars PROVE LedgerInv'
  OBVIOUS
<1>1. ASSUME NEW r \in Req, Arrive(r) \/ Claim(r) PROVE LedgerInv'
  BY <1>1, ReadersInv, ClaimInsertInv, ClaimFenceInv, ProtocolErrorInv DEF Claim
<1>2. ASSUME NEW r \in Req, NEW cut \in BOOLEAN,
             OpenJournal(r, cut) \/ BindProvider(r, cut) \/ SaveToolResult(r, cut)
      PROVE  LedgerInv'
  BY <1>2, CheckpointInv DEF OpenJournal, BindProvider, SaveToolResult, Streaming, Early
<1>3. ASSUME NEW r \in Req, Execute(r) PROVE LedgerInv'
  BY <1>2, <1>3, PrepareInv, CallProviderInv, ReadersInv, FinishTurnInv DEF Execute
<1>4. ASSUME NEW r \in Req, Generate(r) \/ ProviderError(r) PROVE LedgerInv'
  <2>1. CASE NoticeLostLease(r) \/ ProviderError(r)
    BY <2>1, EscapeInv, Typed DEF NoticeLostLease, ProviderError, database
  <2> QED BY <1>4, <2>1, TickInv, ReadersInv DEF Generate
<1>5. ASSUME NEW r \in Req, CutShort(r) PROVE LedgerInv'
  <2>1. CASE Disconnect(r)
    BY <2>1, EscapeInv, Typed DEF Disconnect, database
  <2> QED BY <1>2, <1>5, <2>1, ClaimInsertInv, PrepareInv, FinishTurnInv DEF CutShort
<1>6. ASSUME NEW p \in Proc, Sweep(p) \/ StorageError(p) PROVE LedgerInv'
  <2>1. CASE StorageError(p)
    BY <2>1, EscapeInv DEF StorageError, database
  <2> QED BY <1>6, <2>1, SweepNextInv, SweepDoneInv, LoadInv, CloseTurnInv DEF Sweep
<1>7. ASSUME UNCHANGED vars PROVE LedgerInv'
  BY <1>7, QuietInv DEF vars, database, memory, history, SameRuns, SameRows
<1> QED BY <1>1, <1>3, <1>4, <1>5, <1>6, <1>7, TickInv, DeleteInv, CrashInv, SweeperCalledInv
        DEF Next, Maintain

\* The invariant holds of an empty ledger.
LEMMA InitLedger == Init => LedgerInv
<1> SUFFICES ASSUME Init PROVE LedgerInv
  OBVIOUS
<1>1. \A t \in Turn : RunOK(t) /\ TaleOK(t)
  BY DEF Init, RunOK, TaleOK, NoRun
<1>2. \A r \in Req : OwnerOK(r) /\ BoundOK(r)
  BY DEF Init, OwnerOK, BoundOK, NoMsg, Proc, Executing, Early, Streaming, Terminal
<1>3. \A p \in Proc : pc[p] \notin Closer
  BY DEF Init, Closer
<1>4. AtMostOneExecution
  BY DEF Init, AtMostOneExecution
<1> QED BY <1>1, <1>2, <1>3, <1>4 DEF LedgerInv

-----------------------------------------------------------------------------
(* What clients are told: a second inductive invariant, over the first.    *)

Working == {"prepare"} \cup Streaming
Over    == {"closing", "done"}

\* A request on its way to report the closing of a turn that it found expired.
Settling(r) == \/ pc[r] \in {"fence", "settle"}
               \/ pc[r] \in Closer /\ close[r].back = "settle"

\* A turn with a bad body does nothing but fail.
TurnWord(t) ==
  /\ run[t].state = "none" => run[t].payload = None
  /\ run[t].payload \in InvalidPayload =>
       run[t].state # "complete" /\ calls[t] = 0 /\ wrote[t] = 0

\* A request works on the body it sent, and executes a valid one.
OrderWord(r) ==
  /\ owner[T(r)] = r \/ Settling(r) => run[T(r)].payload = req[r].payload
  /\ pc[r] \in Working => req[r].payload \notin InvalidPayload

ToldWord(r) ==
  /\ told[r] \in Terminal =>
       /\ run[T(r)].state \in Terminal /\ run[T(r)].payload = req[r].payload
       /\ req[r].payload \notin InvalidPayload => run[T(r)].state = told[r]
  /\ told[r] = "failed" => pc[r] \in Over
  /\ owner[T(r)] = r /\ run[T(r)].state = "complete" =>
       pc[r] \in Over \cup {"abort"} /\ told[r] # "failed"

WordInv ==
  /\ \A t \in Turn : TurnWord(t)
  /\ \A r \in Req : OrderWord(r) /\ ToldWord(r)
  /\ \A p \in Proc : pc[p] \in Closer => close[p].as # "complete"

\* A step of p settles running turns only, completes none but its own, and
\* starts nothing for a bad body.
Progress(p) == \A t \in Turn :
  /\ run'[t].payload = run[t].payload
  /\ \/ run'[t].state = run[t].state
     \/ run[t].state = "running" /\ run'[t].state \in {"error", "aborted"}
     \/ /\ run[t].state = "running" /\ run'[t].state = "complete"
        /\ owner[t] = p /\ run[t].payload \notin InvalidPayload
  /\ run[t].payload \in InvalidPayload => calls'[t] = calls[t] /\ wrote'[t] = wrote[t]

Apart(p) ==
  /\ \A q \in Proc \ {p} : pc'[q] = pc[q] /\ close'[q] = close[q]
  /\ \A r \in Req \ {p} : told'[r] = told[r]
  /\ pc'[p] \in Closer => close'[p].as # "complete"

\* r starts no work it was not at, and reports its turn as the step leaves it.
Ordered(r) ==
  /\ pc'[r] \in Working => pc[r] \in Working
  /\ Settling(r)' => Settling(r) \/ run[T(r)].payload = req[r].payload

Honest(r) ==
  /\ \/ /\ told'[r] = told[r]
        /\ pc[r] \in Over => pc'[r] \in Over
        /\ pc[r] = "abort" => pc'[r] \in Over \cup {"abort"}
     \/ /\ pc[r] \notin Over \cup {"abort"}
        /\ \/ told'[r] = "failed" /\ pc'[r] \in Over
           \/ told'[r] \in {"conflict", "in_progress"}
           \/ /\ told'[r] \in Terminal /\ run'[T(r)].state \in Terminal
              /\ run[T(r)].payload = req[r].payload
              /\ req[r].payload \notin InvalidPayload => run'[T(r)].state = told'[r]
  /\ run'[T(r)].state = "complete" /\ run[T(r)].state # "complete" /\ owner[T(r)] = r =>
       pc'[r] \in Over \cup {"abort"} /\ told'[r] # "failed"

\* A step of one process with these four qualities keeps the invariant.
LEMMA WordMove ==
  ASSUME TypeInv, WordInv, NEW p \in Proc, Progress(p), Apart(p),
         p \in Req => Ordered(p) /\ Honest(p), UNCHANGED <<req, owner>>
  PROVE  WordInv'
<1>1. ASSUME NEW t \in Turn PROVE TurnWord(t)'
  <2>1. TurnWord(t)
    BY DEF WordInv
  <2> QED BY <2>1 DEF TurnWord, Progress
<1>2. ASSUME NEW r \in Req PROVE OrderWord(r)' /\ ToldWord(r)'
  <2>1. /\ OrderWord(r) /\ ToldWord(r) /\ T(r)' = T(r) /\ T(r) \in Turn /\ r \in Proc
        /\ req'[r] = req[r] /\ owner'[T(r)] = owner[T(r)]
        /\ run'[T(r)].payload = run[T(r)].payload
    BY Typed DEF WordInv, T, Progress
  <2>2. CASE r = p
    <3>1. OrderWord(r)'
      BY <2>1, <2>2 DEF OrderWord, Ordered
    <3>2. ToldWord(r)'
      BY <2>1, <2>2 DEF ToldWord, Honest, Progress, Terminal, Over
    <3> QED BY <3>1, <3>2
  <2>3. CASE r # p
    <3>1. pc'[r] = pc[r] /\ close'[r] = close[r] /\ told'[r] = told[r]
      BY <2>1, <2>3 DEF Apart
    <3>2. OrderWord(r)'
      BY <2>1, <3>1 DEF OrderWord, Settling
    <3>3. ToldWord(r)'
      BY <2>1, <2>3, <3>1 DEF ToldWord, Progress, Terminal
    <3> QED BY <3>2, <3>3
  <2> QED BY <2>2, <2>3
<1>3. \A q \in Proc : pc'[q] \in Closer => close'[q].as # "complete"
  BY DEF WordInv, Apart
<1> QED BY <1>1, <1>2, <1>3 DEF WordInv

\* So does a step that moves nobody and settles nothing.
LEMMA QuietWord ==
  ASSUME TypeInv, WordInv,
         \A t \in Turn : run'[t].payload = run[t].payload /\ run'[t].state = run[t].state,
         UNCHANGED <<pc, close, told, req, owner, calls, wrote>>
  PROVE  WordInv'
<1>1. Sweeper \in Proc /\ Sweeper \notin Req
  BY LedgerAssumption DEF Proc
<1>2. Progress(Sweeper)
  BY DEF Progress
<1>3. Apart(Sweeper)
  BY <1>1 DEF Apart, WordInv
<1> QED BY <1>1, <1>2, <1>3, WordMove

\* An exception tells nothing that is not so: the turn is as it was.
LEMMA RaiseWord ==
  ASSUME TypeInv, WordInv, NEW p \in Proc, Raise(p), UNCHANGED <<run, req, owner, calls, wrote>>
  PROVE  WordInv'
<1>1. pc \in [Proc -> PC] /\ close \in [Proc -> Closing] /\ told \in [Req -> Told]
  BY DEF TypeInv, ControlType
<1>2. Progress(p)
  BY DEF Progress
<1>3. Apart(p)
  <2>1. /\ \A q \in Proc \ {p} : pc'[q] = pc[q] /\ close'[q] = close[q]
        /\ \A r \in Req \ {p} : told'[r] = told[r]
    BY <1>1 DEF Raise
  <2>2. pc'[p] \in Closer => close'[p] = Capability(T(p), lease[p], "error", "done")
    BY <1>1 DEF Raise, Closer
  <2> QED BY <2>1, <2>2 DEF Apart, Capability
<1>4. ASSUME p \in Req PROVE Ordered(p)
  <2>1. \/ pc'[p] \in {"sweep", "done", "closing"}
        \/ pc'[p] = "load" /\ close'[p] = Capability(T(p), lease[p], "error", "done")
        \/ pc'[p] = "fail" /\ pc[p] \in Streaming
    BY <1>1 DEF Raise, Streaming
  <2> QED BY <2>1 DEF Ordered, Working, Streaming, Settling, Closer, Capability
<1>5. ASSUME p \in Req PROVE Honest(p)
  <2>1. \/ /\ pc[p] \in Closer \cup {"prepare"} \cup Streaming /\ told' = told
           /\ pc[p] = "abort" => pc'[p] = "closing"
        \/ told'[p] = "failed" /\ pc'[p] \in Over /\ pc[p] \notin Over \cup {"abort"}
    BY <1>1, <1>5 DEF Raise, Over, Closer, Streaming
  <2> QED BY <2>1 DEF Honest, Over, Closer, Streaming
<1> QED BY <1>2, <1>3, <1>4, <1>5, WordMove

\* A request whose client went away says nothing more.
LEMMA CancelledWord ==
  ASSUME TypeInv, NEW r \in Req, Cancelled(r)
  PROVE  /\ Apart(r) /\ Ordered(r) /\ told' = told
         /\ pc[r] \notin Over \cup {"abort"}
         /\ pc[r] \in {"finish", "fail"} => pc'[r] \in Over \cup {"abort"}
<1>1. pc \in [Proc -> PC] /\ close \in [Proc -> Closing] /\ r \in Proc
  BY Typed DEF TypeInv, ControlType
<1>2. told' = told /\ \A q \in Proc \ {r} : pc'[q] = pc[q] /\ close'[q] = close[q]
  BY <1>1 DEF Cancelled
<1>3. \/ pc'[r] \in Over
      \/ pc'[r] = "load" /\ close'[r] = Capability(T(r), lease[r], "aborted", "done")
         /\ pc[r] = "prepare"
      \/ pc'[r] = "abort" /\ pc[r] \in Streaming \ {"abort"}
  BY <1>1 DEF Cancelled, Over
<1>4. pc[r] \notin Over \cup {"abort"}
  BY DEF Cancelled, Over, Claiming, Closer, Streaming
<1>5. Apart(r)
  BY <1>2, <1>3 DEF Apart, Capability, Over, Closer
<1>6. Ordered(r)
  BY <1>3 DEF Ordered, Settling, Working, Over, Closer, Streaming, Capability
<1> QED BY <1>2, <1>3, <1>4, <1>5, <1>6 DEF Over

\* A commit whose client went away tells nothing and keeps the invariant.
LEMMA CutWord ==
  ASSUME TypeInv, WordInv, NEW r \in Req, Cancelled(r), Progress(r),
         run'[T(r)].state = "complete" /\ run[T(r)].state # "complete" =>
           pc[r] \in {"finish", "fail"},
         UNCHANGED <<req, owner>>
  PROVE  WordInv'
<1>1. /\ Apart(r) /\ Ordered(r) /\ told' = told /\ pc[r] \notin Over \cup {"abort"}
      /\ pc[r] \in {"finish", "fail"} => pc'[r] \in Over \cup {"abort"}
  BY CancelledWord
<1>2. told[r] # "failed"
  BY <1>1 DEF WordInv, ToldWord
<1>3. Honest(r)
  BY <1>1, <1>2 DEF Honest
<1> QED BY <1>1, <1>3, WordMove, Typed

\* A request that moves on without a word keeps it.
LEMMA MutelyWord ==
  ASSUME TypeInv, WordInv, NEW r \in Req, NEW v,
         pc' = [pc EXCEPT ![r] = v], v \notin Closer \cup {"fence", "settle"},
         v \in Working => pc[r] \in Working,
         pc[r] \notin Over \cup {"abort"} \/ v \in Over,
         Progress(r), run'[T(r)].state = run[T(r)].state,
         \A q \in Proc \ {r} : close'[q] = close[q],
         UNCHANGED <<told, req, owner>>
  PROVE  WordInv'
<1>1. pc'[r] = v /\ r \in Proc /\ \A q \in Proc \ {r} : pc'[q] = pc[q]
  BY Typed DEF TypeInv, ControlType
<1>2. Apart(r)
  BY <1>1 DEF Apart
<1>3. Ordered(r)
  BY <1>1 DEF Ordered, Settling
<1>4. Honest(r)
  BY <1>1 DEF Honest
<1> QED BY <1>1, <1>2, <1>3, <1>4, WordMove

\* What the claim loop does before and after the row is inserted.
LEMMA ClaimAgainWord ==
  ASSUME TypeInv, WordInv, NEW r \in Req, ClaimAgain(r), pc[r] \in {"insert", "fence"},
         UNCHANGED <<run, req, owner, calls, wrote>>
  PROVE  WordInv'
<1>1. /\ pc \in [Proc -> PC] /\ close \in [Proc -> Closing] /\ told \in [Req -> Told]
      /\ r \in Proc
  BY Typed DEF TypeInv, ControlType
<1>2. /\ \A q \in Proc \ {r} : pc'[q] = pc[q] /\ close'[q] = close[q]
      /\ \A q \in Req \ {r} : told'[q] = told[q]
      /\ \/ pc'[r] = "claim" /\ told'[r] = told[r]
         \/ pc'[r] = "done" /\ told'[r] = "failed"
  BY <1>1 DEF ClaimAgain, Answer
<1>3. Progress(r)
  BY DEF Progress
<1>4. Apart(r)
  BY <1>2 DEF Apart, Closer
<1>5. Ordered(r)
  BY <1>2 DEF Ordered, Working, Streaming, Settling, Closer
<1>6. Honest(r)
  BY <1>2 DEF Honest, Over
<1> QED BY <1>1, <1>3, <1>4, <1>5, <1>6, WordMove

\* claim_turn reports a settled turn as the receipt has it, and a bad body as the
\* error it was.
LEMMA ClaimReadWord ==
  ASSUME TypeInv, WordInv, NEW r \in Req, ClaimRead(r) \/ ClaimSettle(r)
  PROVE  WordInv'
<1>1. /\ pc \in [Proc -> PC] /\ close \in [Proc -> Closing] /\ told \in [Req -> Told]
      /\ r \in Proc /\ T(r) \in Turn /\ req[r].payload \in Payload
      /\ run[T(r)].state \in {"none", "running"} \cup Terminal
      /\ OrderWord(r) /\ TurnWord(T(r))
  BY Typed DEF TypeInv, ControlType, RestType, Request, WordInv
<1>2. UNCHANGED <<run, req, owner, calls, wrote>> /\ Progress(r)
  BY DEF ClaimRead, ClaimSettle, database, history, Progress
<1>3. /\ \A q \in Proc \ {r} : pc'[q] = pc[q] /\ close'[q] = close[q]
      /\ \A q \in Req \ {r} : told'[q] = told[q]
  BY <1>1 DEF ClaimRead, ClaimSettle, Answer, memory
<1>4. \/ pc'[r] \in {"insert", "fence"} /\ told'[r] = told[r]
      \/ pc'[r] = "done" /\ told'[r] \in {"conflict", "in_progress"}
      \/ /\ pc'[r] = "done" /\ told'[r] = Replayed(r)
         /\ run[T(r)].state \in Terminal /\ run[T(r)].payload = req[r].payload
  <2>1. CASE ClaimRead(r)
    BY <1>1, <2>1 DEF ClaimRead, Answer
  <2>2. CASE ClaimSettle(r)
    <3>1. run[T(r)].payload = req[r].payload
      BY <1>1, <2>2 DEF ClaimSettle, OrderWord, Settling
    <3>2. run[T(r)].state # "none"
      BY <1>1, <3>1, LedgerAssumption DEF TurnWord
    <3> QED BY <1>1, <2>2, <3>1, <3>2 DEF ClaimSettle, Answer
  <2> QED BY <2>1, <2>2
<1>5. Apart(r)
  BY <1>3, <1>4 DEF Apart, Closer
<1>6. Ordered(r)
  <2>1. pc'[r] = "fence" => run[T(r)].payload = req[r].payload
    BY <1>1 DEF ClaimRead, ClaimSettle, Answer
  <2> QED BY <1>4, <2>1 DEF Ordered, Working, Streaming, Settling, Closer
<1>7. Honest(r)
  <2>1. pc[r] \in {"claim", "settle"}
    BY DEF ClaimRead, ClaimSettle
  <2>2. Replayed(r) \in Terminal \/ run[T(r)].state \notin Terminal
    BY DEF Replayed, Terminal
  <2>3. req[r].payload \notin InvalidPayload => Replayed(r) = run[T(r)].state
    BY DEF Replayed
  <2> QED BY <1>2, <1>4, <2>1, <2>2, <2>3 DEF Honest, Over
<1> QED BY <1>1, <1>2, <1>5, <1>6, <1>7, WordMove

\* A new turn has nobody's word but the body of its claimant.
LEMMA ClaimInsertWord ==
  ASSUME TypeInv, LedgerInv, WordInv, NEW r \in Req, NEW cut \in BOOLEAN, ClaimInsert(r, cut)
  PROVE  WordInv'
<1>0. UNCHANGED <<req, calls, wrote>> /\ pc[r] = "insert" /\ r \in Proc
  BY Typed DEF ClaimInsert
<1>1. CASE ClaimAgain(r) /\ UNCHANGED <<run, lease, owner>>
  BY <1>0, <1>1, ClaimAgainWord
<1>2. CASE Raise(r) /\ UNCHANGED <<run, owner>>
  BY <1>0, <1>2, RaiseWord
<1>3. ASSUME NEW v, v \in {"done", "protocol", "prepare"},
             v = "prepare" => req[r].payload \notin InvalidPayload,
             run[T(r)].state = "none",
             \E d \in 0..Delay : run' = [run EXCEPT ![T(r)] =
               [state |-> "running", payload |-> req[r].payload,
                requested |-> req[r].conv, conv |-> req[r].conv, msg |-> None,
                token |-> 1, left |-> Lease - d]],
             owner' = [owner EXCEPT ![T(r)] = r],
             pc' = [pc EXCEPT ![r] = v], UNCHANGED <<told, close>>
      PROVE  WordInv'
  <2> DEFINE t == T(r)
  <2>1. /\ t \in Turn /\ T(r)' = t /\ RunOK(t)
        /\ \A q \in Req : q \in Proc /\ T(q)' = T(q) /\ T(q) \in Turn
                          /\ req[q].payload \in Payload
    BY <1>0, Typed DEF LedgerInv, T, TypeInv, RestType, Request
  <2>2. /\ run'[t].state = "running" /\ run'[t].payload = req[r].payload
        /\ \A u \in Turn \ {t} : run'[u] = run[u] /\ owner'[u] = owner[u]
        /\ owner'[t] = r /\ pc'[r] = v /\ \A q \in Proc \ {r} : pc'[q] = pc[q]
    BY <1>0, <1>3, <2>1 DEF TypeInv, DataType, ControlType, RestType
  <2>3. \A u \in Turn : TurnWord(u)'
    BY <1>0, <1>3, <2>1, <2>2, LedgerAssumption DEF WordInv, TurnWord, RunOK
  <2>4. ASSUME NEW q \in Req PROVE OrderWord(q)' /\ ToldWord(q)'
    <3>0. OrderWord(q) /\ ToldWord(q) /\ TurnWord(t) /\ req'[q] = req[q]
          /\ told'[q] = told[q] /\ close'[q] = close[q]
      BY <1>0, <1>3, <2>1 DEF WordInv
    <3>1. CASE q = r
      <4>1. told[q] \notin Terminal /\ told[q] # "failed"
        BY <1>0, <1>3, <3>0, <3>1 DEF ToldWord, Terminal, Over
      <4>2. OrderWord(q)'
        BY <1>3, <2>1, <2>2, <3>0, <3>1 DEF OrderWord, Settling, Working, Streaming, Closer
      <4>3. ToldWord(q)'
        BY <2>1, <2>2, <3>0, <3>1, <4>1 DEF ToldWord
      <4> QED BY <4>2, <4>3
    <3>2. CASE q # r /\ T(q) = t
      <4>1. run[t].payload = None /\ req[q].payload # None /\ pc'[q] = pc[q]
        BY <1>3, <2>1, <2>2, <3>0, <3>2, LedgerAssumption DEF TurnWord
      <4>2. told[q] \notin Terminal /\ ~Settling(q)
        BY <3>0, <3>2, <4>1 DEF ToldWord, OrderWord
      <4>3. OrderWord(q)'
        BY <2>1, <2>2, <3>0, <3>2, <4>1, <4>2 DEF OrderWord, Settling
      <4>4. ToldWord(q)'
        BY <2>1, <2>2, <3>0, <3>2, <4>1, <4>2 DEF ToldWord
      <4> QED BY <4>3, <4>4
    <3>3. CASE q # r /\ T(q) # t
      BY <2>1, <2>2, <3>0, <3>3 DEF OrderWord, ToldWord, Settling
    <3> QED BY <3>1, <3>2, <3>3
  <2>5. \A q \in Proc : pc'[q] \in Closer => close'[q].as # "complete"
    BY <1>3, <2>2 DEF WordInv, Closer
  <2> QED BY <2>3, <2>4, <2>5 DEF WordInv
<1>4. CASE /\ run[T(r)].state = "none"
           /\ \E d \in 0..Delay : run' = [run EXCEPT ![T(r)] =
               [state |-> "running", payload |-> req[r].payload,
                requested |-> req[r].conv, conv |-> req[r].conv, msg |-> None,
                token |-> 1, left |-> Lease - d]]
           /\ owner' = [owner EXCEPT ![T(r)] = r]
           /\ pc' = [pc EXCEPT ![r] =
                IF cut THEN "done"
                ELSE IF req[r].payload \in InvalidPayload THEN "protocol" ELSE "prepare"]
           /\ UNCHANGED <<told, close>>
  <2> DEFINE v == IF cut THEN "done"
                  ELSE IF req[r].payload \in InvalidPayload THEN "protocol" ELSE "prepare"
  <2>1. /\ v \in {"done", "protocol", "prepare"}
        /\ v = "prepare" => req[r].payload \notin InvalidPayload
    OBVIOUS
  <2>2. pc' = [pc EXCEPT ![r] = v]
    BY <1>4
  <2> HIDE DEF v
  <2> QED BY <1>3, <1>4, <2>1, <2>2
<1> QED BY <1>1, <1>2, <1>4 DEF ClaimInsert

\* Fencing an expired turn changes neither its state nor its body.
LEMMA FenceWord ==
  ASSUME TypeInv, WordInv, NEW p \in Proc, NEW c \in Candidate, NEW d \in 0..Delay,
         NEW b \in {"sweep", "settle", "done"}, Fence(p, c, d, b),
         pc[p] \in {"fence", "sweep"}, pc[p] = "sweep" => b = "sweep",
         UNCHANGED <<told, req, owner, calls, wrote>>
  PROVE  WordInv'
<1>1. /\ pc \in [Proc -> PC] /\ close \in [Proc -> Closing]
      /\ pc' = [pc EXCEPT ![p] = "load"]
      /\ close' = [close EXCEPT ![p] = Capability(c.turn, c.token + 1, "aborted", b)]
  BY DEF Fence, TypeInv, ControlType
<1>2. Progress(p)
  BY DEF Fence, Progress, TypeInv, DataType, Run
<1>3. Apart(p)
  BY <1>1 DEF Apart, Capability
<1>4. Ordered(p)
  BY <1>1 DEF Ordered, Settling, Working, Streaming, Closer, Capability
<1>5. p \in Req => Honest(p)
  <2>1. pc[p] \notin Over \cup {"abort"}
    BY DEF Over
  <2>2. ASSUME p \in Req PROVE run'[T(p)].state = run[T(p)].state
    BY <2>2, Typed DEF Fence, TypeInv, DataType, Run
  <2> QED BY <1>1, <2>1, <2>2 DEF Honest
<1> QED BY <1>2, <1>3, <1>4, <1>5, WordMove

\* A retry that fences, or finds that somebody else did.
LEMMA ClaimFenceWord ==
  ASSUME TypeInv, WordInv, NEW r \in Req, ClaimFence(r)
  PROVE  WordInv'
<1> DEFINE c == [turn |-> close[r].turn, token |-> close[r].token]
<1>0. /\ c \in Candidate /\ r \in Proc /\ pc[r] = "fence"
      /\ UNCHANGED <<req, owner, calls, wrote>>
  BY Typed DEF Candidate, ClaimFence, history
<1>1. CASE ClaimAgain(r) /\ UNCHANGED database
  BY <1>0, <1>1, ClaimAgainWord DEF database
<1>2. CASE \E d \in 0..Delay : Fence(r, c, d, "settle") /\ UNCHANGED told
  BY <1>0, <1>2, FenceWord
<1> QED BY <1>1, <1>2 DEF ClaimFence

\* _durable_protocol_error reports the error it has just recorded.
LEMMA ProtocolErrorWord ==
  ASSUME TypeInv, LedgerInv, WordInv, NEW r \in Req, ProtocolError(r)
  PROVE  WordInv'
<1>0. /\ r \in Proc /\ T(r) \in Turn /\ pc[r] = "protocol" /\ owner[T(r)] = r
      /\ UNCHANGED <<req, owner, calls, wrote>> /\ run[T(r)].payload = req[r].payload
  BY Typed DEF ProtocolError, LedgerInv, OwnerOK, Executing, WordInv, OrderWord, history
<1>1. CASE Raise(r) /\ UNCHANGED run
  BY <1>0, <1>1, RaiseWord
<1>2. CASE /\ \E d \in 0..Delay : Owns(T(r), lease[r], d)
           /\ run' = [run EXCEPT ![T(r)].state = "error", ![T(r)].left = Lapsed]
           /\ Answer(r, "error") /\ UNCHANGED close
  <2>1. /\ pc'[r] = "done" /\ told'[r] = "error"
        /\ \A q \in Proc \ {r} : pc'[q] = pc[q] /\ close'[q] = close[q]
        /\ \A q \in Req \ {r} : told'[q] = told[q]
    BY <1>0, <1>2 DEF Answer, TypeInv, ControlType
  <2>2. run[T(r)].state = "running" /\ run'[T(r)].state = "error"
    BY <1>0, <1>2 DEF Owns, TypeInv, DataType, Run
  <2>3. Progress(r)
    BY <1>0, <1>2, <2>2 DEF Progress, TypeInv, DataType, Run
  <2>4. Apart(r)
    BY <2>1 DEF Apart, Closer
  <2>5. Ordered(r)
    BY <2>1 DEF Ordered, Working, Streaming, Settling, Closer
  <2>6. Honest(r)
    BY <1>0, <2>1, <2>2 DEF Honest, Over, Terminal
  <2> QED BY <1>0, <2>3, <2>4, <2>5, <2>6, WordMove
<1> QED BY <1>1, <1>2 DEF ProtocolError

\* Only a valid body gets a transcript pair.
LEMMA PrepareWord ==
  ASSUME TypeInv, LedgerInv, WordInv, NEW r \in Req, NEW cut \in BOOLEAN, Prepare(r, cut)
  PROVE  WordInv'
<1>0. /\ r \in Proc /\ T(r) \in Turn /\ pc[r] = "prepare" /\ UNCHANGED <<req, owner, calls>>
      /\ run[T(r)].payload \notin InvalidPayload
  BY Typed DEF Prepare, LedgerInv, OwnerOK, Executing, WordInv, OrderWord, Working
<1>1. CASE Raise(r) /\ UNCHANGED <<run, wrote>>
  BY <1>0, <1>1, RaiseWord
<1>2. ASSUME NEW c, run' = [run EXCEPT ![T(r)].conv = c, ![T(r)].msg = r],
             wrote' = [wrote EXCEPT ![T(r)] = @ + 1],
             \/ pc' = [pc EXCEPT ![r] = "open"] /\ UNCHANGED <<told, close>>
             \/ Cancelled(r)
      PROVE  WordInv'
  <2>1. \A t \in Turn : run'[t].payload = run[t].payload /\ run'[t].state = run[t].state
    BY <1>2 DEF TypeInv, DataType, Run
  <2>2. \A t \in Turn : run[t].payload \in InvalidPayload => wrote'[t] = wrote[t]
    BY <1>0, <1>2 DEF TypeInv, RestType
  <2>3. Progress(r)
    BY <1>0, <2>1, <2>2 DEF Progress
  <2>4. CASE Cancelled(r)
    BY <1>0, <2>1, <2>3, <2>4, CutWord
  <2>5. CASE pc' = [pc EXCEPT ![r] = "open"] /\ UNCHANGED <<told, close>>
    BY <1>0, <2>1, <2>3, <2>5, MutelyWord DEF Closer, Working, Streaming, Over
  <2> QED BY <1>2, <2>4, <2>5
<1> QED BY <1>1, <1>2 DEF Prepare

\* A forced checkpoint settles nothing.
LEMMA CheckpointWord ==
  ASSUME TypeInv, WordInv, NEW r \in Req, NEW next \in Streaming \ {"abort"}, NEW maint,
         NEW cut \in BOOLEAN, Checkpoint(r, next, maint, cut), UNCHANGED history,
         pc[r] \in Streaming \ {"abort"}
  PROVE  WordInv'
<1>1. /\ UNCHANGED <<run, req, owner, calls, wrote>> /\ r \in Proc
      /\ pc[r] \in Working /\ pc[r] \notin Over \cup {"abort"}
      /\ next \in Working /\ next \notin Closer \cup {"fence", "settle"}
  BY Typed DEF Checkpoint, history, Streaming, Over, Working, Closer
<1>2. Progress(r)
  BY <1>1 DEF Progress
<1>3. CASE Raise(r)
  BY <1>1, <1>3, RaiseWord
<1>4. CASE Cancelled(r)
  BY <1>1, <1>2, <1>4, CutWord
<1>5. CASE pc' = [pc EXCEPT ![r] = next] /\ UNCHANGED <<told, close>>
  BY <1>1, <1>2, <1>5, MutelyWord
<1> QED BY <1>3, <1>4, <1>5 DEF Checkpoint

\* Requests that arrive, stream and leave without settling anything.
LEMMA WalkWord ==
  ASSUME TypeInv, WordInv, NEW r \in Req,
         Arrive(r) \/ ShowToolResult(r) \/ EndStream(r) \/ ToolResult(r) \/ CloseJournal(r)
  PROVE  WordInv'
<1>1. UNCHANGED <<run, close, told, req, owner, calls, wrote>>
  BY DEF Arrive, ShowToolResult, EndStream, ToolResult, CloseJournal, database, memory, history
<1>2. Progress(r)
  BY <1>1 DEF Progress
<1>3. \E v \in {"claim", "sweep", "stream", "finish", "save", "done"} :
        /\ pc' = [pc EXCEPT ![r] = v]
        /\ v \in Working => pc[r] \in Working
        /\ pc[r] \notin Over \cup {"abort"} \/ v \in Over
  BY DEF Arrive, ShowToolResult, EndStream, ToolResult, Event, CloseJournal, Working, Streaming, Over
<1> QED BY <1>1, <1>2, <1>3, MutelyWord DEF Closer

\* Only a valid body calls a provider.
LEMMA CallProviderWord ==
  ASSUME TypeInv, LedgerInv, WordInv, NEW r \in Req, CallProvider(r)
  PROVE  WordInv'
<1>1. /\ T(r) \in Turn /\ pc[r] = "ready" /\ r \in Proc
      /\ run[T(r)].payload \notin InvalidPayload
      /\ UNCHANGED <<run, close, told, req, owner, wrote>>
  BY Typed DEF CallProvider, LedgerInv, OwnerOK, Executing, Streaming, WordInv, OrderWord,
     Working, database, memory
<1>2. \A t \in Turn : run[t].payload \in InvalidPayload => calls'[t] = calls[t]
  BY <1>1 DEF CallProvider, TypeInv, RestType
<1>3. Progress(r)
  BY <1>1, <1>2 DEF Progress
<1> QED BY <1>1, <1>3, MutelyWord DEF CallProvider, Working, Streaming, Closer, Over

\* An executor reports the outcome it has just committed.
LEMMA FinishTurnWord ==
  ASSUME TypeInv, LedgerInv, WordInv, NEW r \in Req, NEW cut \in BOOLEAN, FinishTurn(r, cut)
  PROVE  WordInv'
<1> DEFINE s == Outcome(r)
<1>0. /\ r \in Proc /\ T(r) \in Turn /\ pc[r] \in {"finish", "fail", "abort"}
      /\ UNCHANGED <<req, owner, calls, wrote>> /\ owner[T(r)] = r
      /\ run[T(r)].payload = req[r].payload /\ req[r].payload \notin InvalidPayload
      /\ s \in Terminal /\ (s = "complete" <=> pc[r] = "finish")
      /\ s = "aborted" <=> pc[r] = "abort"
      /\ told[r] # "failed"
  BY Typed DEF FinishTurn, LedgerInv, OwnerOK, Executing, Streaming, WordInv, OrderWord,
     ToldWord, Working, Over, history, Outcome, Terminal
<1>1. CASE Raise(r) /\ UNCHANGED run
  BY <1>0, <1>1, RaiseWord
<1>2. CASE /\ \E d \in 0..Delay : CanCheckpoint(r, d)
           /\ run' = [run EXCEPT ![T(r)].state = s, ![T(r)].left = Lapsed]
           /\ \/ /\ pc' = [pc EXCEPT ![r] = "closing"]
                 /\ told' = [told EXCEPT ![r] = IF s = "aborted" THEN @ ELSE s]
                 /\ UNCHANGED close
              \/ Cancelled(r)
  <2>1. run[T(r)].state = "running" /\ run'[T(r)].state = s
    BY <1>0, <1>2 DEF CanCheckpoint, Owns, TypeInv, DataType, Run
  <2>2. Progress(r)
    <3>1. \A t \in Turn : run'[t].payload = run[t].payload
      BY <1>2 DEF TypeInv, DataType, Run
    <3>2. \A t \in Turn \ {T(r)} : run'[t].state = run[t].state
      BY <1>2 DEF TypeInv, DataType
    <3> QED BY <1>0, <2>1, <3>1, <3>2 DEF Progress, Terminal
  <2>3. CASE Cancelled(r)
    BY <1>0, <2>1, <2>2, <2>3, CutWord
  <2>4. CASE /\ pc' = [pc EXCEPT ![r] = "closing"]
             /\ told' = [told EXCEPT ![r] = IF s = "aborted" THEN @ ELSE s]
             /\ UNCHANGED close
    <3>1. /\ pc'[r] = "closing" /\ told'[r] = (IF s = "aborted" THEN told[r] ELSE s)
          /\ \A q \in Proc \ {r} : pc'[q] = pc[q] /\ close'[q] = close[q]
          /\ \A q \in Req \ {r} : told'[q] = told[q]
      BY <1>0, <2>4 DEF TypeInv, ControlType
    <3>2. Apart(r)
      BY <3>1 DEF Apart, Closer
    <3>3. Ordered(r)
      BY <3>1 DEF Ordered, Working, Streaming, Settling, Closer
    <3>4. Honest(r)
      BY <1>0, <2>1, <3>1 DEF Honest, Over, Terminal
    <3> QED BY <1>0, <2>2, <3>2, <3>3, <3>4, WordMove
  <2> QED BY <1>2, <2>3, <2>4
<1> QED BY <1>1, <1>2 DEF FinishTurn

\* The sweeps read, and fence what they may.
LEMMA SweepWord ==
  ASSUME TypeInv, WordInv, NEW p \in Proc, SweepNext(p) \/ SweepDone(p) \/ LoadAssistant(p)
  PROVE  WordInv'
<1>1. pc \in [Proc -> PC] /\ close \in [Proc -> Closing]
  BY DEF TypeInv, ControlType
<1>2. UNCHANGED <<told, req, owner, calls, wrote>>
  BY DEF SweepNext, SweepDone, LoadAssistant, history
<1>3. CASE SweepNext(p)
  <2>1. PICK c \in todo[p], d \in 0..Delay :
          Fence(p, c, d, "sweep") \/ UNCHANGED <<database, pc, close>>
    BY <1>3 DEF SweepNext
  <2>2. c \in Candidate /\ pc[p] = "sweep"
    BY <1>3 DEF SweepNext, TypeInv, ControlType
  <2>3. CASE Fence(p, c, d, "sweep")
    BY <1>2, <2>2, <2>3, FenceWord
  <2>4. CASE UNCHANGED <<database, pc, close>>
    BY <1>2, <2>4, QuietWord DEF database
  <2> QED BY <2>1, <2>3, <2>4
<1>4. CASE SweepDone(p) \/ LoadAssistant(p)
  <2>1. /\ run' = run /\ pc[p] \in {"sweep", "loadMessage"}
        /\ \A q \in Proc \ {p} : pc'[q] = pc[q] /\ close'[q] = close[q]
        /\ \/ pc'[p] \in {"idle", "claim"}
           \/ /\ pc'[p] = "close" /\ pc[p] \in Closer
              /\ close'[p].back = close[p].back /\ close'[p].as = close[p].as
    BY <1>1, <1>4 DEF SweepDone, LoadAssistant, database, memory, Closing, Closer
  <2>2. Progress(p)
    BY <1>2, <2>1 DEF Progress
  <2>3. Apart(p)
    BY <1>2, <2>1 DEF Apart, Closer, WordInv
  <2>4. Ordered(p)
    BY <2>1 DEF Ordered, Working, Streaming, Settling, Closer
  <2>5. Honest(p)
    BY <1>2, <2>1 DEF Honest, Over
  <2> QED BY <1>2, <2>2, <2>3, <2>4, <2>5, WordMove
<1> QED BY <1>3, <1>4

\* Closing a turn for someone else never completes it, and whoever could not
\* open a journal says only that it failed.
LEMMA ReturnWord ==
  ASSUME TypeInv, WordInv, NEW p \in Proc, pc[p] \in Closer, Return(p), Progress(p),
         \A t \in Turn : run'[t].state = "complete" => run[t].state = "complete",
         UNCHANGED <<req, owner>>
  PROVE  WordInv'
<1>1. /\ pc \in [Proc -> PC] /\ close \in [Proc -> Closing] /\ told \in [Req -> Told]
      /\ close[p].back \in {"sweep", "settle", "done"}
      /\ pc'[p] = close[p].back
      /\ \A q \in Proc \ {p} : pc'[q] = pc[q] /\ close'[q] = close[q]
      /\ \A r \in Req \ {p} : told'[r] = told[r]
      /\ p \in Req => told'[p] = told[p] \/ (told'[p] = "failed" /\ close[p].back = "done")
  BY DEF Return, TypeInv, ControlType, Closing
<1>2. Apart(p)
  BY <1>1 DEF Apart, Closer
<1>3. Ordered(p)
  BY <1>1 DEF Ordered, Working, Streaming, Settling, Closer
<1>4. ASSUME p \in Req PROVE Honest(p)
  <2>1. T(p) \in Turn /\ pc[p] \notin Over \cup {"abort"}
    BY <1>4, Typed DEF Closer, Over
  <2> QED BY <1>1, <1>4, <2>1 DEF Honest, Over
<1> QED BY <1>2, <1>3, <1>4, WordMove

\* finish_claimed_turn finds the turn its own, or leaves it.
LEMMA LoadRunWord ==
  ASSUME TypeInv, WordInv, NEW p \in Proc, LoadRun(p)
  PROVE  WordInv'
<1>1. /\ UNCHANGED <<run, req, owner, calls, wrote>> /\ pc[p] = "load" /\ pc[p] \in Closer
      /\ pc \in [Proc -> PC] /\ close \in [Proc -> Closing]
  BY DEF LoadRun, database, history, Closer, TypeInv, ControlType
<1>2. Progress(p)
  BY <1>1 DEF Progress
<1>3. CASE Return(p)
  BY <1>1, <1>2, <1>3, ReturnWord
<1>4. CASE /\ close' = [close EXCEPT ![p].mid = run[close[p].turn].msg]
           /\ pc' = [pc EXCEPT ![p] = IF run[close[p].turn].msg = None
                                      THEN "close" ELSE "loadMessage"]
           /\ UNCHANGED told
  <2>1. /\ \A q \in Proc \ {p} : pc'[q] = pc[q] /\ close'[q] = close[q]
        /\ pc'[p] \in {"close", "loadMessage"}
        /\ close'[p].back = close[p].back /\ close'[p].as = close[p].as
    BY <1>1, <1>4 DEF Closing
  <2>2. Apart(p)
    BY <1>1, <1>4, <2>1 DEF Apart, WordInv
  <2>3. Ordered(p)
    BY <1>1, <2>1 DEF Ordered, Working, Streaming, Settling, Closer
  <2>4. Honest(p)
    BY <1>1, <1>4 DEF Honest, Over
  <2> QED BY <1>1, <1>2, <2>2, <2>3, <2>4, WordMove
<1> QED BY <1>3, <1>4 DEF LoadRun

\* Its terminal transaction settles the turn as failed or aborted.
LEMMA CloseTurnWord ==
  ASSUME TypeInv, LedgerInv, WordInv, NEW p \in Proc, CloseTurn(p)
  PROVE  WordInv'
<1> DEFINE t == close[p].turn
           seen == close[p].seen
           as == IF Live(p) \/ seen.status = "absent" THEN close[p].as ELSE seen.status
<1>0. /\ UNCHANGED <<req, owner, calls, wrote>> /\ pc[p] = "close" /\ pc[p] \in Closer
      /\ t \in Turn /\ close[p].as \in Terminal /\ close[p].as # "complete"
      /\ seen.status \in {"absent", "streaming"} \cup Terminal /\ CloserOK(p)
  BY Typed DEF CloseTurn, history, Closer, TypeInv, ControlType, Closing, WordInv, LedgerInv
<1>1. CASE Raise(p) /\ UNCHANGED database
  BY <1>0, <1>1, RaiseWord DEF database
<1>2. CASE /\ \E d \in 0..Delay : CanClose(p, d)
           /\ run' = [run EXCEPT ![t].state = as, ![t].left = Lapsed]
           /\ Return(p)
  <2>1. run[t].state = "running"
    BY <1>2 DEF CanClose, Owns
  <2>2. seen.status \notin Terminal
    BY <1>0, <2>1 DEF CloserOK, Terminal
  <2>3. as \in {"error", "aborted"}
    BY <1>0, <2>2 DEF Live, Terminal
  <2>4. /\ run'[t].state = as
        /\ \A u \in Turn : run'[u].payload = run[u].payload
        /\ \A u \in Turn \ {t} : run'[u].state = run[u].state
    BY <1>0, <1>2 DEF TypeInv, DataType, Run
  <2> HIDE DEF as
  <2>5. Progress(p)
    BY <1>0, <2>1, <2>3, <2>4 DEF Progress
  <2> QED BY <1>0, <1>2, <2>1, <2>3, <2>4, <2>5, ReturnWord
<1> QED BY <1>1, <1>2 DEF CloseTurn

\* A crash says nothing.
LEMMA CrashWord ==
  ASSUME TypeInv, WordInv, Crash
  PROVE  WordInv'
<1>1. UNCHANGED <<run, told, req, owner, calls, wrote>>
  BY DEF Crash, database, history
<1>2. \A p \in Proc : pc'[p] \in {"idle", "done"} /\ (pc[p] # "idle" /\ p # Sweeper => pc'[p] = "done")
  BY DEF Crash
<1>3. \A t \in Turn : TurnWord(t)'
  BY <1>1 DEF WordInv, TurnWord
<1>4. ASSUME NEW r \in Req PROVE OrderWord(r)' /\ ToldWord(r)'
  <2>1. OrderWord(r) /\ ToldWord(r) /\ T(r)' = T(r) /\ r \in Proc /\ r # Sweeper
    BY <1>1, Typed DEF WordInv, T
  <2>2. OrderWord(r)'
    BY <1>1, <1>2, <2>1 DEF OrderWord, Settling, Working, Streaming, Closer
  <2>3. ToldWord(r)'
    BY <1>1, <1>2, <2>1 DEF ToldWord, Over
  <2> QED BY <2>2, <2>3
<1> QED BY <1>2, <1>3, <1>4 DEF WordInv, Closer

\* Startup recovery and requests for other turns only start a sweep.
LEMMA SweeperCalledWord ==
  ASSUME TypeInv, WordInv, Visit \/ Restart
  PROVE  WordInv'
<1>1. /\ Sweeper \in Proc /\ Sweeper \notin Req /\ pc' = [pc EXCEPT ![Sweeper] = "sweep"]
      /\ UNCHANGED <<run, close, told, req, owner, calls, wrote>>
  BY LedgerAssumption DEF Visit, Restart, database, history, Proc
<1>2. Progress(Sweeper)
  BY <1>1 DEF Progress
<1>3. Apart(Sweeper)
  BY <1>1 DEF Apart, Closer, TypeInv, ControlType
<1> QED BY <1>1, <1>2, <1>3, WordMove

\* Inside an executor, of the clock or by deletion: nobody moves or settles.
LEMMA TickWord ==
  ASSUME TypeInv, WordInv,
         \/ Tick \/ \E c \in Conv : DeleteConversation(c)
         \/ \E r \in Req : StreamText(r) \/ Heartbeat(r) \/ TakeSnapshot(r)
                           \/ SaveSnapshot(r) \/ MaintenanceError(r)
  PROVE  WordInv'
<1>1. UNCHANGED <<pc, close, told, req, owner, calls, wrote>>
  BY DEF Tick, DeleteConversation, StreamText, Heartbeat, TakeSnapshot, SaveSnapshot,
     MaintenanceError, memory, history
<1>2. \A t \in Turn : run'[t].payload = run[t].payload /\ run'[t].state = run[t].state
  <2>1. CASE Tick
    BY <2>1 DEF Tick, TypeInv, DataType, Run
  <2>2. ASSUME NEW c \in Conv, DeleteConversation(c)
        PROVE  \A t \in Turn : run'[t].payload = run[t].payload /\ run'[t].state = run[t].state
    BY <2>2 DEF DeleteConversation, TypeInv, DataType, Run
  <2>3. ASSUME NEW r \in Req, Heartbeat(r)
        PROVE  \A t \in Turn : run'[t].payload = run[t].payload /\ run'[t].state = run[t].state
    BY <2>3 DEF Heartbeat, TypeInv, DataType, Run
  <2>4. ASSUME NEW r \in Req, StreamText(r) \/ TakeSnapshot(r) \/ SaveSnapshot(r)
                              \/ MaintenanceError(r)
        PROVE  run' = run
    BY <2>4 DEF StreamText, TakeSnapshot, SaveSnapshot, MaintenanceError, database
  <2> QED BY <2>1, <2>2, <2>3, <2>4
<1> QED BY <1>1, <1>2, QuietWord

\* Every step of the ledger keeps what was told.
LEMMA WordStep == TypeInv /\ LedgerInv /\ WordInv /\ [Next]_vars => WordInv'
<1> SUFFICES ASSUME TypeInv, LedgerInv, WordInv, [Next]_vars PROVE WordInv'
  OBVIOUS
<1>1. ASSUME NEW r \in Req, Arrive(r) \/ Claim(r) PROVE WordInv'
  BY <1>1, WalkWord, ClaimReadWord, ClaimInsertWord, ClaimFenceWord, ProtocolErrorWord DEF Claim
<1>2. ASSUME NEW r \in Req, NEW cut \in BOOLEAN,
             OpenJournal(r, cut) \/ BindProvider(r, cut) \/ SaveToolResult(r, cut)
      PROVE  WordInv'
  BY <1>2, CheckpointWord DEF OpenJournal, BindProvider, SaveToolResult, Streaming
<1>3. ASSUME NEW r \in Req, Execute(r) PROVE WordInv'
  BY <1>2, <1>3, PrepareWord, CallProviderWord, WalkWord, FinishTurnWord DEF Execute
<1>4. ASSUME NEW r \in Req, Generate(r) \/ ProviderError(r) PROVE WordInv'
  <2>1. CASE NoticeLostLease(r) \/ ProviderError(r)
    BY <2>1, RaiseWord, Typed DEF NoticeLostLease, ProviderError, database, history
  <2> QED BY <1>4, <2>1, TickWord, WalkWord DEF Generate
<1>5. ASSUME NEW r \in Req, CutShort(r) PROVE WordInv'
  <2>1. CASE Disconnect(r)
    BY <2>1, CutWord, Typed DEF Disconnect, database, history, Progress
  <2> QED BY <1>2, <1>5, <2>1, ClaimInsertWord, PrepareWord, FinishTurnWord DEF CutShort
<1>6. ASSUME NEW p \in Proc, Sweep(p) \/ StorageError(p) PROVE WordInv'
  <2>1. CASE StorageError(p)
    BY <2>1, RaiseWord DEF StorageError, database, history
  <2> QED BY <1>6, <2>1, SweepWord, LoadRunWord, CloseTurnWord DEF Sweep
<1>7. ASSUME UNCHANGED vars PROVE WordInv'
  BY <1>7, QuietWord DEF vars, database, memory, history
<1> QED BY <1>1, <1>3, <1>4, <1>5, <1>6, <1>7, TickWord, CrashWord, SweeperCalledWord
        DEF Next, Maintain

\* It holds of an empty ledger.
LEMMA InitWord == Init => WordInv
<1> SUFFICES ASSUME Init PROVE WordInv
  OBVIOUS
<1>1. \A t \in Turn : TurnWord(t)
  BY LedgerAssumption DEF Init, TurnWord, NoRun
<1>2. \A r \in Req : OrderWord(r) /\ ToldWord(r)
  BY LedgerAssumption DEF Init, OrderWord, ToldWord, Settling, Proc, Working, Streaming,
     Closer, Terminal, Request, T
<1>3. \A p \in Proc : pc[p] \notin Closer
  BY DEF Init, Closer
<1> QED BY <1>1, <1>2, <1>3 DEF WordInv

-----------------------------------------------------------------------------
\* The invariant holds in every state the ledger reaches.
LEMMA LedgerCorrect == Spec => [](TypeInv /\ LedgerInv)
<1>1. TypeInv /\ LedgerInv /\ [Next]_vars => (TypeInv /\ LedgerInv)'
  BY StepType, LedgerStep
<1> QED BY <1>1, InitType, InitLedger, PTL DEF Spec

\* A turn id calls the provider and writes its transcript pair at most once,
\* however often it is retried, expires, loses its process or is deleted.
THEOREM ExecutedOnce == Spec => []AtMostOneExecution
<1>1. LedgerInv => AtMostOneExecution
  BY DEF LedgerInv
<1> QED BY <1>1, LedgerCorrect, PTL

\* The receipt of a turn and the transcript row it points to tell the same
\* story in every state: finish, expiry and deletion move both together.
THEOREM ReceiptsMatch == Spec => []ReceiptMatchesTranscript
<1>1. LedgerInv => ReceiptMatchesTranscript
  BY DEF LedgerInv, TaleOK, ReceiptMatchesTranscript
<1> QED BY <1>1, LedgerCorrect, PTL

\* Every transcript row has the receipt that answers for it: no crash and no
\* deletion leaves an unbound placeholder behind.
THEOREM NoOrphans == Spec => []NoOrphanTranscript
<1>1. LedgerInv => NoOrphanTranscript
  BY DEF LedgerInv, BoundOK, NoOrphanTranscript
<1> QED BY <1>1, LedgerCorrect, PTL

\* What a client was told holds for good: the outcome of a valid body, the failure
\* of a bad one, and that a turn its holder saw fail does not complete.
THEOREM ToldOnce == Spec => []ToldIsTrue
<1>1. TypeInv /\ LedgerInv /\ WordInv /\ [Next]_vars => (TypeInv /\ LedgerInv /\ WordInv)'
  BY StepType, LedgerStep, WordStep
<1>2. Init => TypeInv /\ LedgerInv /\ WordInv
  BY InitType, InitLedger, InitWord
<1>3. ASSUME TypeInv, WordInv PROVE ToldIsTrue
  <2>1. ASSUME NEW r \in Req, told[r] \in Terminal
        PROVE  IF req[r].payload \in InvalidPayload
               THEN /\ run[T(r)].state \in {"error", "aborted"}
                    /\ calls[T(r)] = 0 /\ wrote[T(r)] = 0
               ELSE run[T(r)].state = told[r]
    <3>1. ToldWord(r) /\ TurnWord(T(r))
      BY <1>3, Typed DEF WordInv
    <3> QED BY <2>1, <3>1 DEF ToldWord, TurnWord, Terminal
  <2>2. ASSUME NEW r \in Req, told[r] = "failed", owner[T(r)] = r
        PROVE  run[T(r)].state # "complete"
    BY <1>3, <2>2 DEF WordInv, ToldWord
  <2> QED BY <2>1, <2>2 DEF ToldIsTrue
<1> QED BY <1>1, <1>2, <1>3, PTL DEF Spec

=============================================================================
