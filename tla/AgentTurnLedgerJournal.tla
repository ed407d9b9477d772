----------------------- MODULE AgentTurnLedgerJournal -----------------------
(***************************************************************************)
(* What the journal of an execution saves against what its client saw, for *)
(* any number of turns, deltas, tool results, checkpoints and faults.      *)
(*                                                                         *)
(* The invariant follows the content through its four places: what was     *)
(* streamed is, up to the cap, what the journal holds; the journal holds   *)
(* no less than the snapshot its maintenance task is saving; the snapshot  *)
(* no less than the row; and the row no less than what was shown.          *)
(***************************************************************************)
EXTENDS AgentTurnLedgerProofs

\* Where a request has a journal, and where it still adds to it.
Holding    == Streaming \cup {"closing"}
Generating == {"open", "bind", "ready", "stream", "save", "show", "finish"}
Present(r) == msg[r].status # "absent"

\* What add_text keeps of n deltas.
Capped(n) == IF n < TextCap THEN n ELSE TextCap

\* Nothing was streamed for a turn that has not reached the transcript.
FreshOK(r) == wrote[T(r)] = 0 => sent[r] = 0 /\ shown[r] = 0

\* The journal holds all that was streamed up to the cap, and no less than the row.
HeldOK(r) == pc[r] \in Holding =>
  /\ lease[r] = 1
  /\ jr[r].text = Capped(sent[r])
  /\ shown[r] <= jr[r].tools
  /\ pc[r] \in Generating \ {"save", "show"} => shown[r] = jr[r].tools
  /\ Present(r) => msg[r].text <= jr[r].text /\ msg[r].tools <= jr[r].tools

\* The row holds what was shown, and all of it once it is complete.
RowOK(r) == Present(r) =>
  /\ shown[r] <= msg[r].tools
  /\ pc[r] = "show" => msg[r].tools = jr[r].tools
  /\ msg[r].status = "complete" =>
       /\ msg[r].text = Capped(sent[r]) /\ msg[r].tools = shown[r]
       /\ pc[r] \notin Generating

\* While its row is streaming, the executor knows it: nobody else writes it.
KnownOK(r) == pc[r] \in Generating /\ msg[r].status = "streaming" =>
  /\ msg[r].version = jr[r].version
  /\ ~jr[r].dirty => msg[r].text = jr[r].text

\* A snapshot being saved lies between the row and the journal.
SnapOK(r) == jr[r].saving =>
  /\ pc[r] \in Holding
  /\ jr[r].snapText <= jr[r].text
  /\ shown[r] <= jr[r].snapTools /\ jr[r].snapTools <= jr[r].tools
  /\ pc[r] = "show" => jr[r].snapTools = jr[r].tools
  /\ Present(r) => msg[r].text <= jr[r].snapText /\ msg[r].tools <= jr[r].snapTools

JournalOK(r) == FreshOK(r) /\ HeldOK(r) /\ RowOK(r) /\ KnownOK(r) /\ SnapOK(r)

\* A closer never completes a turn, and the row it read as streaming is, at
\* the same version, the row as it is.
SeenOK(p) ==
  LET m    == close[p].mid
      seen == close[p].seen
  IN /\ close[p].as # "complete"
     /\ pc[p] = "close" /\ seen.status = "streaming" =>
          /\ m \in Req /\ wrote[T(m)] = 1
          /\ msg[m].status = "streaming" =>
               /\ seen.version <= msg[m].version
               /\ seen.version = msg[m].version =>
                    seen.text = msg[m].text /\ seen.tools = msg[m].tools

JournalInv == /\ \A r \in Req : JournalOK(r)
              /\ \A p \in Proc : pc[p] \in Closer => SeenOK(p)


-----------------------------------------------------------------------------
(* What a step may do to a request, or to a row, without the invariant      *)
(* noticing.                                                                *)

\* The request stays where it is, moves where it has no journal, or breaks off.
PlaceStays(r) ==
  \/ pc'[r] = pc[r] /\ lease'[r] = lease[r]
  \/ pc[r] \notin Holding /\ pc'[r] \notin Holding
  \/ {pc[r], pc'[r]} \subseteq Generating \ {"save", "show"} /\ lease'[r] = lease[r]
  \/ pc[r] \in Streaming /\ pc'[r] \in {"fail", "abort", "closing"} /\ lease'[r] = lease[r]
  \/ pc'[r] \notin Holding /\ ~jr'[r].saving

\* The journal keeps its text; a snapshot is kept or dropped.
TextStays(r) ==
  \/ /\ jr'[r].text = jr[r].text /\ jr'[r].tools = jr[r].tools
     /\ jr'[r].version = jr[r].version /\ jr'[r].dirty = jr[r].dirty
     /\ jr'[r].saving => /\ jr[r].saving /\ jr'[r].snapText = jr[r].snapText
                         /\ jr'[r].snapTools = jr[r].snapTools
  \/ pc'[r] \notin Holding /\ ~jr'[r].saving

\* The row is untouched, taken away, or ended as it was.
RowStays(r) ==
  \/ msg'[r] = msg[r]
  \/ msg'[r].status = "absent"
  \/ /\ msg[r].status # "absent" /\ msg'[r].status \in {"error", "aborted"}
     /\ msg'[r].text = msg[r].text /\ msg'[r].tools = msg[r].tools

Stays(r) == /\ PlaceStays(r) /\ TextStays(r) /\ RowStays(r)
            /\ sent'[r] = sent[r] /\ shown'[r] = shown[r] /\ T(r)' = T(r)
            /\ wrote'[T(r)] = 0 => wrote[T(r)] = 0

\* A row that is still streaming is as it was, or has a new version.
Grows(r) == wrote[T(r)] = 1 =>
  /\ wrote'[T(r)] = 1
  /\ msg'[r].status = "streaming" =>
       /\ msg[r].status = "streaming"
       /\ \/ msg'[r] = msg[r]
          \/ msg'[r].version = msg[r].version + 1

\* The content of a row never shrinks, and not even grows once its turn is fenced.
ContentKept(r) ==
  Present(r) /\ msg'[r].status # "absent" =>
    /\ msg'[r].text >= msg[r].text /\ msg'[r].tools >= msg[r].tools
    /\ run[T(r)].token # 1 => msg'[r].text = msg[r].text /\ msg'[r].tools = msg[r].tools

\* The journal, the row and the counters are numbers.
LEMMA Numbers ==
  ASSUME TypeInv
  PROVE  /\ \A r \in Req :
              /\ sent[r] \in Nat /\ shown[r] \in Nat
              /\ msg[r].text \in Nat /\ msg[r].tools \in Nat /\ msg[r].version \in Nat
              /\ jr[r].text \in Nat /\ jr[r].tools \in Nat /\ jr[r].version \in Nat
              /\ jr[r].snapText \in Nat /\ jr[r].snapTools \in Nat
              /\ jr[r].dirty \in BOOLEAN /\ jr[r].saving \in BOOLEAN
         /\ \A p \in Proc :
              /\ close[p].seen.version \in Nat
              /\ close[p].seen.text \in Nat /\ close[p].seen.tools \in Nat
<1>1. \A r \in Req : msg[r] \in Message /\ jr[r] \in Journal /\ sent[r] \in Nat /\ shown[r] \in Nat
  BY DEF TypeInv, DataType, RestType
<1>2. \A p \in Proc : close[p].seen \in Message
  BY DEF TypeInv, ControlType, Closing
<1> QED BY <1>1, <1>2 DEF Message, Journal

\* Such a step keeps the invariant of the request.
LEMMA StaysInv ==
  ASSUME TypeInv, NEW r \in Req, JournalOK(r), Stays(r)
  PROVE  JournalOK(r)'
<1>1. FreshOK(r)'
  BY DEF JournalOK, FreshOK, Stays
<1>2. HeldOK(r)'
  BY DEF JournalOK, HeldOK, Stays, PlaceStays, TextStays, RowStays, Present, Holding, Streaming, Generating
<1>3. RowOK(r)'
  BY DEF JournalOK, RowOK, Stays, PlaceStays, TextStays, RowStays, Present, Holding, Streaming, Generating
<1>4. KnownOK(r)'
  BY DEF JournalOK, KnownOK, Stays, PlaceStays, TextStays, RowStays, Holding, Streaming, Generating
<1>5. SnapOK(r)'
  BY DEF JournalOK, SnapOK, Stays, PlaceStays, TextStays, RowStays, Present, Holding, Streaming, Generating
<1> QED BY <1>1, <1>2, <1>3, <1>4, <1>5 DEF JournalOK

\* It keeps the content of the row.
LEMMA StaysContent ==
  ASSUME TypeInv, NEW r \in Req, Stays(r)
  PROVE  ContentKept(r)
BY Numbers DEF Stays, RowStays, ContentKept, Present

\* A closer that does not move keeps what it knows.
LEMMA SeenStays ==
  ASSUME TypeInv, NEW p \in Proc, SeenOK(p), pc'[p] = pc[p], close'[p] = close[p],
         req' = req, \A r \in Req : Grows(r)
  PROVE  SeenOK(p)'
<1> DEFINE m == close[p].mid
           seen == close[p].seen
<1>0. close'[p].mid = m /\ close'[p].seen = seen /\ close'[p].as # "complete"
  BY DEF SeenOK
<1> SUFFICES ASSUME pc[p] = "close", seen.status = "streaming"
    PROVE  /\ m \in Req /\ wrote'[T(m)'] = 1
           /\ msg'[m].status = "streaming" =>
                /\ seen.version <= msg'[m].version
                /\ seen.version = msg'[m].version =>
                     seen.text = msg'[m].text /\ seen.tools = msg'[m].tools
  BY <1>0 DEF SeenOK
<1>1. /\ m \in Req /\ wrote[T(m)] = 1 /\ T(m)' = T(m)
      /\ msg[m].status = "streaming" =>
           /\ seen.version <= msg[m].version
           /\ seen.version = msg[m].version =>
                seen.text = msg[m].text /\ seen.tools = msg[m].tools
  BY DEF SeenOK, T
<1>2. /\ wrote'[T(m)] = 1
      /\ msg'[m].status = "streaming" =>
           /\ msg[m].status = "streaming"
           /\ msg'[m] = msg[m] \/ msg'[m].version = msg[m].version + 1
  BY <1>1 DEF Grows
<1>3. msg[m].version \in Nat /\ seen.version \in Nat
  BY <1>1, Numbers
<1> QED BY <1>1, <1>2, <1>3

\* A row that stays grows.
LEMMA StaysGrows ==
  ASSUME NEW r \in Req, RowStays(r), wrote[T(r)] = 1 => wrote'[T(r)] = 1
  PROVE  Grows(r)
BY DEF RowStays, Grows

-----------------------------------------------------------------------------
LedgerState == TypeInv /\ LedgerInv /\ JournalInv
Kept == JournalInv' /\ \A r \in Req : ContentKept(r)

\* The other processes are where they were.
OthersWait(p) ==
  /\ \A q \in Proc \ {p} : pc'[q] = pc[q] /\ close'[q] = close[q]
  /\ \A r \in Req \ {p} : lease'[r] = lease[r]

\* A step of one process, that leaves the rows and journals of the others alone.
LEMMA OneActs ==
  ASSUME LedgerState, NEW p \in Proc, OthersWait(p), req' = req,
         \A r \in Req \ {p} : Stays(r),
         p \in Req => JournalOK(p)' /\ ContentKept(p),
         \A r \in Req : Grows(r),
         pc'[p] \in Closer => SeenOK(p)'
  PROVE  Kept
<1>1. ASSUME NEW r \in Req PROVE JournalOK(r)' /\ ContentKept(r)
  <2>1. CASE r = p
    BY <2>1
  <2>2. CASE r # p
    BY <2>2, StaysInv, StaysContent DEF LedgerState, JournalInv
  <2> QED BY <2>1, <2>2
<1>2. ASSUME NEW q \in Proc, pc'[q] \in Closer PROVE SeenOK(q)'
  <2>1. CASE q = p
    BY <1>2, <2>1
  <2>2. CASE q # p
    BY <1>2, <2>2, SeenStays DEF LedgerState, JournalInv, OthersWait
  <2> QED BY <2>1, <2>2
<1> QED BY <1>1, <1>2 DEF Kept, JournalInv

\* The step of one process that writes no row.
LEMMA QuietJournal ==
  ASSUME LedgerState, NEW p \in Proc, OthersWait(p),
         UNCHANGED <<msg, req, sent, shown, wrote>>,
         \A r \in Req \ {p} : jr'[r] = jr[r],
         p \in Req => PlaceStays(p) /\ TextStays(p),
         pc'[p] \in Closer => SeenOK(p)'
  PROVE  Kept
<1>1. ASSUME NEW r \in Req PROVE Stays(r)
  <2>1. RowStays(r) /\ T(r)' = T(r)
    BY DEF RowStays, T
  <2>2. CASE r = p
    BY <2>1, <2>2 DEF Stays
  <2>3. CASE r # p
    <3>1. r \in Proc
      BY DEF Proc
    <3> QED BY <2>1, <2>3, <3>1 DEF Stays, OthersWait, PlaceStays, TextStays
  <2> QED BY <2>2, <2>3
<1>2. \A r \in Req : JournalOK(r)' /\ ContentKept(r)
  BY <1>1, StaysInv, StaysContent DEF LedgerState, JournalInv
<1>3. \A r \in Req : Grows(r)
  BY <1>1, StaysGrows DEF Stays
<1> QED BY <1>1, <1>2, <1>3, OneActs

\* An exception, or a lost client, moves a process to where it has no more to add.
LEMMA RaiseJournal ==
  ASSUME LedgerState, NEW p \in Proc, Raise(p) \/ (p \in Req /\ Cancelled(p))
  PROVE  /\ OthersWait(p)
         /\ p \in Req => PlaceStays(p) /\ pc'[p] \notin Generating
         /\ pc'[p] \in Closer => SeenOK(p)'
<1>1. pc \in [Proc -> PC] /\ close \in [Proc -> Closing] /\ p \in Proc
  BY DEF LedgerState, TypeInv, ControlType
<1>2. OthersWait(p)
  BY <1>1 DEF Raise, Cancelled, OthersWait, Proc
<1>3. PlaceStays(p) /\ (p \in Req => pc'[p] \notin Generating)
  BY <1>1 DEF Raise, Cancelled, PlaceStays, Holding, Streaming, Closer, Claiming, Generating
<1>4. ASSUME pc'[p] \in Closer PROVE SeenOK(p)'
  <2>1. /\ pc'[p] = "load"
        /\ \/ close'[p] = Capability(T(p), lease[p], "error", "done")
           \/ close'[p] = Capability(T(p), lease[p], "aborted", "done")
    BY <1>1, <1>4 DEF Raise, Cancelled, Closer, Streaming, Claiming
  <2> QED BY <2>1 DEF SeenOK, Capability
<1> QED BY <1>2, <1>3, <1>4

\* It ends nothing that the invariant is about.
LEMMA EscapeJournal ==
  ASSUME LedgerState, NEW p \in Proc, Raise(p) \/ (p \in Req /\ Cancelled(p)),
         UNCHANGED <<msg, req, sent, shown, wrote, jr>>
  PROVE  Kept
BY RaiseJournal, QuietJournal DEF TextStays

\* A request claims its turn or leaves: it has no journal and gets none.
LEMMA ClaimJournal ==
  ASSUME LedgerState, NEW r \in Req, NEW cut \in BOOLEAN,
         \/ Arrive(r) \/ ClaimRead(r) \/ ClaimSettle(r) \/ ProtocolError(r)
         \/ ClaimFence(r) \/ ClaimInsert(r, cut)
  PROVE  Kept
<1>1. /\ pc \in [Proc -> PC] /\ close \in [Proc -> Closing] /\ r \in Proc
      /\ lease \in [Req -> Nat]
  BY Typed DEF LedgerState, TypeInv, ControlType, RestType
<1>2. UNCHANGED <<msg, req, sent, shown, wrote, jr>>
  BY DEF Arrive, ClaimRead, ClaimSettle, ProtocolError, ClaimFence, ClaimInsert, Fence, database,
     memory, history
<1>3. pc[r] \in Claiming \cup {"idle"}
  BY DEF Arrive, ClaimRead, ClaimSettle, ProtocolError, ClaimFence, ClaimInsert, Claiming
<1>4. CASE Raise(r)
  <2>1. r \in Proc
    BY DEF Proc
  <2> QED BY <1>2, <1>4, <2>1, EscapeJournal
<1>5. CASE ~Raise(r)
  <2>1. \E v \in Claiming \cup {"idle", "done", "prepare", "load"} : pc' = [pc EXCEPT ![r] = v]
    BY <1>5 DEF Arrive, ClaimRead, ClaimSettle, ProtocolError, ClaimFence, ClaimInsert, Fence, ClaimAgain,
       Answer, Claiming
  <2>2. /\ \E c : close' = [close EXCEPT ![r] = c] \/ close' = close
        /\ \E k : lease' = [lease EXCEPT ![r] = k] \/ lease' = lease
    BY <1>5 DEF Arrive, ClaimRead, ClaimSettle, ProtocolError, ClaimFence, ClaimInsert, Fence, ClaimAgain,
       memory, Answer
  <2>3. OthersWait(r)
    BY <1>1, <2>1, <2>2 DEF OthersWait
  <2>4. PlaceStays(r) /\ TextStays(r)
    BY <1>1, <1>2, <1>3, <2>1 DEF PlaceStays, TextStays, Holding, Claiming, Streaming
  <2>5. ASSUME pc'[r] \in Closer PROVE SeenOK(r)'
    <3>1. pc'[r] = "load"
      BY <1>1, <2>1, <2>5 DEF Closer, Claiming
    <3>2. \E t, k : close' = [close EXCEPT ![r] = Capability(t, k, "aborted", "settle")]
      BY <1>1, <1>5, <3>1 DEF Arrive, ClaimRead, ClaimSettle, ProtocolError, ClaimFence, ClaimInsert, Fence,
         ClaimAgain, Answer
    <3> QED BY <1>1, <3>1, <3>2 DEF SeenOK, Capability
  <2> QED BY <1>1, <1>2, <2>3, <2>4, <2>5, QuietJournal
<1> QED BY <1>4, <1>5

\* What fencing does besides the receipt.
LEMMA Fenced ==
  ASSUME NEW p, NEW c, NEW d, NEW b, Fence(p, c, d, b)
  PROVE  /\ pc' = [pc EXCEPT ![p] = "load"] /\ msg' = msg
         /\ close' = [close EXCEPT ![p] = Capability(c.turn, c.token + 1, "aborted", b)]
BY DEF Fence

\* A sweep takes its next candidate.
LEMMA SweepNextJournal ==
  ASSUME LedgerState, NEW p \in Proc, SweepNext(p)
  PROVE  Kept
<1>1. pc \in [Proc -> PC] /\ close \in [Proc -> Closing]
  BY DEF LedgerState, TypeInv, ControlType
<1>2. PICK c \in todo[p], d \in 0..Delay :
        Fence(p, c, d, "sweep") \/ UNCHANGED <<database, pc, close>>
  BY DEF SweepNext
<1>3. UNCHANGED <<msg, req, sent, shown, wrote, jr, lease>>
  BY <1>2, Fenced DEF SweepNext, database, history
<1>4. CASE Fence(p, c, d, "sweep")
  <2>1. /\ pc[p] = "sweep" /\ pc' = [pc EXCEPT ![p] = "load"]
        /\ close' = [close EXCEPT ![p] = Capability(c.turn, c.token + 1, "aborted", "sweep")]
    BY <1>4, Fenced DEF SweepNext
  <2>2. OthersWait(p) /\ SeenOK(p)'
    BY <1>1, <1>3, <2>1 DEF OthersWait, SeenOK, Capability
  <2> QED BY <1>1, <1>3, <2>1, <2>2, QuietJournal DEF PlaceStays, TextStays, Holding, Streaming
<1>5. CASE UNCHANGED <<database, pc, close>>
  <2>1. pc[p] = "sweep" /\ pc'[p] = "sweep" /\ OthersWait(p)
    BY <1>3, <1>5 DEF SweepNext, OthersWait
  <2> QED BY <1>3, <2>1, QuietJournal DEF PlaceStays, TextStays, Holding, Streaming, Closer
<1> QED BY <1>2, <1>4, <1>5

\* A sweep ends, or a closing returns.
LEMMA ReturnJournal ==
  ASSUME LedgerState, NEW p \in Proc, pc[p] \in {"sweep", "load"},
         Return(p) \/ SweepDone(p), UNCHANGED <<msg, req, sent, shown, wrote, jr, lease>>
  PROVE  Kept
<1>1. /\ pc \in [Proc -> PC] /\ close \in [Proc -> Closing]
      /\ close[p].back \in {"sweep", "settle", "done"}
  BY DEF LedgerState, TypeInv, ControlType, Closing
<1>2. \E v \in {"sweep", "settle", "done", "idle", "claim"} : pc' = [pc EXCEPT ![p] = v]
  BY <1>1 DEF Return, SweepDone
<1>3. close' = close \/ \E c : close' = [close EXCEPT ![p] = c]
  BY DEF Return, SweepDone, memory
<1>4. pc'[p] \in {"sweep", "settle", "done", "idle", "claim"} /\ OthersWait(p)
  BY <1>1, <1>2, <1>3 DEF OthersWait
<1> QED BY <1>4, QuietJournal DEF PlaceStays, TextStays, Holding, Streaming, Closer

\* A closing reads the receipt, then the row.
LEMMA LoadJournal ==
  ASSUME LedgerState, NEW p \in Proc, LoadRun(p) \/ LoadAssistant(p)
  PROVE  Kept
<1> DEFINE t == close[p].turn
<1>1. /\ pc \in [Proc -> PC] /\ close \in [Proc -> Closing]
      /\ SeenOK(p) /\ CloserOK(p) /\ pc[p] \in {"load", "loadMessage"}
  BY DEF LedgerState, TypeInv, ControlType, JournalInv, LedgerInv, LoadRun, LoadAssistant, Closer
<1>2. UNCHANGED <<msg, req, sent, shown, wrote, jr, lease>>
  BY DEF LoadRun, LoadAssistant, database, history
<1>3. CASE Return(p) /\ pc[p] = "load"
  BY <1>2, <1>3, ReturnJournal
<1>4. ASSUME NEW v \in {"close", "loadMessage"}, pc' = [pc EXCEPT ![p] = v],
             NEW c, close' = [close EXCEPT ![p] = c], SeenOK(p)'
      PROVE  Kept
  <2>1. OthersWait(p) /\ pc'[p] = v
    BY <1>1, <1>2, <1>4 DEF OthersWait
  <2> QED BY <1>1, <1>2, <1>4, <2>1, QuietJournal DEF PlaceStays, TextStays, Holding, Streaming
<1>5. CASE LoadRun(p) /\ ~Return(p)
  <2>1. PICK m : m = run[t].msg
    OBVIOUS
  <2> DEFINE c == [close[p] EXCEPT !.mid = m]
             v == IF m = None THEN "close" ELSE "loadMessage"
  <2>2. /\ pc[p] = "load" /\ pc' = [pc EXCEPT ![p] = v]
        /\ close' = [close EXCEPT ![p].mid = m]
    BY <1>5, <2>1 DEF LoadRun
  <2>3. close' = [close EXCEPT ![p] = c]
    BY <1>1, <2>2
  <2>4. close'[p].as = close[p].as /\ close'[p].seen = close[p].seen
    BY <1>1, <2>3 DEF Closing
  <2>5. close[p].seen.status = "absent"
    BY <1>1, <2>2 DEF CloserOK
  <2>6. SeenOK(p)'
    BY <1>1, <2>4, <2>5 DEF SeenOK
  <2> HIDE DEF c
  <2> QED BY <1>4, <2>2, <2>3, <2>6
<1>6. CASE LoadAssistant(p)
  <2>1. PICK m \in Req : m = close[p].mid
    BY <1>6 DEF LoadAssistant, LedgerState, TypeInv, ControlType, RowToLoad
  <2> DEFINE c == [close[p] EXCEPT !.seen = msg[m]]
  <2>2. /\ pc[p] = "loadMessage" /\ pc' = [pc EXCEPT ![p] = "close"]
        /\ close' = [close EXCEPT ![p].seen = msg[m]]
    BY <1>6, <2>1 DEF LoadAssistant
  <2>3. close' = [close EXCEPT ![p] = c]
    BY <1>1, <2>2
  <2>4. close'[p].as = close[p].as /\ close'[p].mid = m /\ close'[p].seen = msg[m]
    BY <1>1, <2>1, <2>3 DEF Closing
  <2>5. T(m) = t /\ wrote[t] = 1 /\ T(m)' = T(m) /\ wrote' = wrote /\ msg' = msg
    BY <1>1, <1>2, <2>1, <2>2, Typed DEF CloserOK, LedgerState, T
  <2>6. msg[m].version \in Nat
    BY Numbers DEF LedgerState
  <2>7. SeenOK(p)'
    BY <1>1, <2>4, <2>5, <2>6 DEF SeenOK
  <2> HIDE DEF c
  <2> QED BY <1>4, <2>2, <2>3, <2>7
<1> QED BY <1>3, <1>5, <1>6 DEF LoadRun

\* Steps of a request that write no row and move it among its places.
LEMMA MovesJournal ==
  ASSUME LedgerState, NEW r \in Req,
         CallProvider(r) \/ EndStream(r) \/ CloseJournal(r)
  PROVE  Kept
<1>1. pc \in [Proc -> PC] /\ r \in Proc /\ lease \in [Req -> Nat] /\ jr \in [Req -> Journal]
  BY Typed DEF LedgerState, TypeInv, ControlType, RestType
<1>2. UNCHANGED <<msg, req, sent, shown, wrote, close>>
  BY DEF CallProvider, EndStream, CloseJournal, database, memory, history
<1>3. CASE CallProvider(r) \/ EndStream(r)
  <2>1. /\ jr' = jr /\ lease' = lease
        /\ \/ pc[r] = "ready" /\ pc' = [pc EXCEPT ![r] = "stream"]
           \/ pc[r] = "stream" /\ pc' = [pc EXCEPT ![r] = "finish"]
    BY <1>3 DEF CallProvider, EndStream, memory
  <2>2. OthersWait(r) /\ pc'[r] \notin Closer
    BY <1>1, <1>2, <2>1 DEF OthersWait, Closer
  <2>3. PlaceStays(r) /\ TextStays(r)
    BY <1>1, <2>1 DEF PlaceStays, TextStays, Generating
  <2> QED BY <1>1, <1>2, <2>1, <2>2, <2>3, QuietJournal
<1>4. CASE CloseJournal(r)
  <2>1. /\ pc' = [pc EXCEPT ![r] = "done"] /\ lease' = [lease EXCEPT ![r] = 0]
        /\ jr' = [jr EXCEPT ![r] = NewJournal(0)]
    BY <1>4 DEF CloseJournal
  <2>2. OthersWait(r) /\ pc'[r] = "done" /\ ~jr'[r].saving /\ \A q \in Req \ {r} : jr'[q] = jr[q]
    BY <1>1, <1>2, <2>1 DEF OthersWait, NewJournal
  <2>3. PlaceStays(r) /\ TextStays(r) /\ pc'[r] \notin Closer
    BY <2>2 DEF PlaceStays, TextStays, Holding, Streaming, Closer
  <2> QED BY <1>1, <1>2, <2>2, <2>3, QuietJournal
<1> QED BY <1>3, <1>4

\* A checkpoint of the maintenance task that is refused.
SnapshotRefused(r) ==
  /\ msg' = msg
  /\ jr' = [jr EXCEPT ![r] = [Released(jr[r]) EXCEPT !.maint = "dead"]]

\* The heartbeat, and a maintenance task that fails.
LEMMA MaintainJournal ==
  ASSUME LedgerState, NEW r \in Req,
         \/ Heartbeat(r) \/ MaintenanceError(r)
         \/ (SaveSnapshot(r) /\ SnapshotRefused(r))
  PROVE  Kept
<1>1. r \in Proc /\ jr \in [Req -> Journal]
  BY Typed DEF LedgerState, TypeInv, RestType
<1>2. UNCHANGED <<msg, req, sent, shown, wrote, close, pc, lease>>
  BY DEF Heartbeat, MaintenanceError, SaveSnapshot, SnapshotRefused, database, history
<1>3. \/ jr' = jr
      \/ jr' = [jr EXCEPT ![r].maint = "dead"]
      \/ jr' = [jr EXCEPT ![r] = [Released(jr[r]) EXCEPT !.maint = "dead"]]
  BY DEF Heartbeat, MaintenanceError, SnapshotRefused
<1>4. TextStays(r) /\ \A q \in Req \ {r} : jr'[q] = jr[q]
  <2>1. CASE jr' = jr
    BY <2>1 DEF TextStays
  <2>2. CASE jr' = [jr EXCEPT ![r].maint = "dead"]
    BY <1>1, <2>2 DEF TextStays, Journal
  <2>3. CASE jr' = [jr EXCEPT ![r] = [Released(jr[r]) EXCEPT !.maint = "dead"]]
    <3>1. /\ jr'[r] = [Released(jr[r]) EXCEPT !.maint = "dead"]
          /\ \A q \in Req \ {r} : jr'[q] = jr[q]
      BY <1>1, <2>3
    <3> QED BY <1>1, <3>1 DEF TextStays, Released, Journal
  <2> QED BY <1>3, <2>1, <2>2, <2>3
<1>5. pc'[r] \in Closer => SeenOK(r)'
  <2>1. ASSUME pc'[r] \in Closer PROVE SeenOK(r)'
    <3>1. SeenOK(r)
      BY <1>1, <1>2, <2>1 DEF LedgerState, JournalInv
    <3>2. \A q \in Req : Grows(q)
      BY <1>2, StaysGrows DEF RowStays
    <3> QED BY <1>1, <1>2, <3>1, <3>2, SeenStays DEF LedgerState
  <2> QED BY <2>1
<1> QED BY <1>1, <1>2, <1>4, <1>5, QuietJournal DEF OthersWait, PlaceStays

\* A step of an executor that adds to its journal, its snapshot or its stream.
LEMMA AddsJournal ==
  ASSUME LedgerState, NEW r \in Req, pc[r] \in Streaming \cup {"closing"}, NEW v \in Holding,
         pc' = [pc EXCEPT ![r] = v], UNCHANGED <<msg, req, wrote, close, lease>>,
         \A q \in Req \ {r} : jr'[q] = jr[q] /\ sent'[q] = sent[q] /\ shown'[q] = shown[q],
         FreshOK(r)' /\ HeldOK(r)' /\ RowOK(r)' /\ KnownOK(r)' /\ SnapOK(r)'
  PROVE  Kept
<1>1. pc \in [Proc -> PC] /\ r \in Proc
  BY Typed DEF LedgerState, TypeInv, ControlType
<1>2. OthersWait(r) /\ pc'[r] \notin Closer
  BY <1>1 DEF OthersWait, Holding, Streaming, Closer
<1>3. \A q \in Req : Grows(q)
  BY StaysGrows DEF RowStays
<1>4. ASSUME NEW q \in Req \ {r} PROVE Stays(q)
  BY <1>1, <1>4 DEF Stays, PlaceStays, TextStays, RowStays, T, Proc
<1>5. ContentKept(r)
  BY Numbers DEF ContentKept, LedgerState
<1> QED BY <1>1, <1>2, <1>3, <1>4, <1>5, OneActs DEF JournalOK

\* What the ledger's invariant says of an executor.
LEMMA Executor ==
  ASSUME LedgerState, NEW r \in Req, pc[r] \in Streaming
  PROVE  /\ wrote[T(r)] = 1 /\ lease[r] = 1 /\ T(r) \in Turn /\ r \in Proc
         /\ JournalOK(r)
BY Typed DEF LedgerState, LedgerInv, OwnerOK, Executing, JournalInv

\* A delta is streamed and enters the journal.
LEMMA StreamTextJournal ==
  ASSUME LedgerState, NEW r \in Req, StreamText(r)
  PROVE  Kept
<1>1. /\ pc[r] = "stream" /\ pc' = pc /\ pc \in [Proc -> PC]
      /\ jr' = [jr EXCEPT ![r] = AddText(@)]
      /\ sent' = [sent EXCEPT ![r] = @ + 1]
      /\ UNCHANGED <<msg, req, wrote, close, lease, shown>>
      /\ jr \in [Req -> Journal] /\ sent \in [Req -> Nat] /\ pc[r] \in Streaming /\ pc[r] \in Generating
  BY DEF StreamText, Event, database, LedgerState, TypeInv, ControlType, RestType, Streaming, Generating
<1>2. wrote[T(r)] = 1 /\ T(r)' = T(r) /\ r \in Proc /\ JournalOK(r)
  BY <1>1, Executor DEF T
<1>a. AddText(jr[r]).text \in {jr[r].text, jr[r].text + 1}
      /\ (jr[r].dirty => AddText(jr[r]).dirty)
      /\ (AddText(jr[r]).text # jr[r].text => AddText(jr[r]).dirty)
      /\ AddText(jr[r]).text = (IF jr[r].text < TextCap THEN jr[r].text + 1 ELSE jr[r].text)
      /\ AddText(jr[r]).tools = jr[r].tools
      /\ AddText(jr[r]).version = jr[r].version /\ AddText(jr[r]).saving = jr[r].saving
      /\ AddText(jr[r]).snapText = jr[r].snapText /\ AddText(jr[r]).snapTools = jr[r].snapTools
  <2>1. jr[r] \in Journal /\ jr[r].text \in Nat
    BY <1>1 DEF Journal
  <2> QED BY <2>1 DEF AddText, Journal
<1>3. /\ jr'[r].text \in {jr[r].text, jr[r].text + 1} /\ jr'[r].tools = jr[r].tools
      /\ jr[r].dirty => jr'[r].dirty
      /\ jr'[r].text # jr[r].text => jr'[r].dirty
      /\ jr'[r].text = (IF jr[r].text < TextCap THEN jr[r].text + 1 ELSE jr[r].text)
      /\ jr'[r].version = jr[r].version /\ jr'[r].saving = jr[r].saving
      /\ jr'[r].snapText = jr[r].snapText /\ jr'[r].snapTools = jr[r].snapTools
      /\ sent'[r] = sent[r] + 1
      /\ \A q \in Req \ {r} : jr'[q] = jr[q] /\ sent'[q] = sent[q]
  <2>1. jr'[r] = AddText(jr[r]) /\ \A q \in Req \ {r} : jr'[q] = jr[q]
    BY <1>1
  <2>2. sent'[r] = sent[r] + 1 /\ \A q \in Req \ {r} : sent'[q] = sent[q]
    BY <1>1
  <2> QED BY <1>a, <2>1, <2>2
<1>4. /\ jr[r].text = Capped(sent[r]) /\ shown[r] <= jr[r].tools /\ shown[r] = jr[r].tools /\ lease[r] = 1
      /\ Present(r) => msg[r].text <= jr[r].text /\ msg[r].tools <= jr[r].tools
  BY <1>1, <1>2 DEF JournalOK, HeldOK, Holding, Streaming, Generating
<1>5. HeldOK(r)'
  <2>1. jr'[r].text = Capped(sent'[r])
    BY <1>3, <1>4, Numbers, LedgerAssumption DEF Capped, LedgerState
  <2> QED BY <1>1, <1>3, <1>4, <2>1, Numbers DEF HeldOK, Present, LedgerState
<1>6. FreshOK(r)'
  BY <1>1, <1>2 DEF FreshOK
<1>7. RowOK(r)'
  BY <1>1, <1>2, <1>3 DEF JournalOK, RowOK, Present
<1>8. KnownOK(r)'
  BY <1>1, <1>2, <1>3 DEF JournalOK, KnownOK
<1>9. SnapOK(r)'
  BY <1>1, <1>2, <1>3, Numbers DEF JournalOK, SnapOK, Present, LedgerState
<1>10. pc' = [pc EXCEPT ![r] = "stream"] /\ "stream" \in Holding
  BY <1>1, <1>2 DEF Holding, Streaming
<1> QED BY <1>1, <1>3, <1>5, <1>6, <1>7, <1>8, <1>9, <1>10, AddsJournal

\* A tool result enters the journal.
LEMMA ToolResultJournal ==
  ASSUME LedgerState, NEW r \in Req, ToolResult(r)
  PROVE  Kept
<1>1. /\ pc[r] \in {"stream", "bind"} /\ pc' = [pc EXCEPT ![r] = "save"] /\ pc \in [Proc -> PC]
      /\ jr' = [jr EXCEPT ![r].tools = @ + 1]
      /\ UNCHANGED <<msg, req, wrote, close, lease, sent, shown>>
      /\ jr \in [Req -> Journal] /\ pc[r] \in Streaming
  BY DEF ToolResult, Event, database, history, LedgerState, TypeInv, ControlType, RestType, Streaming
<1>2. wrote[T(r)] = 1 /\ T(r)' = T(r) /\ r \in Proc /\ JournalOK(r)
  BY <1>1, Executor DEF T
<1>3. /\ jr'[r].tools = jr[r].tools + 1 /\ jr'[r].text = jr[r].text /\ jr'[r].dirty = jr[r].dirty
      /\ jr'[r].version = jr[r].version /\ jr'[r].saving = jr[r].saving
      /\ jr'[r].snapText = jr[r].snapText /\ jr'[r].snapTools = jr[r].snapTools
      /\ \A q \in Req \ {r} : jr'[q] = jr[q]
      /\ pc'[r] = "save"
  BY <1>1, <1>2 DEF Journal
<1>4. /\ jr[r].text = Capped(sent[r]) /\ shown[r] <= jr[r].tools /\ lease[r] = 1
      /\ Present(r) => msg[r].text <= jr[r].text /\ msg[r].tools <= jr[r].tools
  BY <1>1, <1>2 DEF JournalOK, HeldOK, Holding, Streaming
<1>5. HeldOK(r)'
  BY <1>1, <1>3, <1>4, Numbers DEF HeldOK, Present, LedgerState
<1>6. FreshOK(r)'
  BY <1>1, <1>2 DEF FreshOK
<1>7. RowOK(r)'
  BY <1>1, <1>2, <1>3 DEF JournalOK, RowOK, Present, Generating
<1>8. KnownOK(r)'
  BY <1>1, <1>2, <1>3 DEF JournalOK, KnownOK, Generating
<1>9. SnapOK(r)'
  BY <1>1, <1>2, <1>3, Numbers DEF JournalOK, SnapOK, Present, LedgerState, Holding, Streaming
<1>10. "save" \in Holding
  BY DEF Holding, Streaming
<1> QED BY <1>1, <1>3, <1>5, <1>6, <1>7, <1>8, <1>9, <1>10, AddsJournal

\* A saved tool result is shown.
LEMMA ShowToolResultJournal ==
  ASSUME LedgerState, NEW r \in Req, ShowToolResult(r)
  PROVE  Kept
<1>1. /\ pc[r] = "show" /\ pc' = [pc EXCEPT ![r] = "stream"] /\ pc \in [Proc -> PC]
      /\ shown' = [shown EXCEPT ![r] = jr[r].tools]
      /\ UNCHANGED <<msg, req, wrote, close, lease, sent, jr>>
      /\ shown \in [Req -> Nat] /\ pc[r] \in Streaming
  BY DEF ShowToolResult, database, memory, LedgerState, TypeInv, ControlType, RestType, Streaming
<1>2. wrote[T(r)] = 1 /\ T(r)' = T(r) /\ r \in Proc /\ JournalOK(r)
  BY <1>1, Executor DEF T
<1>3. /\ shown'[r] = jr[r].tools /\ pc'[r] = "stream" /\ \A q \in Req \ {r} : shown'[q] = shown[q]
  BY <1>1, <1>2
<1>4. /\ jr[r].text = Capped(sent[r]) /\ lease[r] = 1
      /\ Present(r) => msg[r].text <= jr[r].text /\ msg[r].tools <= jr[r].tools
  BY <1>1, <1>2 DEF JournalOK, HeldOK, Holding, Streaming
<1>5. HeldOK(r)'
  BY <1>1, <1>3, <1>4, Numbers DEF HeldOK, Present, LedgerState
<1>6. FreshOK(r)'
  BY <1>1, <1>2 DEF FreshOK
<1>7. RowOK(r)'
  BY <1>1, <1>2, <1>3, Numbers DEF JournalOK, RowOK, Present, Generating, LedgerState
<1>8. KnownOK(r)'
  BY <1>1, <1>2, <1>3 DEF JournalOK, KnownOK, Generating
<1>9. SnapOK(r)'
  BY <1>1, <1>2, <1>3, Numbers DEF JournalOK, SnapOK, Present, LedgerState, Holding, Streaming
<1>10. "stream" \in Holding
  BY DEF Holding, Streaming
<1> QED BY <1>1, <1>3, <1>5, <1>6, <1>7, <1>8, <1>9, <1>10, AddsJournal

\* The maintenance task takes its snapshot.
LEMMA TakeSnapshotJournal ==
  ASSUME LedgerState, NEW r \in Req, TakeSnapshot(r)
  PROVE  Kept
<1>1. /\ pc[r] \in Holding /\ pc' = pc /\ pc \in [Proc -> PC] /\ r \in Proc
      /\ jr' = [jr EXCEPT ![r].saving = TRUE, ![r].snapText = jr[r].text,
                          ![r].snapTools = jr[r].tools]
      /\ UNCHANGED <<msg, req, wrote, close, lease, sent, shown>>
      /\ jr \in [Req -> Journal] /\ JournalOK(r)
  BY Typed DEF TakeSnapshot, Maintained, database, history, LedgerState, TypeInv, ControlType, RestType,
     Holding, Streaming, JournalInv
<1>2. T(r)' = T(r)
  BY <1>1 DEF T
<1>3. /\ jr'[r].tools = jr[r].tools /\ jr'[r].text = jr[r].text /\ jr'[r].dirty = jr[r].dirty
      /\ jr'[r].version = jr[r].version
      /\ jr'[r].snapText = jr[r].text /\ jr'[r].snapTools = jr[r].tools
      /\ \A q \in Req \ {r} : jr'[q] = jr[q]
  BY <1>1 DEF Journal
<1>4. /\ shown[r] <= jr[r].tools
      /\ Present(r) => msg[r].text <= jr[r].text /\ msg[r].tools <= jr[r].tools
  BY <1>1 DEF JournalOK, HeldOK
<1>5. HeldOK(r)'
  BY <1>1, <1>3 DEF JournalOK, HeldOK, Present
<1>6. FreshOK(r)'
  BY <1>1, <1>2 DEF JournalOK, FreshOK
<1>7. RowOK(r)'
  BY <1>1, <1>3 DEF JournalOK, RowOK, Present
<1>8. KnownOK(r)'
  BY <1>1, <1>3 DEF JournalOK, KnownOK
<1>9. SnapOK(r)'
  BY <1>1, <1>3, <1>4, Numbers DEF SnapOK, Present, LedgerState
<1>10. pc' = [pc EXCEPT ![r] = pc[r]]
  BY <1>1
<1> QED BY <1>1, <1>3, <1>5, <1>6, <1>7, <1>8, <1>9, <1>10, AddsJournal DEF Holding

\* A step of a lease holder that writes its row.
LEMMA WriteJournal ==
  ASSUME LedgerState, NEW r \in Req, OthersWait(r), UNCHANGED <<req, sent, shown, wrote>>,
         \A q \in Req \ {r} : msg'[q] = msg[q] /\ jr'[q] = jr[q],
         msg[r].status = "streaming", msg'[r].version = msg[r].version + 1,
         msg'[r].text >= msg[r].text, msg'[r].tools >= msg[r].tools,
         run[T(r)].token = 1, wrote[T(r)] = 1,
         HeldOK(r)' /\ RowOK(r)' /\ KnownOK(r)' /\ SnapOK(r)',
         pc'[r] \in Closer => SeenOK(r)'
  PROVE  Kept
<1>1. r \in Proc
  BY DEF Proc
<1>2. ASSUME NEW q \in Req \ {r} PROVE Stays(q)
  BY <1>2 DEF Stays, OthersWait, PlaceStays, TextStays, RowStays, T, Proc
<1>3. ASSUME NEW q \in Req PROVE Grows(q)
  <2>1. CASE q = r
    BY <2>1 DEF Grows
  <2>2. CASE q # r
    BY <1>2, <2>2, StaysGrows DEF Stays, RowStays
  <2> QED BY <2>1, <2>2
<1>4. FreshOK(r)' /\ ContentKept(r)
  BY DEF FreshOK, ContentKept, T
<1> QED BY <1>1, <1>2, <1>3, <1>4, OneActs DEF JournalOK

\* What a checkpoint finds when it is allowed.
LEMMA Allowed ==
  ASSUME LedgerState, NEW r \in Req, NEW d, CanCheckpoint(r, d), pc[r] \in Holding
  PROVE  /\ msg[r].status = "streaming" /\ msg[r].version = jr[r].version
         /\ run[T(r)].token = 1 /\ wrote[T(r)] = 1
         /\ msg[r].text <= jr[r].text /\ msg[r].tools <= jr[r].tools
         /\ shown[r] <= jr[r].tools /\ jr[r].text = Capped(sent[r]) /\ lease[r] = 1
<1>1. /\ msg[r].status = "streaming" /\ msg[r].version = jr[r].version
      /\ run[T(r)].token = lease[r]
  BY DEF CanCheckpoint, Owns, Writable
<1>2. HeldOK(r)
  BY DEF LedgerState, JournalInv, JournalOK
<1>3. wrote[T(r)] = 1
  <2>1. run[T(r)].msg = r /\ T(r) \in Turn /\ r # None
    BY <1>1, Typed DEF LedgerState, LedgerInv, BoundOK
  <2> QED BY <2>1 DEF LedgerState, LedgerInv, RunOK
<1> QED BY <1>1, <1>2, <1>3 DEF HeldOK, Present

\* The maintenance task saves its snapshot.
LEMMA SaveSnapshotJournal ==
  ASSUME LedgerState, NEW r \in Req, SaveSnapshot(r)
  PROVE  Kept
<1>1. PICK d \in 0..Delay :
        \/ /\ CanCheckpoint(r, d)
           /\ Save(r, jr[r].snapText, jr[r].snapTools)
           /\ jr' = [jr EXCEPT ![r] = Released(Acknowledge(jr[r], jr[r].snapText))]
        \/ SnapshotRefused(r)
  BY DEF SaveSnapshot, SnapshotRefused
<1>2. CASE SnapshotRefused(r)
  BY <1>2, MaintainJournal
<1>3. CASE /\ CanCheckpoint(r, d)
           /\ Save(r, jr[r].snapText, jr[r].snapTools)
           /\ jr' = [jr EXCEPT ![r] = Released(Acknowledge(jr[r], jr[r].snapText))]
  <2>1. /\ jr \in [Req -> Journal] /\ msg \in [Req -> Message]
        /\ jr[r].saving /\ JournalOK(r) /\ r \in Proc
    BY Typed DEF LedgerState, TypeInv, DataType, RestType, JournalInv, SaveSnapshot
  <2>2. pc[r] \in Holding
    BY <2>1 DEF JournalOK, SnapOK
  <2>3. UNCHANGED <<run, pc, close, lease, req, sent, shown, wrote>>
    BY DEF SaveSnapshot, history
  <2>4. /\ msg'[r].version = msg[r].version + 1 /\ msg'[r].status = msg[r].status
        /\ msg'[r].text = jr[r].snapText /\ msg'[r].tools = jr[r].snapTools
        /\ \A q \in Req \ {r} : msg'[q] = msg[q]
    BY <1>3, <2>1 DEF Save, Message
  <2>5. /\ jr'[r] = Released(Acknowledge(jr[r], jr[r].snapText))
        /\ \A q \in Req \ {r} : jr'[q] = jr[q]
    BY <1>3, <2>1
  <2>6. /\ jr'[r].text = jr[r].text /\ jr'[r].tools = jr[r].tools /\ ~jr'[r].saving
        /\ jr'[r].version = jr[r].version + 1
        /\ ~jr'[r].dirty => (~jr[r].dirty \/ jr[r].text = jr[r].snapText)
    BY <2>1, <2>5 DEF Released, Acknowledge, Journal
  <2>7. /\ msg[r].status = "streaming" /\ msg[r].version = jr[r].version
        /\ run[T(r)].token = 1 /\ wrote[T(r)] = 1
    BY <1>3, <2>2, Allowed
  <2>8. /\ jr[r].snapText <= jr[r].text
        /\ shown[r] <= jr[r].snapTools /\ jr[r].snapTools <= jr[r].tools
        /\ msg[r].text <= jr[r].snapText /\ msg[r].tools <= jr[r].snapTools
    BY <2>1, <2>7 DEF JournalOK, SnapOK, Present
  <2>9. /\ jr[r].text \in Nat /\ jr[r].snapText \in Nat /\ msg[r].text \in Nat
        /\ jr[r].tools \in Nat /\ jr[r].snapTools \in Nat /\ msg[r].tools \in Nat
    BY Numbers DEF LedgerState
  <2>10. HeldOK(r)'
    BY <2>1, <2>3, <2>4, <2>6, <2>8 DEF JournalOK, HeldOK, Present
  <2>11. RowOK(r)'
    BY <2>1, <2>3, <2>4, <2>6, <2>7, <2>8 DEF JournalOK, RowOK, SnapOK, Present
  <2>12. KnownOK(r)'
    <3>1. pc[r] \in Generating /\ ~jr[r].dirty => msg[r].text = jr[r].text
      BY <2>1, <2>7 DEF JournalOK, KnownOK
    <3> QED BY <2>3, <2>4, <2>6, <2>7, <2>8, <2>9, <3>1 DEF KnownOK
  <2>13. SnapOK(r)'
    BY <2>6 DEF SnapOK
  <2>14. pc'[r] \notin Closer /\ OthersWait(r)
    BY <2>2, <2>3 DEF Holding, Streaming, Closer, OthersWait
  <2> QED BY <2>1, <2>3, <2>4, <2>5, <2>7, <2>8, <2>9, <2>10, <2>11, <2>12, <2>13, <2>14, WriteJournal
<1> QED BY <1>1, <1>2, <1>3

\* What cancelling an executor does.
LEMMA CancelledExecutor ==
  ASSUME LedgerState, NEW r \in Req, pc[r] \in Streaming, Cancelled(r)
  PROVE  /\ OthersWait(r) /\ lease'[r] = lease[r]
         /\ pc'[r] \in {"abort", "closing"}
<1>1. pc \in [Proc -> PC] /\ r \in Proc /\ OthersWait(r)
  BY Typed, RaiseJournal DEF LedgerState, TypeInv, ControlType
<1> QED BY <1>1 DEF Cancelled, Streaming, Claiming, Closer

\* A checkpoint forced by the runner.
LEMMA CheckpointJournal ==
  ASSUME LedgerState, NEW r \in Req, NEW next, NEW maint, NEW cut \in BOOLEAN,
         Checkpoint(r, next, maint, cut), UNCHANGED history,
         \/ pc[r] = "open" /\ next = "bind"
         \/ pc[r] = "bind" /\ next = "ready"
         \/ pc[r] = "save" /\ next = "show"
  PROVE  Kept
<1>1. /\ jr \in [Req -> Journal] /\ msg \in [Req -> Message] /\ pc \in [Proc -> PC]
      /\ r \in Proc /\ JournalOK(r) /\ ~jr[r].saving
      /\ pc[r] \in Holding /\ pc[r] \in Streaming
      /\ UNCHANGED <<req, sent, shown, wrote>>
  BY Typed DEF LedgerState, TypeInv, DataType, RestType, ControlType, JournalInv, Checkpoint, history,
     Holding, Streaming
<1>2. PICK d \in 0..Delay :
        \/ /\ CanCheckpoint(r, d)
           /\ Save(r, jr[r].text, jr[r].tools)
           /\ \/ /\ jr' = [jr EXCEPT ![r] = [Acknowledge(jr[r], jr[r].text) EXCEPT !.maint = maint]]
                 /\ pc' = [pc EXCEPT ![r] = next]
                 /\ UNCHANGED <<close, lease>>
              \/ Cancelled(r) /\ jr' = jr
        \/ Raise(r) /\ UNCHANGED <<msg, jr>>
  BY DEF Checkpoint
<1>3. CASE Raise(r) /\ UNCHANGED <<msg, jr>>
  BY <1>1, <1>3, EscapeJournal
<1>4. CASE CanCheckpoint(r, d) /\ Save(r, jr[r].text, jr[r].tools)
  <2>1. /\ msg'[r].version = msg[r].version + 1 /\ msg'[r].status = msg[r].status
        /\ msg'[r].text = jr[r].text /\ msg'[r].tools = jr[r].tools
        /\ \A q \in Req \ {r} : msg'[q] = msg[q]
    BY <1>1, <1>4 DEF Save, Message
  <2>2. /\ msg[r].status = "streaming" /\ msg[r].version = jr[r].version
        /\ run[T(r)].token = 1 /\ wrote[T(r)] = 1
        /\ msg[r].text <= jr[r].text /\ msg[r].tools <= jr[r].tools
        /\ shown[r] <= jr[r].tools /\ jr[r].text = Capped(sent[r]) /\ lease[r] = 1
    BY <1>1, <1>4, Allowed
  <2>3. /\ jr[r].text \in Nat /\ msg[r].text \in Nat
        /\ jr[r].tools \in Nat /\ msg[r].tools \in Nat
    BY Numbers DEF LedgerState
  <2>4. CASE /\ jr' = [jr EXCEPT ![r] = [Acknowledge(jr[r], jr[r].text) EXCEPT !.maint = maint]]
             /\ pc' = [pc EXCEPT ![r] = next]
             /\ UNCHANGED <<close, lease>>
    <3>1. /\ jr'[r] = [Acknowledge(jr[r], jr[r].text) EXCEPT !.maint = maint]
          /\ \A q \in Req \ {r} : jr'[q] = jr[q]
      BY <1>1, <2>4
    <3>2. /\ jr'[r].text = jr[r].text /\ jr'[r].tools = jr[r].tools
          /\ jr'[r].saving = jr[r].saving /\ jr'[r].version = jr[r].version + 1
      BY <1>1, <3>1 DEF Acknowledge, Journal
    <3>3. /\ pc'[r] = next /\ next \in {"bind", "ready", "show"} /\ OthersWait(r)
          /\ next \in {"bind", "ready"} => pc[r] \in {"open", "bind"}
      BY <1>1, <2>4 DEF OthersWait
    <3>4. next \in {"bind", "ready"} => shown[r] = jr[r].tools
      BY <1>1, <3>3 DEF JournalOK, HeldOK, Generating
    <3>5. HeldOK(r)'
      BY <1>1, <2>1, <2>2, <2>3, <2>4, <3>2, <3>3, <3>4 DEF HeldOK, Generating
    <3>6. RowOK(r)'
      BY <1>1, <2>1, <2>2, <3>2 DEF RowOK
    <3>7. KnownOK(r)'
      BY <2>1, <2>2, <3>2 DEF KnownOK
    <3>8. SnapOK(r)'
      BY <1>1, <3>2 DEF SnapOK
    <3>9. pc'[r] \notin Closer
      BY <3>3 DEF Closer
    <3> QED BY <1>1, <2>1, <2>2, <2>3, <3>1, <3>3, <3>5, <3>6, <3>7, <3>8, <3>9, WriteJournal
  <2>5. CASE Cancelled(r) /\ jr' = jr
    <3>1. OthersWait(r) /\ lease'[r] = lease[r] /\ pc'[r] \in {"abort", "closing"}
      BY <1>1, <2>5, CancelledExecutor
    <3>2. HeldOK(r)'
      BY <1>1, <2>1, <2>2, <2>3, <2>5, <3>1 DEF HeldOK, Generating
    <3>3. RowOK(r)'
      BY <1>1, <2>1, <2>2, <2>5 DEF RowOK
    <3>4. KnownOK(r)'
      BY <3>1 DEF KnownOK, Generating
    <3>5. SnapOK(r)'
      BY <1>1, <2>5 DEF SnapOK
    <3>6. pc'[r] \notin Closer
      BY <3>1 DEF Closer
    <3> QED BY <1>1, <2>1, <2>2, <2>3, <2>5, <3>1, <3>2, <3>3, <3>4, <3>5, <3>6, WriteJournal
  <2> QED BY <1>2, <1>3, <2>4, <2>5
<1> QED BY <1>2, <1>3, <1>4

\* The row and the receipt end together.
LEMMA FinishTurnJournal ==
  ASSUME LedgerState, NEW r \in Req, NEW cut \in BOOLEAN, FinishTurn(r, cut)
  PROVE  Kept
<1> DEFINE s == Outcome(r)
<1>1. /\ jr \in [Req -> Journal] /\ msg \in [Req -> Message] /\ pc \in [Proc -> PC]
      /\ r \in Proc /\ JournalOK(r) /\ ~jr[r].saving
      /\ pc[r] \in {"finish", "fail", "abort"} /\ pc[r] \in Holding /\ pc[r] \in Streaming
      /\ UNCHANGED <<req, sent, shown, wrote>>
  BY Typed DEF LedgerState, TypeInv, DataType, RestType, ControlType, JournalInv, FinishTurn, history,
     Holding, Streaming
<1>2. s \in Terminal /\ (s = "complete" => pc[r] = "finish")
  BY <1>1 DEF Outcome, Terminal
<1> HIDE DEF s
<1>3. PICK d \in 0..Delay :
        \/ /\ CanCheckpoint(r, d)
           /\ msg' = [msg EXCEPT ![r] = Final(r)]
           /\ \/ /\ jr' = [jr EXCEPT ![r] = [Acknowledge(jr[r], jr[r].text) EXCEPT !.closed = TRUE]]
                 /\ pc' = [pc EXCEPT ![r] = "closing"]
                 /\ UNCHANGED <<close, lease>>
              \/ Cancelled(r) /\ jr' = jr
        \/ Raise(r) /\ UNCHANGED <<msg, jr>>
  BY DEF FinishTurn
<1>4. CASE Raise(r) /\ UNCHANGED <<msg, jr>>
  BY <1>1, <1>4, EscapeJournal
<1>5. CASE CanCheckpoint(r, d) /\ msg' = [msg EXCEPT ![r] = Final(r)]
  <2>1. /\ msg'[r].version = msg[r].version + 1 /\ msg'[r].status = s
        /\ msg'[r].text = jr[r].text /\ msg'[r].tools = jr[r].tools
        /\ \A q \in Req \ {r} : msg'[q] = msg[q]
    BY <1>1, <1>5 DEF Final, Message, s
  <2>2. /\ msg[r].status = "streaming" /\ msg[r].version = jr[r].version
        /\ run[T(r)].token = 1 /\ wrote[T(r)] = 1
        /\ msg[r].text <= jr[r].text /\ msg[r].tools <= jr[r].tools
        /\ shown[r] <= jr[r].tools /\ jr[r].text = Capped(sent[r]) /\ lease[r] = 1
    BY <1>1, <1>5, Allowed
  <2>3. /\ jr[r].text \in Nat /\ msg[r].text \in Nat
        /\ jr[r].tools \in Nat /\ msg[r].tools \in Nat
    BY Numbers DEF LedgerState
  <2>4. s = "complete" => shown[r] = jr[r].tools
    BY <1>1, <1>2 DEF JournalOK, HeldOK, Generating
  <2>5. ASSUME OthersWait(r), lease'[r] = lease[r], pc'[r] \in {"abort", "closing"},
               jr'[r].text = jr[r].text, jr'[r].tools = jr[r].tools, ~jr'[r].saving,
               \A q \in Req \ {r} : jr'[q] = jr[q]
        PROVE  Kept
    <3>1. HeldOK(r)'
      BY <1>1, <2>1, <2>2, <2>3, <2>5 DEF HeldOK, Generating
    <3>2. RowOK(r)'
      BY <1>1, <2>1, <2>2, <2>4, <2>5 DEF RowOK, Generating
    <3>3. KnownOK(r)' /\ SnapOK(r)'
      BY <2>5 DEF KnownOK, SnapOK, Generating
    <3>4. pc'[r] \notin Closer
      BY <2>5 DEF Closer
    <3> QED BY <1>1, <2>1, <2>2, <2>3, <2>5, <3>1, <3>2, <3>3, <3>4, WriteJournal
  <2>6. CASE /\ jr' = [jr EXCEPT ![r] = [Acknowledge(jr[r], jr[r].text) EXCEPT !.closed = TRUE]]
             /\ pc' = [pc EXCEPT ![r] = "closing"]
             /\ UNCHANGED <<close, lease>>
    <3>1. /\ jr'[r] = [Acknowledge(jr[r], jr[r].text) EXCEPT !.closed = TRUE]
          /\ \A q \in Req \ {r} : jr'[q] = jr[q]
      BY <1>1, <2>6
    <3>2. /\ jr'[r].text = jr[r].text /\ jr'[r].tools = jr[r].tools
          /\ jr'[r].saving = jr[r].saving
      BY <1>1, <3>1 DEF Acknowledge, Journal
    <3>3. pc'[r] = "closing" /\ OthersWait(r)
      BY <1>1, <2>6 DEF OthersWait
    <3> QED BY <1>1, <2>5, <2>6, <3>1, <3>2, <3>3
  <2>7. CASE Cancelled(r) /\ jr' = jr
    <3>1. OthersWait(r) /\ lease'[r] = lease[r] /\ pc'[r] \in {"abort", "closing"}
      BY <1>1, <2>7, CancelledExecutor
    <3> QED BY <1>1, <2>5, <2>7, <3>1
  <2> QED BY <1>3, <1>4, <2>6, <2>7
<1> QED BY <1>3, <1>4, <1>5

\* The transcript pair appears, empty, before anything is streamed.
LEMMA PrepareJournal ==
  ASSUME LedgerState, NEW r \in Req, NEW cut \in BOOLEAN, Prepare(r, cut)
  PROVE  Kept
<1> DEFINE t == T(r)
<1>1. /\ jr \in [Req -> Journal] /\ msg \in [Req -> Message] /\ pc \in [Proc -> PC]
      /\ close \in [Proc -> Closing] /\ wrote \in [Turn -> Nat] /\ lease \in [Req -> Nat]
      /\ r \in Proc /\ t \in Turn /\ JournalOK(r) /\ OwnerOK(r) /\ BoundOK(r)
      /\ pc[r] = "prepare" /\ UNCHANGED <<req, sent, shown>>
  BY Typed DEF LedgerState, TypeInv, DataType, RestType, ControlType, JournalInv, LedgerInv, Prepare
<1>2. wrote[t] = 0 /\ lease[r] = 1 /\ sent[r] = 0 /\ shown[r] = 0 /\ ~jr[r].saving
  BY <1>1 DEF OwnerOK, JournalOK, FreshOK, SnapOK, Executing, Holding, Streaming
<1>3. \/ Raise(r) /\ UNCHANGED <<msg, jr, wrote>>
      \/ \E c :
           /\ run[t].msg = None
           /\ msg' = [msg EXCEPT ![r] = [conv |-> c, status |-> "streaming",
                                         version |-> 1, text |-> 0, tools |-> 0]]
           /\ wrote' = [wrote EXCEPT ![t] = @ + 1]
           /\ \/ /\ jr' = [jr EXCEPT ![r] = NewJournal(1)]
                 /\ pc' = [pc EXCEPT ![r] = "open"]
                 /\ UNCHANGED <<close, lease>>
              \/ Cancelled(r) /\ jr' = jr
  BY DEF Prepare
<1>4. CASE Raise(r) /\ UNCHANGED <<msg, jr, wrote>>
  BY <1>1, <1>4, EscapeJournal
<1>5. ASSUME NEW c, run[t].msg = None,
             msg' = [msg EXCEPT ![r] = [conv |-> c, status |-> "streaming",
                                        version |-> 1, text |-> 0, tools |-> 0]],
             wrote' = [wrote EXCEPT ![t] = @ + 1],
             \/ /\ jr' = [jr EXCEPT ![r] = NewJournal(1)]
                /\ pc' = [pc EXCEPT ![r] = "open"]
                /\ UNCHANGED <<close, lease>>
             \/ Cancelled(r) /\ jr' = jr
      PROVE  Kept
  <2>1. /\ msg[r].status = "absent" /\ wrote'[t] = 1 /\ T(r)' = t
        /\ msg'[r].status = "streaming" /\ msg'[r].version = 1
        /\ msg'[r].text = 0 /\ msg'[r].tools = 0
        /\ \A q \in Req \ {r} : msg'[q] = msg[q]
        /\ \A u \in Turn : wrote'[u] = 0 => wrote[u] = 0
        /\ \A u \in Turn : wrote[u] = 1 => wrote'[u] = 1
    BY <1>1, <1>2, <1>5, Typed DEF BoundOK, T, LedgerState
  <2>2. OthersWait(r) /\ lease'[r] = 1
    BY <1>1, <1>2, <1>5, RaiseJournal DEF OthersWait, Cancelled
  <2>3. \A q \in Req \ {r} : jr'[q] = jr[q]
    BY <1>1, <1>5
  <2>4. ASSUME NEW q \in Req \ {r} PROVE Stays(q)
    <3>1. q \in Proc /\ T(q) \in Turn /\ T(q)' = T(q)
      BY <1>1, Typed DEF T, LedgerState
    <3> QED BY <1>1, <2>1, <2>2, <2>3, <2>4, <3>1
            DEF Stays, OthersWait, PlaceStays, TextStays, RowStays
  <2>5. ASSUME NEW q \in Req PROVE Grows(q)
    <3>1. CASE q = r
      BY <1>2, <3>1 DEF Grows
    <3>2. CASE q # r
      <4>1. RowStays(q) /\ T(q) \in Turn
        BY <2>4, <3>2, Typed DEF Stays, LedgerState
      <4> QED BY <2>1, <4>1, StaysGrows
    <3> QED BY <3>1, <3>2
  <2>6. FreshOK(r)' /\ ContentKept(r)
    BY <2>1 DEF FreshOK, ContentKept, Present
  <2>7. HeldOK(r)' /\ KnownOK(r)' /\ SnapOK(r)' /\ (pc'[r] \in Closer => SeenOK(r)')
    <3>1. CASE jr' = [jr EXCEPT ![r] = NewJournal(1)] /\ pc' = [pc EXCEPT ![r] = "open"]
      <4>1. /\ jr'[r].version = 1 /\ jr'[r].text = 0 /\ jr'[r].tools = 0 /\ ~jr'[r].saving
            /\ pc'[r] = "open"
        BY <1>1, <3>1 DEF NewJournal
      <4>2. Capped(0) = 0
        BY LedgerAssumption DEF Capped
      <4> QED BY <1>1, <1>2, <2>1, <2>2, <4>1, <4>2 DEF HeldOK, KnownOK, SnapOK, Closer
    <3>2. CASE Cancelled(r) /\ jr' = jr
      <4>1. pc'[r] = "load" /\ SeenOK(r)'
        BY <1>1, <3>2, RaiseJournal DEF Cancelled, Claiming, Closer, Streaming
      <4> QED BY <1>2, <3>2, <4>1 DEF HeldOK, KnownOK, SnapOK, Holding, Streaming, Generating
    <3> QED BY <1>5, <3>1, <3>2
  <2>8. RowOK(r)'
    <3>1. shown'[r] <= msg'[r].tools
      BY <1>1, <1>2, <2>1
    <3>2. pc'[r] # "show"
      BY <1>1, <1>5 DEF Cancelled, Claiming, Closer, Streaming
    <3> QED BY <2>1, <3>1, <3>2 DEF RowOK
  <2> QED BY <1>1, <2>2, <2>4, <2>5, <2>6, <2>7, <2>8, OneActs DEF JournalOK
<1> QED BY <1>3, <1>4, <1>5

\* A closing settles the receipt, with the row as it was read.
LEMMA CloseTurnJournal ==
  ASSUME LedgerState, NEW p \in Proc, CloseTurn(p)
  PROVE  Kept
<1>1. /\ pc \in [Proc -> PC] /\ close \in [Proc -> Closing] /\ msg \in [Req -> Message]
      /\ pc[p] = "close" /\ SeenOK(p)
      /\ close[p].as \in Terminal /\ close[p].back \in {"sweep", "settle", "done"}
      /\ UNCHANGED <<req, sent, shown, wrote, jr>>
  BY DEF LedgerState, TypeInv, DataType, ControlType, JournalInv, CloseTurn, Closer, Closing, history
<1>2. PICK m : m = close[p].mid
  OBVIOUS
<1>3. \/ Raise(p) /\ msg' = msg
      \/ /\ Return(p) /\ lease' = lease /\ Unmoved(p)
         /\ msg' = IF Live(p) THEN [msg EXCEPT ![m] = Closed(p, close[p].as)] ELSE msg
  BY <1>2 DEF CloseTurn, CanClose, database
<1>4. CASE Raise(p) /\ msg' = msg
  BY <1>1, <1>4, EscapeJournal
<1>5. CASE /\ Return(p) /\ lease' = lease /\ Unmoved(p)
           /\ msg' = IF Live(p) THEN [msg EXCEPT ![m] = Closed(p, close[p].as)] ELSE msg
  <2>1. OthersWait(p) /\ pc'[p] \in {"sweep", "settle", "done"}
    BY <1>1, <1>5 DEF Return, OthersWait
  <2>2. ASSUME NEW q \in Req PROVE RowStays(q)
    <3>1. CASE ~Live(p)
      BY <1>5, <3>1 DEF RowStays
    <3>2. CASE Live(p) /\ q = m
      <4>1. /\ msg[m].status = "streaming"
            /\ close[p].seen.text = msg[m].text /\ close[p].seen.tools = msg[m].tools
        BY <1>1, <1>2, <1>5, <3>2 DEF SeenOK, Live, Unmoved
      <4>2. msg'[m] = Closed(p, close[p].as)
        BY <1>1, <1>5, <3>2
      <4>3. /\ msg'[m].status = close[p].as
            /\ msg'[m].text = close[p].seen.text /\ msg'[m].tools = close[p].seen.tools
        BY <1>1, <1>2, <3>2, <4>2 DEF Closed, Message
      <4>4. close[p].as \in {"error", "aborted"}
        BY <1>1 DEF SeenOK, Terminal
      <4> QED BY <3>2, <4>1, <4>3, <4>4 DEF RowStays
    <3>3. CASE Live(p) /\ q # m
      BY <1>1, <1>5, <3>3 DEF RowStays
    <3> QED BY <3>1, <3>2, <3>3
  <2>3. ASSUME NEW q \in Req PROVE Stays(q)
    <3>1. PlaceStays(q)
      BY <1>1, <1>5, <2>1 DEF PlaceStays, OthersWait, Holding, Streaming, Proc
    <3> QED BY <1>1, <2>2, <3>1 DEF Stays, TextStays, T
  <2>4. \A q \in Req : Grows(q) /\ JournalOK(q)' /\ ContentKept(q)
    BY <1>1, <2>2, <2>3, StaysGrows, StaysInv, StaysContent DEF LedgerState, JournalInv
  <2> QED BY <1>1, <2>1, <2>3, <2>4, OneActs DEF Closer
<1> QED BY <1>3, <1>4, <1>5

\* A step that no executor makes, and that moves no closer.
LEMMA AllStay ==
  ASSUME LedgerState, req' = req, \A r \in Req : Stays(r),
         \A r \in Req : wrote[T(r)] = 1 => wrote'[T(r)] = 1,
         \A p \in Proc : pc'[p] \in Closer => pc'[p] = pc[p] /\ close'[p] = close[p]
  PROVE  Kept
<1>1. \A r \in Req : JournalOK(r)' /\ ContentKept(r) /\ Grows(r)
  BY StaysInv, StaysContent, StaysGrows DEF LedgerState, JournalInv, Stays
<1>2. ASSUME NEW p \in Proc, pc'[p] \in Closer PROVE SeenOK(p)'
  BY <1>1, <1>2, SeenStays DEF LedgerState, JournalInv
<1> QED BY <1>1, <1>2 DEF Kept, JournalInv

\* A conversation is deleted, time passes, a sweep is called, or nothing happens.
LEMMA AroundJournal ==
  ASSUME LedgerState, (\E c \in Conv : DeleteConversation(c)) \/ Tick \/ Visit \/ Restart
                      \/ UNCHANGED vars
  PROVE  Kept
<1>1. /\ UNCHANGED <<req, sent, shown, wrote, jr, lease, close>>
      /\ pc' = pc \/ pc' = [pc EXCEPT ![Sweeper] = "sweep"]
      /\ pc \in [Proc -> PC]
  BY DEF DeleteConversation, Tick, Visit, Restart, vars, database, memory, history, LedgerState, TypeInv,
     ControlType
<1>2. ASSUME NEW r \in Req PROVE msg'[r] = msg[r] \/ msg'[r].status = "absent"
  <2>1. CASE msg' = msg
    BY <2>1
  <2>2. CASE \E c \in Conv : DeleteConversation(c)
    <3>1. PICK c : msg' = [q \in Req |-> IF msg[q].conv = c THEN NoMsg ELSE msg[q]]
      BY <2>2 DEF DeleteConversation
    <3> QED BY <3>1 DEF NoMsg
  <2> QED BY <2>1, <2>2 DEF Tick, Visit, Restart, vars, database
<1>3. \A r \in Req : pc'[r] = pc[r]
  BY <1>1, LedgerAssumption DEF Proc
<1>4. \A r \in Req : Stays(r)
  BY <1>1, <1>2, <1>3 DEF Stays, PlaceStays, TextStays, RowStays, T
<1>5. \A p \in Proc : pc'[p] \in Closer => pc'[p] = pc[p]
  BY <1>1 DEF Closer
<1> QED BY <1>1, <1>4, <1>5, AllStay

\* The process dies: the journals are lost, the rows stay.
LEMMA CrashJournal ==
  ASSUME LedgerState, Crash
  PROVE  Kept
<1>1. /\ UNCHANGED <<msg, req, sent, shown, wrote>>
      /\ \A p \in Proc : pc'[p] \in {"idle", "done"}
      /\ \A r \in Req : ~jr'[r].saving /\ r \in Proc
  BY DEF Crash, database, history, NewJournal, Proc
<1>2. \A r \in Req : Stays(r)
  BY <1>1 DEF Stays, PlaceStays, TextStays, RowStays, T, Holding, Streaming
<1> QED BY <1>1, <1>2, AllStay DEF Closer

-----------------------------------------------------------------------------
\* Every step of the ledger keeps the invariant of its content.
LEMMA StepJournal ==
  ASSUME LedgerState, [Next]_vars
  PROVE  Kept
<1>1. ASSUME NEW r \in Req, Arrive(r) \/ Claim(r) PROVE Kept
  BY <1>1, ClaimJournal DEF Claim
<1>2. ASSUME NEW r \in Req, NEW cut \in BOOLEAN,
             OpenJournal(r, cut) \/ BindProvider(r, cut) \/ SaveToolResult(r, cut)
      PROVE  Kept
  BY <1>2, CheckpointJournal DEF OpenJournal, BindProvider, SaveToolResult
<1>3. ASSUME NEW r \in Req, Execute(r) PROVE Kept
  BY <1>2, <1>3, PrepareJournal, MovesJournal, ShowToolResultJournal, FinishTurnJournal DEF Execute
<1>4. ASSUME NEW r \in Req, Generate(r) \/ ProviderError(r) PROVE Kept
  <2>1. CASE NoticeLostLease(r) \/ ProviderError(r)
    <3>1. Raise(r) /\ UNCHANGED <<msg, req, sent, shown, wrote, jr>> /\ r \in Proc
      BY <2>1 DEF NoticeLostLease, ProviderError, database, history, Proc
    <3> QED BY <3>1, EscapeJournal
  <2> QED BY <1>4, <2>1, StreamTextJournal, ToolResultJournal, MovesJournal DEF Generate
<1>5. ASSUME NEW r \in Req, CutShort(r) PROVE Kept
  <2>1. CASE Disconnect(r)
    <3>1. Cancelled(r) /\ UNCHANGED <<msg, req, sent, shown, wrote, jr>> /\ r \in Proc
      BY <2>1 DEF Disconnect, database, history, Proc
    <3> QED BY <3>1, EscapeJournal
  <2> QED BY <1>2, <1>5, <2>1, ClaimJournal, PrepareJournal, FinishTurnJournal DEF CutShort
<1>6. ASSUME NEW p \in Proc, Sweep(p) \/ StorageError(p) PROVE Kept
  <2>1. CASE StorageError(p)
    BY <2>1, EscapeJournal DEF StorageError, database, history
  <2>2. CASE SweepDone(p)
    BY <2>2, ReturnJournal DEF SweepDone, database, memory, history
  <2> QED BY <1>6, <2>1, <2>2, SweepNextJournal, LoadJournal, CloseTurnJournal DEF Sweep
<1>7. ASSUME NEW r \in Req, Maintain(r) \/ MaintenanceError(r) PROVE Kept
  BY <1>7, MaintainJournal, TakeSnapshotJournal, SaveSnapshotJournal DEF Maintain
<1> QED BY <1>1, <1>3, <1>4, <1>5, <1>6, <1>7, AroundJournal, CrashJournal DEF Next

\* The invariant holds of an empty ledger.
LEMMA InitJournal == Init => JournalInv
<1> SUFFICES ASSUME Init PROVE JournalInv
  OBVIOUS
<1>1. ASSUME NEW r \in Req PROVE JournalOK(r)
  <2>1. /\ pc[r] = "idle" /\ msg[r].status = "absent" /\ ~jr[r].saving
        /\ sent[r] = 0 /\ shown[r] = 0
    BY DEF Init, Proc, NoMsg, NewJournal
  <2> QED BY <2>1 DEF JournalOK, FreshOK, HeldOK, RowOK, KnownOK, SnapOK, Holding, Streaming,
             Generating, Present
<1>2. \A p \in Proc : pc[p] \notin Closer
  BY DEF Init, Closer
<1> QED BY <1>1, <1>2 DEF JournalInv

\* The invariant holds in every state the ledger reaches.
LEMMA JournalCorrect == Spec => []LedgerState
<1>1. LedgerState /\ [Next]_vars => LedgerState'
  BY StepType, LedgerStep, StepJournal DEF LedgerState, Kept
<1>2. Init => LedgerState
  BY InitType, InitLedger, InitJournal DEF LedgerState
<1> QED BY <1>1, <1>2, PTL DEF Spec

\* A tool result the client has seen is in the transcript row, whatever
\* crashes, is cut off or is closed by a sweep afterwards.
THEOREM ShownStaysDurable == Spec => []ShownIsDurable
<1>1. LedgerState => ShownIsDurable
  BY DEF LedgerState, JournalInv, JournalOK, RowOK, Present, ShownIsDurable
<1> QED BY <1>1, JournalCorrect, PTL

\* A turn that completed took in every tool result its client received, and has in
\* its row every delta up to the cap: nothing but the cap ever shortens a reply.
THEOREM CompletedWhole == Spec => []CompleteIsWhole
<1>1. LedgerState => CompleteIsWhole
  BY DEF LedgerState, JournalInv, JournalOK, RowOK, Present, CompleteIsWhole, Capped
<1> QED BY <1>1, JournalCorrect, PTL

\* A journal that believes it is clean has nothing unsaved: a checkpoint does
\* not acknowledge the text that arrived while it was being written.
THEOREM CleanIsSaved == Spec => []JournalInSync
<1>1. LedgerState => JournalInSync
  BY DEF LedgerState, JournalInv, JournalOK, KnownOK, Generating, JournalInSync
<1> QED BY <1>1, JournalCorrect, PTL

\* The content of a row never shrinks, and once the turn is fenced no executor
\* adds to it: closing an expired turn keeps what was saved.
THEOREM OnlyTheLeaseWrites == Spec => ContentUnderLease
<1>1. LedgerState /\ [Next]_vars =>
        [\A r \in Req : msg[r].status # "absent" /\ msg'[r].status # "absent" =>
           /\ msg'[r].text >= msg[r].text /\ msg'[r].tools >= msg[r].tools
           /\ run[T(r)].token # 1 => /\ msg'[r].text = msg[r].text
                                     /\ msg'[r].tools = msg[r].tools]_vars
  BY StepJournal DEF Kept, ContentKept, Present
<1> QED BY <1>1, JournalCorrect, PTL DEF Spec, ContentUnderLease

=============================================================================
