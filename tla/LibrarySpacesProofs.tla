------------------------ MODULE LibrarySpacesProofs ------------------------
(***************************************************************************)
(* Every property of LibrarySpaces, for every library, every plan and any  *)
(* number of tabs.                                                         *)
(*                                                                         *)
(* That a batch happens once rests on what a request knows between its     *)
(* steps (OnceInv): answers already given are the receipt's, a record      *)
(* under way has a receipt, and one about to be claimed was not in the     *)
(* part of the conversation that was read.                                 *)
(*                                                                         *)
(* The rest is about versions (LibInv): what a draft, a scan or a request  *)
(* has seen of a Site or a Space, however long ago, is what is there as    *)
(* long as the version is the one it saw.                                  *)
(***************************************************************************)
EXTENDS LibrarySpaces, FiniteSetTheorems, TLAPS

Message == [says : {"draft", "done"}, op : Op \cup {None}]

\* A request is a record with the fields its handler reads later.
BatchShape(r) ==
    /\ r.op \in Op
    /\ r = [do |-> "batch", op |-> r.op, at |-> r.at, fresh |-> r.fresh, missing |-> r.missing, next |-> r.next]
NoteShape(r) ==
    /\ r.op \in Op /\ r.count \in Nat
    /\ r = [do |-> "note", op |-> r.op, at |-> r.at, count |-> r.count]
Shapes ==
    /\ req = [t \in Tab |-> req[t]]
    /\ \A t \in Tab : /\ req[t].do = "batch" => BatchShape(req[t])
                      /\ req[t].do = "note" => NoteShape(req[t])

Rows ==
    /\ receipt \in [Op -> (SUBSET Site) \cup {None}]
    /\ told \in [Op -> SUBSET SUBSET Site]
    /\ talk \in Seq(Message)

\* Nothing was answered without a receipt, and nothing but the receipt.
AnswersAreReceipts == \A o \in Op : IF receipt[o] = None THEN told[o] = {} ELSE told[o] \subseteq {receipt[o]}

\* What a record under way relies on, at r.
NoteKnows(r) ==
    r.do = "note" =>
      /\ r.at \in {"append", "claim"} => receipt[r.op] # None
      /\ r.at = "claim" => r.count <= Len(talk) /\ \A i \in 1 .. r.count : talk[i] # Note(r.op)
NotesKnow == \A t \in Tab : NoteKnows(req[t])

OnceInv == Shapes /\ Rows /\ AnswersAreReceipts /\ NotesKnow

-----------------------------------------------------------------------------
\* Steps that touch neither a request nor a batch.
LEMMA Elsewhere ==
    ASSUME OnceInv, UNCHANGED <<talk, receipt, told, req>>
    PROVE  OnceInv' /\ OnceStep
BY DEF OnceInv, Shapes, Rows, AnswersAreReceipts, NotesKnow, NoteKnows, OnceStep, BatchShape, NoteShape, Note

\* Steps of one request that change neither a receipt nor the conversation.
LEMMA Moves ==
    ASSUME OnceInv, NEW t \in Tab, NEW r,
           r.do = "batch" => BatchShape(r), r.do = "note" => NoteShape(r) /\ NoteKnows(r),
           req' = [req EXCEPT ![t] = r], UNCHANGED <<talk, receipt, told>>,
           req[t] = Idle \/ req[t].do # "batch" \/ space' = space
    PROVE  OnceInv' /\ OnceStep
<1>1. \A u \in Tab : req'[u] = IF u = t THEN r ELSE req[u]
  BY DEF OnceInv, Shapes
<1>2. Shapes'
  BY <1>1 DEF OnceInv, Shapes, BatchShape, NoteShape
<1>3. NotesKnow'
  BY <1>1 DEF OnceInv, NotesKnow, NoteKnows, Note
<1>4. Rows' /\ AnswersAreReceipts'
  BY DEF OnceInv, Rows, AnswersAreReceipts
<1>5. OnceStep
  BY <1>1 DEF OnceInv, Rows, AnswersAreReceipts, OnceStep
<1> QED BY <1>2, <1>3, <1>4, <1>5 DEF OnceInv

LEMMA Finishes ==
    ASSUME OnceInv, NEW t \in Tab, Finish(t), UNCHANGED <<talk, receipt, told>>,
           req[t].do # "batch" \/ space' = space
    PROVE  OnceInv' /\ OnceStep
<1>1. Idle.do \notin {"batch", "note"}
  BY DEF Idle
<1> QED BY <1>1, Moves DEF Finish

\* The answer S to a batch request, stored now or before.
LEMMA Answers ==
    ASSUME OnceInv, NEW t \in Tab, NEW S \in SUBSET Site, NEW o \in Op,
           req[t].do = "batch", req[t].op = o, Finish(t),
           \/ receipt[o] = None
           \/ receipt[o] = S /\ space' = space,
           receipt' = [receipt EXCEPT ![o] = S], told' = [told EXCEPT ![o] = @ \cup {S}],
           UNCHANGED talk
    PROVE  OnceInv' /\ OnceStep
<1>1. \A u \in Tab : req'[u] = IF u = t THEN Idle ELSE req[u]
  BY DEF OnceInv, Shapes, Finish
<1>2. S # None
  BY NoneAssumption
<1>3. \A q \in Op : /\ receipt'[q] = IF q = o THEN S ELSE receipt[q]
                    /\ told'[q] = IF q = o THEN told[q] \cup {S} ELSE told[q]
  BY DEF OnceInv, Rows
<1>4. Idle.do = "idle"
  BY DEF Idle
<1>5. Shapes'
  BY <1>1, <1>4 DEF OnceInv, Shapes, BatchShape, NoteShape, Finish
<1>6. NotesKnow'
  <2> SUFFICES ASSUME NEW u \in Tab PROVE NoteKnows(req[u])'
    BY DEF NotesKnow
  <2>1. CASE u = t
    BY <1>1, <1>4, <2>1 DEF NoteKnows
  <2>2. CASE u # t
    BY <1>1, <1>2, <1>3, <2>2 DEF OnceInv, Shapes, NoteShape, NotesKnow, NoteKnows, Note
  <2> QED BY <2>1, <2>2
<1>7. Rows'
  BY DEF OnceInv, Rows
<1>8. AnswersAreReceipts'
  BY <1>2, <1>3 DEF OnceInv, AnswersAreReceipts
<1>9. OnceStep
  BY <1>1, <1>2, <1>3 DEF OnceInv, AnswersAreReceipts, OnceStep
<1> QED BY <1>5, <1>6, <1>7, <1>8, <1>9 DEF OnceInv

\* One more entry of the conversation.
LEMMA Says ==
    ASSUME OnceInv, NEW m \in Message, talk' = Append(talk, m),
           m.says = "done" => receipt[m.op] # None /\ ~Noted(m.op),
           UNCHANGED <<receipt, told, space>>,
           req' = req \/ \E t \in Tab : Finish(t)
    PROVE  OnceInv' /\ OnceStep
<1>1. \A u \in Tab : req'[u] \in {Idle, req[u]}
  BY DEF OnceInv, Shapes, Finish
<1>2. Idle.do = "idle"
  BY DEF Idle
<1>3. Shapes'
  BY <1>1, <1>2 DEF OnceInv, Shapes, BatchShape, NoteShape, Finish
<1>4. /\ talk' \in Seq(Message) /\ Len(talk') = Len(talk) + 1
      /\ talk'[Len(talk')] = m /\ \A i \in 1 .. Len(talk) : talk'[i] = talk[i]
  BY DEF OnceInv, Rows
<1>5. NotesKnow'
  <2> SUFFICES ASSUME NEW u \in Tab PROVE NoteKnows(req[u])'
    BY DEF NotesKnow
  <2>1. CASE req'[u] = Idle
    BY <1>2, <2>1 DEF NoteKnows
  <2>2. CASE req'[u] = req[u]
    BY <1>4, <2>2 DEF OnceInv, Rows, Shapes, NoteShape, NotesKnow, NoteKnows, Note
  <2> QED BY <1>1, <2>1, <2>2
<1>6. Rows' /\ AnswersAreReceipts'
  BY <1>4 DEF OnceInv, Rows, AnswersAreReceipts
<1>7. OnceStep
  BY <1>4 DEF OnceInv, Rows, AnswersAreReceipts, OnceStep
<1> QED BY <1>3, <1>5, <1>6, <1>7 DEF OnceInv
-----------------------------------------------------------------------------
LEMMA InitOnce == Init => OnceInv
<1> SUFFICES ASSUME Init PROVE OnceInv
  OBVIOUS
<1>1. Shapes /\ NotesKnow
  BY DEF Init, Shapes, NotesKnow, NoteKnows, Idle
<1>2. Rows
  <2>1. Proposed \in Seq(Op) /\ DOMAIN Proposed = 1 .. Len(Proposed) /\ Len(Proposed) \in Nat
    BY LibraryAssumption
  <2>2. \A i \in 1 .. Len(Proposed) : State(Proposed[i], TRUE) \in Message
    BY <2>1 DEF State, Message
  <2>3. talk \in Seq(Message)
    <3>1. talk \in [1 .. Len(Proposed) -> Message]
      BY <2>1, <2>2 DEF Init
    <3> QED BY <2>1, <3>1
  <2> QED BY <2>3 DEF Init, Rows
<1>3. AnswersAreReceipts
  BY DEF Init, AnswersAreReceipts
<1> QED BY <1>1, <1>2, <1>3 DEF OnceInv

\* What a tab asks.
LEMMA AsksOnce ==
    ASSUME OnceInv, NEW t \in Tab, Asks(t)
    PROVE  OnceInv' /\ OnceStep
<1>1. ASSUME NEW r, Ask(t, r), UNCHANGED <<library, space, drafts, batches>>,
             r.do = "batch" => BatchShape(r), r.do = "note" => NoteShape(r) /\ NoteKnows(r)
      PROVE  OnceInv' /\ OnceStep
  BY <1>1, Moves DEF Ask, drafts, batches
<1>2. CASE \E S \in SUBSET Sites \ {{}} : AskDelete(t, S)
  BY <1>1, <1>2 DEF AskDelete
<1>3. CASE AskMerge(t)
  BY <1>1, <1>3 DEF AskMerge
<1>4. CASE AskReclassify(t)
  BY <1>1, <1>4 DEF AskReclassify
<1>5. CASE \E s \in Sites : AskEnrich(t, s)
  BY <1>1, <1>5 DEF AskEnrich
<1>6. CASE \E p \in Spaces, s \in Site, do \in {"add", "remove", "reorder", "rename", "close"} : AskSpace(t, p, do, s)
  <2> PICK p \in Spaces, s \in Site, do \in {"add", "remove", "reorder", "rename", "close"} : AskSpace(t, p, do, s)
    BY <1>6
  <2> QED BY <1>1 DEF AskSpace
<1>7. CASE \E o \in Op : AskBatch(t, o)
  BY <1>1, <1>7 DEF AskBatch, BatchShape
<1>8. CASE \E o \in Op : AskNote(t, o)
  <2> PICK o \in Op : AskNote(t, o)
    BY <1>8
  <2> QED BY <1>1 DEF AskNote, NoteShape, NoteKnows
<1> QED BY <1>2, <1>3, <1>4, <1>5, <1>6, <1>7, <1>8 DEF Asks

\* A field of a request changes, the others stay.
LEMMA BatchFields ==
    ASSUME NEW r, BatchShape(r), NEW a, NEW f, NEW S, NEW n
    PROVE  /\ BatchShape([r EXCEPT !.at = a, !.fresh = f])
           /\ BatchShape([r EXCEPT !.missing = S, !.next = n, !.at = a])
<1> DEFINE x == [r EXCEPT !.at = a]
           y == [r EXCEPT !.missing = S]
           z == [y EXCEPT !.next = n]
<1>1. BatchShape(x)
  BY DEF BatchShape
<1>2. BatchShape(y)
  BY DEF BatchShape
<1>3. [r EXCEPT !.at = a, !.fresh = f] = [x EXCEPT !.fresh = f]
  OBVIOUS
<1>4. [r EXCEPT !.missing = S, !.next = n, !.at = a] = [z EXCEPT !.at = a]
  OBVIOUS
<1> HIDE DEF x, y
<1>5. BatchShape(z)
  BY <1>2 DEF BatchShape
<1> HIDE DEF z
<1>6. BatchShape([z EXCEPT !.at = a])
  BY <1>5 DEF BatchShape
<1>7. BatchShape([x EXCEPT !.fresh = f])
  BY <1>1 DEF BatchShape
<1> QED BY <1>3, <1>4, <1>6, <1>7

\* The steps of a batch.
LEMMA BatchesOnce ==
    ASSUME OnceInv, NEW t \in Tab,
           \/ ReadReceipt(t) \/ ReadSpace(t) \/ ReadSites(t) \/ ReadMembers(t) \/ ReadReached(t)
           \/ WriteNew(t) \/ WriteInto(t) \/ KeepReceipt(t)
    PROVE  OnceInv' /\ OnceStep
<1> DEFINE o == req[t].op
<1>1. req[t].do = "batch" /\ BatchShape(req[t]) /\ o \in Op
  BY DEF ReadReceipt, ReadSpace, ReadSites, ReadMembers, ReadReached, WriteNew, WriteInto, KeepReceipt,
         AtBatch, OnceInv, Shapes, BatchShape
<1>2. ASSUME NEW w, Goes(t, w), UNCHANGED <<talk, space, batches>> PROVE OnceInv' /\ OnceStep
  <2>1. BatchShape([req[t] EXCEPT !.at = w]) /\ [req[t] EXCEPT !.at = w].do = "batch"
    BY <1>1 DEF BatchShape
  <2> QED BY <1>2, <2>1, Moves DEF Goes, batches
<1>3. ASSUME Finish(t), UNCHANGED <<talk, space, batches>> PROVE OnceInv' /\ OnceStep
  BY <1>3, Finishes DEF batches
<1>4. ASSUME Replay(t, o), UNCHANGED <<talk, space>> PROVE OnceInv' /\ OnceStep
  <2>1. receipt[o] \in SUBSET Site /\ receipt' = [receipt EXCEPT ![o] = receipt[o]]
    BY <1>1, <1>4 DEF Replay, OnceInv, Rows
  <2> QED BY <1>1, <1>4, <2>1, Answers DEF Replay
<1>5. CASE ReadReceipt(t)
  BY <1>1, <1>2, <1>3, <1>4, <1>5 DEF ReadReceipt, Quiet, drafts
<1>6. CASE ReadSpace(t)
  <2> DEFINE a == IF Of(o) \in Spaces THEN "again" ELSE IF Plan[o].create THEN "sites" ELSE "miss"
             f == Of(o) \in Spaces /\ space[Of(o)].ver = draft[o].ver
             r == [req[t] EXCEPT !.at = a, !.fresh = f]
  <2>1. req' = [req EXCEPT ![t] = r]
    BY <1>6 DEF ReadSpace
  <2>2. BatchShape(r) /\ r.do = "batch"
    <3> HIDE DEF a, f
    <3>1. BatchShape(r)
      BY <1>1, BatchFields
    <3> QED BY <3>1 DEF BatchShape
  <2> HIDE DEF r
  <2> QED BY <1>6, <2>1, <2>2, Moves DEF ReadSpace, Quiet, drafts, batches
<1>7. CASE ReadSites(t)
  BY <1>2, <1>7 DEF ReadSites, Quiet, drafts
<1>8. CASE ReadMembers(t)
  <2> DEFINE a == IF Plan[o].sites \ Members(Of(o)) = {} THEN "keep" ELSE IF req[t].fresh THEN "write" ELSE "conflict"
             r == [req[t] EXCEPT !.missing = Plan[o].sites \ Members(Of(o)), !.next = SpaceEnd(Of(o)), !.at = a]
  <2>1. req' = [req EXCEPT ![t] = r]
    BY <1>8 DEF ReadMembers
  <2>2. BatchShape(r) /\ r.do = "batch"
    <3> HIDE DEF a
    <3>1. BatchShape(r)
      BY <1>1, BatchFields
    <3> QED BY <3>1 DEF BatchShape
  <2> HIDE DEF r
  <2> QED BY <1>8, <2>1, <2>2, Moves DEF ReadMembers, Quiet, drafts, batches
<1>9. CASE ReadReached(t)
  BY <1>2, <1>3, <1>9 DEF ReadReached, Quiet, drafts
<1>10. ASSUME NEW row, NEW S \in SUBSET Site, Commits(t, row, S), receipt[o] = None PROVE OnceInv' /\ OnceStep
  BY <1>1, <1>10, Answers DEF Commits, Quiet, drafts
<1>11. ASSUME RollsBack(t) PROVE OnceInv' /\ OnceStep
  BY <1>2, <1>11 DEF RollsBack, Quiet, drafts
<1>12. CASE WriteNew(t)
  BY <1>1, <1>10, <1>11, <1>12, LibraryAssumption DEF WriteNew
<1>13. CASE WriteInto(t)
  <2>1. CASE Admits(Of(o), req[t].missing)
    <3>1. req[t].missing \in SUBSET Site
      BY <2>1 DEF Admits, Sites
    <3> QED BY <1>10, <1>11, <1>13, <3>1 DEF WriteInto
  <2>2. CASE ~Admits(Of(o), req[t].missing)
    BY <1>11, <1>13, <2>2 DEF WriteInto
  <2> QED BY <2>1, <2>2
<1>14. CASE KeepReceipt(t)
  BY <1>1, <1>4, <1>14, Answers DEF KeepReceipt, Quiet, drafts
<1> QED BY <1>5, <1>6, <1>7, <1>8, <1>9, <1>12, <1>13, <1>14

\* The steps of a record in the conversation.
LEMMA NotesOnce ==
    ASSUME OnceInv, NEW t \in Tab, CheckNote(t) \/ ReadTalk(t) \/ AppendNote(t)
    PROVE  OnceInv' /\ OnceStep
<1> DEFINE o == req[t].op
<1>1. req[t].do = "note" /\ NoteShape(req[t]) /\ NoteKnows(req[t]) /\ o \in Op
  BY DEF CheckNote, ReadTalk, AppendNote, OnceInv, Shapes, NotesKnow, NoteShape
<1>2. CASE CheckNote(t)
  <2> DEFINE r == [req[t] EXCEPT !.at = "append"]
  <2>1. NoteShape(r) /\ NoteKnows(r)
    BY <1>1, <1>2 DEF CheckNote, Confirmable, NoteShape, NoteKnows
  <2>2. r.do = "note"
    BY <1>1 DEF NoteShape
  <2> QED BY <1>1, <1>2, <2>1, <2>2, Moves DEF CheckNote, Goes, drafts, batches
<1>3. CASE ReadTalk(t)
  <2>1. CASE Noted(o)
    BY <1>1, <1>3, <2>1, Finishes DEF ReadTalk, drafts, batches
  <2>2. CASE ~Noted(o)
    <3> DEFINE n == Len(talk)
               x == [req[t] EXCEPT !.at = "claim"]
               r == [x EXCEPT !.count = n]
    <3>1. n \in Nat /\ DOMAIN talk = 1 .. n
      BY DEF OnceInv, Rows
    <3> HIDE DEF n
    <3>2. [req[t] EXCEPT !.at = "claim", !.count = n] = r
      OBVIOUS
    <3>3. NoteShape(x) /\ x.op = o
      BY <1>1 DEF NoteShape
    <3> HIDE DEF x
    <3>4. NoteShape(r) /\ r.op = o /\ r.count = n
      BY <3>1, <3>3 DEF NoteShape
    <3>5. receipt[o] # None
      BY <1>1, <1>3 DEF ReadTalk, NoteKnows
    <3> HIDE DEF r
    <3>6. r.do = "note"
      BY <3>4 DEF NoteShape
    <3>7. NoteKnows(r)
      BY <2>2, <3>1, <3>4, <3>5 DEF NoteKnows, Noted, n
    <3>8. req' = [req EXCEPT ![t] = r]
      BY <1>3, <2>2, <3>2 DEF ReadTalk, n
    <3> QED BY <1>1, <1>3, <3>4, <3>6, <3>7, <3>8, Moves DEF ReadTalk, drafts, batches
  <2> QED BY <2>1, <2>2
<1>4. CASE AppendNote(t)
  <2>1. CASE Len(talk) = req[t].count
    <3>1. DOMAIN talk = 1 .. Len(talk)
      BY DEF OnceInv, Rows
    <3>2. receipt[o] # None /\ ~Noted(o)
      BY <1>1, <1>4, <2>1, <3>1 DEF AppendNote, NoteKnows, Noted
    <3>3. Note(o) \in Message /\ Note(o).op = o
      BY <1>1 DEF Note, Message
    <3> QED BY <1>4, <2>1, <3>2, <3>3, Says DEF AppendNote, batches
  <2>2. CASE Len(talk) # req[t].count
    <3> DEFINE r == [req[t] EXCEPT !.at = "append"]
    <3>1. NoteShape(r) /\ NoteKnows(r) /\ r.do = "note"
      BY <1>1, <1>4 DEF AppendNote, NoteShape, NoteKnows
    <3> QED BY <1>1, <1>4, <2>2, <3>1, Moves DEF AppendNote, Goes, batches
  <2> QED BY <2>1, <2>2
<1> QED BY <1>2, <1>3, <1>4

\* Every other step of a request ends it.
LEMMA ServesOnce ==
    ASSUME OnceInv, NEW t \in Tab, Serves(t)
    PROVE  OnceInv' /\ OnceStep
<1>1. ASSUME Finish(t), UNCHANGED <<drafts, batches>>, req[t].do # "batch" \/ space' = space
      PROVE  OnceInv' /\ OnceStep
  BY <1>1, Finishes DEF drafts, batches
<1>2. CASE Delete(t)
  BY <1>1, <1>2 DEF Delete
<1>3. CASE Merge(t)
  BY <1>1, <1>3 DEF Merge
<1>4. CASE Reclassify(t)
  BY <1>1, <1>4 DEF Reclassify
<1>5. CASE \E c \in Category, T \in TagChoices : Enrich(t, c, T)
  BY <1>1, <1>5 DEF Enrich
<1>6. CASE AddMember(t) \/ RemoveMember(t) \/ ReorderMembers(t) \/ RenameSpace(t) \/ DeleteSpace(t)
  BY <1>1, <1>6 DEF AddMember, RemoveMember, ReorderMembers, RenameSpace, DeleteSpace, Changes
<1>7. CASE Refuse(t)
  BY <1>1, <1>7 DEF Refuse
<1> QED BY <1>2, <1>3, <1>4, <1>5, <1>6, <1>7, BatchesOnce, NotesOnce DEF Serves

\* What a tab does to the library in one step, and what the Agent proposes.
LEMMA EditsOnce ==
    ASSUME OnceInv, EditLibrary \/ Decisions
    PROVE  OnceInv' /\ OnceStep
<1>1. ASSUME UNCHANGED <<drafts, batches, req>> PROVE OnceInv' /\ OnceStep
  BY <1>1, Elsewhere DEF drafts, batches
<1>2. CASE EditLibrary
  <2>1. ASSUME NEW s, NEW k, NEW c, NEW T, CreateSite(s, k, c, T) PROVE OnceInv' /\ OnceStep
    BY <1>1, <2>1 DEF CreateSite
  <2>2. ASSUME NEW s, NEW k, NEW c, NEW T, ImportSite(s, k, c, T) PROVE OnceInv' /\ OnceStep
    BY <1>1, <2>2 DEF ImportSite
  <2>3. ASSUME NEW s, NEW c, NEW T, ImportInto(s, c, T) PROVE OnceInv' /\ OnceStep
    BY <1>1, <2>3 DEF ImportInto
  <2>4. ASSUME NEW s, EditSite(s) \/ Describe(s) PROVE OnceInv' /\ OnceStep
    BY <1>1, <2>4 DEF EditSite, Describe
  <2>5. ASSUME NEW s, ReorderSites(s) PROVE OnceInv' /\ OnceStep
    BY <1>1, <2>5 DEF ReorderSites
  <2>6. ASSUME NEW s, NEW T, TagSite(s, T) PROVE OnceInv' /\ OnceStep
    BY <1>1, <2>6 DEF TagSite
  <2>7. ASSUME NEW s, NEW c, MoveSite(s, c) PROVE OnceInv' /\ OnceStep
    BY <1>1, <2>7 DEF MoveSite
  <2>8. ASSUME NEW s, NEW k, ReaddressSite(s, k) PROVE OnceInv' /\ OnceStep
    BY <1>1, <2>8 DEF ReaddressSite
  <2>9. ASSUME NEW c, RenameCategory(c) PROVE OnceInv' /\ OnceStep
    BY <1>1, <2>9 DEF RenameCategory
  <2>10. ASSUME NEW c, DeleteCategory(c) PROVE OnceInv' /\ OnceStep
    BY <1>1, <2>10 DEF DeleteCategory
  <2>11. ASSUME NEW n, CreateName(n) PROVE OnceInv' /\ OnceStep
    BY <1>1, <2>11 DEF CreateName
  <2>12. ASSUME NEW g, RenameTag(g) PROVE OnceInv' /\ OnceStep
    BY <1>1, <2>12 DEF RenameTag
  <2>13. ASSUME NEW g, DeleteTag(g) PROVE OnceInv' /\ OnceStep
    BY <1>1, <2>13 DEF DeleteTag
  <2>14. ASSUME NEW p, CreateSpace(p) PROVE OnceInv' /\ OnceStep
    BY <1>1, <2>14 DEF CreateSpace
  <2> QED BY <1>2, <2>1, <2>2, <2>3, <2>4, <2>5, <2>6, <2>7,
             <2>8, <2>9, <2>10, <2>11, <2>12, <2>13, <2>14 DEF EditLibrary
<1>3. ASSUME NEW o \in Op, Propose(o) PROVE OnceInv' /\ OnceStep
  <2>1. State(o, Proposable(o)) \in Message /\ State(o, Proposable(o)).says = "draft"
    BY DEF State, Message
  <2> QED BY <1>3, <2>1, Says DEF Propose, batches
<1>4. CASE Decisions
  <2>1. ASSUME Scan PROVE OnceInv' /\ OnceStep
    BY <1>1, <2>1 DEF Scan
  <2>2. ASSUME Recommend PROVE OnceInv' /\ OnceStep
    BY <1>1, <2>2 DEF Recommend
  <2>3. ASSUME NEW g, NEW K, Decide(g, K) PROVE OnceInv' /\ OnceStep
    BY <1>1, <2>3 DEF Decide
  <2> QED BY <1>3, <1>4, <2>1, <2>2, <2>3 DEF Decisions
<1> QED BY <1>2, <1>4

LEMMA StepOnce == OnceInv /\ [Next]_vars => OnceInv' /\ [OnceStep]_vars
<1> SUFFICES ASSUME OnceInv, [Next]_vars PROVE OnceInv' /\ [OnceStep]_vars
  OBVIOUS
<1>1. CASE Next
  BY <1>1, EditsOnce, AsksOnce, ServesOnce DEF Next
<1>2. CASE UNCHANGED vars
  BY <1>2, Elsewhere DEF vars
<1> QED BY <1>1, <1>2

\* A Space batch is applied once and recorded once, whatever the library, the
\* drafts and the number of tabs that send it.
THEOREM BatchesHappenOnce == Spec => BatchOnce
BY InitOnce, StepOnce, PTL DEF Spec, BatchOnce

-----------------------------------------------------------------------------
(***************************************************************************)
(* The library.                                                            *)
(***************************************************************************)
LabelsOK == label \in [Category \cup Tag -> Int] /\ label[Default] > 0

\* The Sites that are there have their category, their tags and a place of their own.
SitesOK ==
    /\ site \in [Site -> SiteRows]
    /\ \A s \in Sites : site[s].cat \in Categories /\ site[s].tags \subseteq Tags
    /\ \A s, u \in Sites : s # u /\ site[s].cat = site[u].cat => site[s].pos # site[u].pos

\* A Space has each member once, at a place of its own.
SpacesOK ==
    /\ space \in [Space -> SpaceRows]
    /\ \A p \in Space : /\ space[p].row = "absent" => space[p].ver = 0
                        /\ p \notin Spaces => space[p].mem = {}
                        /\ \A m \in space[p].mem : m[1] \in Sites
                        /\ \A m, n \in space[p].mem : m[1] = n[1] \/ m[2] = n[2] => m = n

\* A Space that an operation makes was not there before its receipt.
MakesNew == \A o \in Op : Plan[o].create /\ receipt[o] = None => space[Of(o)].row = "absent"

\* A look at Space p, however old: at its version, only deleted Sites are missing.
LookOK(p, l) ==
    /\ l.ver \in Nat /\ l.ver <= space[p].ver
    /\ \A m \in l.mem : m[1] \in Site /\ site[m[1]].row # "absent"
    /\ p \in Spaces /\ space[p].ver = l.ver => space[p].mem = Since(l.mem)
DraftsOK ==
    /\ draft = [o \in Op |-> draft[o]]
    /\ \A o \in Op : draft[o] # None => LookOK(Of(o), draft[o])

\* Versions v and what was shown at them.
ShownOK(v, sh) ==
    /\ v = [s \in DOMAIN v |-> v[s]] /\ sh = [s \in DOMAIN v |-> sh[s]] /\ DOMAIN v \subseteq Site
    /\ \A s \in DOMAIN v : /\ site[s].row # "absent" /\ v[s] \in Nat /\ v[s] <= site[s].ver
                           /\ s \in Sites /\ v[s] = site[s].ver => sh[s] = Shown(s)

\* The groups of a scan are parts of what was scanned, without a Site in common.
RunShape ==
    /\ run = [id |-> run.id, status |-> run.status, ver |-> run.ver, kept |-> run.kept,
              groups |-> run.groups, print |-> run.print, shown |-> run.shown, texts |-> run.texts]
    /\ run.id \in Nat /\ run.ver \in Nat /\ run.status \in {"ready", "applied"}
    /\ run.kept \subseteq UNION run.groups
    /\ \A g \in run.groups : g # {} /\ g \subseteq DOMAIN run.print
    /\ \A g, h \in run.groups : g \cap h # {} => g = h
RunOK == RunShape /\ ShownOK(run.print, run.shown)

\* What a request in flight relies on.
Changing == {"add", "remove", "reorder", "rename", "close"}
ChangeOK(r) ==
    r.do \in Changing => /\ r.space \in Space /\ r.site \in Site /\ LookOK(r.space, r.seen)
                         /\ r.do = "add" => r.site \notin {m[1] : m \in r.seen.mem}
MergeOK(r) ==
    r.do = "merge" => /\ r.id \in Nat /\ r.ver \in Nat /\ r.id <= run.id
                      /\ r.id = run.id => r.ver <= run.ver /\ (r.ver = run.ver => r.kept = run.kept)
AnswerOK(r) ==
    /\ r.do = "reclassify" => ShownOK(r.versions, r.shown)
    /\ r.do = "enrich" => r.site \in Site /\ ShownOK([s \in {r.site} |-> r.snapshot.ver], r.shown)
BatchOK(r) ==
    r.do = "batch" =>
      /\ draft[r.op] # None
      /\ ~Plan[r.op].create /\ r.at = "write" =>
           /\ r.next \in Nat
           /\ Claims(Of(r.op), draft[r.op].ver) => \A m \in space[Of(r.op)].mem : m[2] < r.next
DeleteOK(r) == r.do = "delete" => DOMAIN r.versions \subseteq Site /\ \A p \in r.related : p \in Space /\ space[p].row # "absent"
ReqOK(r) == ChangeOK(r) /\ MergeOK(r) /\ AnswerOK(r) /\ BatchOK(r) /\ DeleteOK(r)
ReqsOK == \A t \in Tab : ReqOK(req[t])

LibInv == LabelsOK /\ SitesOK /\ SpacesOK /\ MakesNew /\ DraftsOK /\ RunOK /\ ReqsOK

-----------------------------------------------------------------------------
(* Finite sets: their ends, and how many elements come before one. *)
Smallest(x, T) == \A y \in T : y \subseteq x => y = x
LEMMA SmallestSet ==
    ASSUME NEW P, IsFiniteSet(P), NEW T, \A x \in T : x \subseteq P, T # {}
    PROVE  \E x \in T : Smallest(x, T)
<1> DEFINE R == StrictSubsetOrdering(P)
<1>1. T \subseteq FiniteSubsetsOf(P)
  BY FS_FiniteSubsetsOfFinite
<1>2. IsWellFoundedOn(R, FiniteSubsetsOf(P))
  BY FS_StrictSubsetOrderingWellFounded
<1> HIDE DEF R
<1>3. PICK x \in T : \A y \in T : <<y, x>> \notin R
  BY <1>1, <1>2, WFMin
<1>4. ASSUME NEW y \in T, y \subseteq x, y # x PROVE <<y, x>> \in R
  BY <1>4 DEF R, StrictSubsetOrdering
<1>5. Smallest(x, T)
  BY <1>3, <1>4 DEF Smallest
<1> QED BY <1>5

LEMMA MaxExists ==
    ASSUME NEW P \in SUBSET Int, IsFiniteSet(P), P # {}
    PROVE  \E m \in P : \A n \in P : n <= m
<1> DEFINE U(m) == {n \in P : m <= n}
           T == {U(m) : m \in P}
<1>1. T # {} /\ \A x \in T : x \subseteq P
  OBVIOUS
<1>2. PICK x \in T : Smallest(x, T)
  <2> HIDE DEF T
  <2> QED BY <1>1, SmallestSet
<1>3. PICK m \in P : x = U(m)
  OBVIOUS
<1>4. ASSUME NEW n \in P PROVE n <= m
  <2>1. CASE m < n
    <3>1. ASSUME NEW j \in U(n) PROVE j \in U(m)
      <4>1. j \in Int /\ n \in Int /\ m \in Int /\ n <= j
        OBVIOUS
      <4> QED BY <2>1, <4>1
    <3>2. m \in U(m) /\ m \notin U(n) /\ U(n) \in T
      BY <2>1
    <3>3. U(n) = U(m)
      BY <1>2, <1>3, <3>1, <3>2 DEF Smallest
    <3> QED BY <3>2, <3>3
  <2> QED BY <2>1
<1> QED BY <1>4

LEMMA BestIs ==
    ASSUME NEW S \in SUBSET Site, S # {}
    PROVE  Best(S) \in S /\ \A u \in S : Order[Best(S)] <= Order[u]
<1> DEFINE D(s) == {u \in S : Order[u] <= Order[s]}
           T == {D(s) : s \in S}
<1>0. \A s \in Site : Order[s] \in Nat
  BY LibraryAssumption
<1>1. T # {} /\ \A x \in T : x \subseteq S
  OBVIOUS
<1>2. PICK x \in T : Smallest(x, T)
  <2>1. IsFiniteSet(S)
    BY LibraryAssumption, FS_Subset
  <2> HIDE DEF T
  <2> QED BY <1>1, <2>1, SmallestSet
<1>3. PICK s \in S : x = D(s)
  OBVIOUS
<1>4. ASSUME NEW u \in S PROVE Order[s] <= Order[u]
  <2>1. CASE Order[u] < Order[s]
    <3>1. ASSUME NEW j \in D(u) PROVE j \in D(s)
      <4>1. /\ j \in S /\ Order[j] \in Nat /\ Order[u] \in Nat /\ Order[s] \in Nat
            /\ Order[j] <= Order[u]
        BY <1>0
      <4> QED BY <2>1, <4>1
    <3>2. s \in D(s) /\ s \notin D(u) /\ D(u) \in T
      BY <1>0, <2>1
    <3>3. D(u) = D(s)
      BY <1>2, <1>3, <3>1, <3>2 DEF Smallest
    <3> QED BY <3>2, <3>3
  <2> QED BY <1>0, <2>1
<1>5. \E b \in S : \A u \in S : Order[b] <= Order[u]
  BY <1>4
<1> QED BY <1>5 DEF Best

LEMMA CountsMore ==
    ASSUME NEW T, IsFiniteSet(T), NEW S \in SUBSET T, NEW x \in T, x \notin S
    PROVE  Cardinality(S) \in Nat /\ Cardinality(T) \in Nat /\ Cardinality(S) < Cardinality(T)
<1>1. IsFiniteSet(S) /\ Cardinality(S) <= Cardinality(T) /\ (Cardinality(S) = Cardinality(T) => S = T)
  BY FS_Subset
<1>2. Cardinality(S) \in Nat /\ Cardinality(T) \in Nat
  BY <1>1, FS_CardinalityType
<1> QED BY <1>1, <1>2

\* After(P) is a new place after those of P, whatever P counts.
LEMMA AfterAll ==
    ASSUME NEW S, IsFiniteSet(S), NEW f \in [S -> Nat]
    PROVE  LET e == After({f[x] : x \in S}) IN e \in Nat /\ \A x \in S : f[x] < e
<1> DEFINE P == {f[x] : x \in S}
<1>1. P \in SUBSET Int /\ \A x \in S : f[x] \in P
  OBVIOUS
<1>2. IsFiniteSet(P)
  <2>1. f \in Surjection(S, P)
    BY DEF Surjection
  <2> HIDE DEF P
  <2> QED BY <2>1, FS_Surjection
<1>3. P # {} => MaxOf(P) \in P /\ \A n \in P : n <= MaxOf(P)
  <2> HIDE DEF P
  <2>1. P # {} => \E m \in P : \A n \in P : n <= m
    BY <1>1, <1>2, MaxExists
  <2> QED BY <2>1 DEF MaxOf
<1>4. P = {} => MaxOf(P) = -1 /\ S = {}
  BY DEF MaxOf
<1>5. P \subseteq Nat
  OBVIOUS
<1> HIDE DEF P
<1>6. After(P) \in Nat /\ \A x \in S : f[x] < After(P)
  <2>1. CASE P = {}
    BY <1>4, <2>1 DEF After
  <2>2. CASE P # {}
    <3> DEFINE m == MaxOf(P)
    <3>1. \A x \in S : f[x] \in Nat /\ f[x] <= m
      BY <1>1, <1>3, <2>2
    <3>2. m \in Nat
      BY <1>3, <1>5, <2>2
    <3> HIDE DEF m
    <3>3. m + 1 \in Nat /\ \A x \in S : f[x] < m + 1
      BY <3>1, <3>2
    <3> QED BY <3>3 DEF After, m
  <2> QED BY <2>1, <2>2
<1> QED BY <1>6 DEF P

-----------------------------------------------------------------------------
(* What a step may do to the Sites. *)
SiteStep ==
    /\ SitesOK' /\ LabelsOK'
    /\ \A s \in Site : site[s].row # "absent" =>
         /\ site'[s].row # "absent" /\ (s \in Sites' => s \in Sites)
         /\ site[s].ver <= site'[s].ver
         /\ s \in Sites' /\ site'[s].ver = site[s].ver => Shown(s)' = Shown(s)

\* Nothing of s that is shown changes.
Untouched(s) ==
    /\ site'[s].rev = site[s].rev /\ site'[s].key = site[s].key
    /\ site'[s].cat = site[s].cat /\ site'[s].tags = site[s].tags
    /\ \A n \in {site[s].cat} \cup site[s].tags : label'[n] = label[n]

\* A step that neither adds a Site nor takes one away.
Edited ==
    /\ site' \in [Site -> SiteRows] /\ LabelsOK'
    /\ \A s \in Site : site'[s].row = site[s].row /\ (s \notin Sites => site'[s].ver = site[s].ver)
    /\ \A s \in Sites : /\ site'[s].cat \in Categories' /\ site'[s].tags \subseteq Tags'
                        /\ site'[s].ver > site[s].ver \/ (site'[s].ver = site[s].ver /\ Untouched(s))
    /\ \A s, u \in Sites : s # u /\ site'[s].cat = site'[u].cat => site'[s].pos # site'[u].pos

LEMMA RowTypes ==
    ASSUME NEW x \in SiteRows
    PROVE  /\ x.row \in Row /\ x.cat \in Category /\ x.pos \in Nat /\ x.ver \in Nat /\ x.rev \in Nat
           /\ x.text \in Nat /\ x.key \in Key /\ x.by \in Author /\ x.tags \in SUBSET Tag /\ x.tby \in Author
BY DEF SiteRows

\* The same Site but for its category, its place, its version and its text.
Alters(y, x) == /\ y \in SiteRows /\ y.row = x.row /\ y.key = x.key
                /\ y.tags = x.tags /\ y.by = x.by /\ y.tby = x.tby

LEMMA ShownSame ==
    ASSUME NEW s, Untouched(s)
    PROVE  Shown(s)' = Shown(s)
<1>1. Names({site[s].cat})' = Names({site[s].cat})
  BY DEF Untouched, Names
<1>2. Names(site[s].tags)' = Names(site[s].tags)
  BY DEF Untouched, Names
<1> QED BY <1>1, <1>2 DEF Untouched, Shown

LEMMA EditedStep ==
    ASSUME SitesOK, Edited
    PROVE  SiteStep /\ Sites' = Sites
<1>1. Sites' = Sites
  BY DEF Edited, Sites
<1>2. SitesOK'
  BY <1>1 DEF Edited, SitesOK
<1>3. ASSUME NEW s \in Site, site[s].row # "absent"
      PROVE  /\ site'[s].row # "absent" /\ (s \in Sites' => s \in Sites)
             /\ site[s].ver <= site'[s].ver
             /\ s \in Sites' /\ site'[s].ver = site[s].ver => Shown(s)' = Shown(s)
  <2>1. site[s].ver \in Nat /\ site'[s].ver \in Nat
    BY RowTypes DEF Edited, SitesOK
  <2>2. CASE s \in Sites
    BY <1>1, <1>3, <2>1, <2>2, ShownSame DEF Edited
  <2>3. CASE s \notin Sites
    BY <1>1, <1>3, <2>1, <2>3 DEF Edited
  <2> QED BY <2>2, <2>3
<1> QED BY <1>1, <1>2, <1>3 DEF SiteStep, Edited

LEMMA CategoryEndIs ==
    ASSUME SitesOK, NEW c
    PROVE  CategoryEnd(c) \in Nat /\ \A u \in Sites : site[u].cat = c => site[u].pos < CategoryEnd(c)
<1> DEFINE S == {u \in Sites : site[u].cat = c}
           f == [u \in S |-> site[u].pos]
<1>1. IsFiniteSet(S)
  BY LibraryAssumption, FS_Subset DEF Sites
<1>2. f \in [S -> Nat]
  BY RowTypes DEF SitesOK, Sites
<1>3. {f[u] : u \in S} = {site[u].pos : u \in S}
  OBVIOUS
<1>4. \A u \in S : f[u] = site[u].pos
  OBVIOUS
<1> HIDE DEF f
<1>5. After({f[x] : x \in S}) \in Nat /\ \A u \in S : f[u] < After({f[x] : x \in S})
  BY <1>1, <1>2, AfterAll
<1>6. CategoryEnd(c) = After({f[u] : u \in S})
  BY <1>3 DEF CategoryEnd
<1> QED BY <1>4, <1>5, <1>6

\* In q, the Sites of S have a new version; they may have moved.
Renewed(q, S) ==
    /\ q \in [Site -> SiteRows]
    /\ \A s \in Site \ S : q[s] = site[s]
    /\ \A s \in S : q[s].row = site[s].row /\ q[s].ver = site[s].ver + 1
    /\ \A s, u \in Sites : s # u /\ q[s].cat = q[u].cat => q[s].pos # q[u].pos

\* Sites that are sent elsewhere each find a place of their own.
LEMMA MovedRows ==
    ASSUME SitesOK, NEW to, DOMAIN to \subseteq Sites, \A s \in DOMAIN to : to[s] \in Category,
           NEW q, q = Moved(to)
    PROVE  /\ Renewed(q, DOMAIN to)
           /\ \A s \in DOMAIN to : /\ q[s].cat = to[s] /\ q[s].rev = site[s].rev
                                   /\ q[s].key = site[s].key /\ q[s].tags = site[s].tags
                                   /\ q[s].by = site[s].by /\ q[s].tby = site[s].tby
<1> DEFINE B(s) == {u \in DOMAIN to : to[u] = to[s] /\ Ahead(u, s)}
           place(s) == CategoryEnd(to[s]) + Cardinality(B(s))
<1>0. site \in [Site -> SiteRows] /\ Sites \subseteq Site
  BY DEF SitesOK, Sites
<1>1. \A s \in Site : site[s].pos \in Nat /\ Order[s] \in Nat
  BY <1>0, RowTypes, LibraryAssumption
<1>2. \A s \in DOMAIN to : IsFiniteSet(B(s)) /\ Cardinality(B(s)) \in Nat
  <2>1. IsFiniteSet(Site) /\ \A s \in DOMAIN to : B(s) \in SUBSET Site
    BY <1>0, LibraryAssumption
  <2> HIDE DEF B
  <2>2. \A s \in DOMAIN to : IsFiniteSet(B(s))
    BY <2>1, FS_Subset
  <2> QED BY <2>2, FS_CardinalityType
<1>3. \A s \in DOMAIN to : CategoryEnd(to[s]) \in Nat
  BY CategoryEndIs
<1>4. \A s \in DOMAIN to : place(s) \in Nat
  BY <1>2, <1>3
<1>5. \A s \in Site : q[s] = IF s \in DOMAIN to
                             THEN [site[s] EXCEPT !.cat = to[s], !.ver = site[s].ver + 1, !.pos = place(s)]
                             ELSE site[s]
  BY DEF Moved
<1>5a. q = [s \in Site |-> q[s]]
  BY DEF Moved
<1>6. \A s, u \in DOMAIN to : s # u /\ to[s] = to[u] => place(s) # place(u)
  <2>1. ASSUME NEW s \in DOMAIN to, NEW u \in DOMAIN to, to[s] = to[u], Ahead(s, u) PROVE place(s) < place(u)
    <3>1. B(s) \subseteq B(u)
      BY <1>0, <1>1, <2>1 DEF Ahead
    <3>2. s \in B(u) /\ s \notin B(s)
      BY <1>0, <1>1, <2>1 DEF Ahead
    <3>3. Cardinality(B(s)) < Cardinality(B(u))
      <4> HIDE DEF B
      <4> QED BY <1>2, <3>1, <3>2, CountsMore
    <3> QED BY <1>2, <1>3, <2>1, <3>3
  <2>2. ASSUME NEW s \in DOMAIN to, NEW u \in DOMAIN to, s # u PROVE Ahead(s, u) \/ Ahead(u, s)
    BY <1>0, <1>1, <2>2, LibraryAssumption DEF Ahead
  <2> HIDE DEF place
  <2> QED BY <1>4, <2>1, <2>2
<1>7. \A s \in DOMAIN to, u \in Sites : site[u].cat = to[s] => site[u].pos < place(s)
  <2> SUFFICES ASSUME NEW s \in DOMAIN to, NEW u \in Sites, site[u].cat = to[s] PROVE site[u].pos < place(s)
    OBVIOUS
  <2>1. site[u].pos < CategoryEnd(to[s]) /\ site[u].pos \in Nat
    BY <1>0, <1>1, CategoryEndIs
  <2>2. CategoryEnd(to[s]) \in Nat /\ Cardinality(B(s)) \in Nat
    BY <1>2, <1>3
  <2> QED BY <2>1, <2>2
<1> HIDE DEF place
<1>8. \A s \in DOMAIN to : /\ q[s].cat = to[s] /\ q[s].ver = site[s].ver + 1 /\ q[s].pos = place(s)
                           /\ q[s].row = site[s].row /\ q[s].rev = site[s].rev
                           /\ q[s].key = site[s].key /\ q[s].tags = site[s].tags
                           /\ q[s].by = site[s].by /\ q[s].tby = site[s].tby
                           /\ q[s] \in SiteRows
  <2> SUFFICES ASSUME NEW s \in DOMAIN to
               PROVE  Alters(q[s], site[s]) /\ q[s].cat = to[s] /\ q[s].ver = site[s].ver + 1
                      /\ q[s].pos = place(s) /\ q[s].rev = site[s].rev
    BY DEF Alters
  <2> DEFINE v == site[s].ver + 1
             p == place(s)
             c == to[s]
             x == site[s]
  <2>1. x \in SiteRows /\ v \in Nat /\ p \in Nat /\ c \in Category
    BY <1>0, <1>4, RowTypes
  <2>2. q[s] = [x EXCEPT !.cat = c, !.ver = v, !.pos = p]
    BY <1>0, <1>5
  <2> HIDE DEF v, p, c, x
  <2>3. Alters(q[s], x) /\ q[s].cat = c /\ q[s].ver = v /\ q[s].pos = p /\ q[s].rev = x.rev
    BY <2>1, <2>2 DEF SiteRows, Alters
  <2> QED BY <2>3 DEF v, p, c, x
<1>9. \A s \in Site \ DOMAIN to : q[s] = site[s]
  BY <1>5
<1>10. q \in [Site -> SiteRows]
  BY <1>0, <1>5a, <1>8, <1>9
<1>11. ASSUME NEW s \in Sites, NEW u \in Sites, s # u, q[s].cat = q[u].cat PROVE q[s].pos # q[u].pos
  <2>1. CASE s \in DOMAIN to /\ u \in DOMAIN to
    BY <1>6, <1>8, <1>11, <2>1
  <2>2. CASE s \in DOMAIN to /\ u \notin DOMAIN to
    BY <1>0, <1>1, <1>4, <1>7, <1>8, <1>9, <1>11, <2>2
  <2>3. CASE s \notin DOMAIN to /\ u \in DOMAIN to
    BY <1>0, <1>1, <1>4, <1>7, <1>8, <1>9, <1>11, <2>3
  <2>4. CASE s \notin DOMAIN to /\ u \notin DOMAIN to
    BY <1>0, <1>9, <1>11, <2>4 DEF SitesOK
  <2> QED BY <2>1, <2>2, <2>3, <2>4
<1> QED BY <1>0, <1>8, <1>9, <1>10, <1>11 DEF Renewed

LEMMA BumpRows ==
    ASSUME SitesOK, NEW S, S \subseteq Sites, NEW q, q = Bump(S)
    PROVE  /\ Renewed(q, S)
           /\ \A s \in S : /\ q[s].cat = site[s].cat /\ q[s].pos = site[s].pos /\ q[s].rev = site[s].rev
                           /\ q[s].key = site[s].key /\ q[s].tags = site[s].tags
                           /\ q[s].by = site[s].by /\ q[s].tby = site[s].tby
<1>0. site \in [Site -> SiteRows] /\ Sites \subseteq Site
  BY DEF SitesOK, Sites
<1>1. q = [s \in Site |-> q[s]] /\ \A s \in Site \ S : q[s] = site[s]
  BY DEF Bump
<1>2. \A s \in S : /\ q[s].cat = site[s].cat /\ q[s].rev = site[s].rev
                   /\ q[s].key = site[s].key /\ q[s].tags = site[s].tags
                   /\ q[s].by = site[s].by /\ q[s].tby = site[s].tby
                   /\ q[s].row = site[s].row /\ q[s].ver = site[s].ver + 1 /\ q[s].pos = site[s].pos
                   /\ q[s] \in SiteRows
  <2> SUFFICES ASSUME NEW s \in S
               PROVE  /\ Alters(q[s], site[s]) /\ q[s].cat = site[s].cat /\ q[s].rev = site[s].rev
                      /\ q[s].ver = site[s].ver + 1 /\ q[s].pos = site[s].pos
    BY DEF Alters
  <2> DEFINE x == site[s]
             v == x.ver + 1
  <2>1. x \in SiteRows /\ v \in Nat
    BY <1>0, RowTypes
  <2>2. q[s] = [x EXCEPT !.ver = v]
    BY <1>0 DEF Bump
  <2> HIDE DEF v, x
  <2>3. Alters(q[s], x) /\ q[s].cat = x.cat /\ q[s].rev = x.rev /\ q[s].ver = v /\ q[s].pos = x.pos
    BY <2>1, <2>2 DEF SiteRows, Alters
  <2> QED BY <2>3 DEF v, x
<1>3. q \in [Site -> SiteRows]
  BY <1>0, <1>1, <1>2
<1>4. \A s \in Site : q[s].cat = site[s].cat /\ q[s].pos = site[s].pos
  BY <1>1, <1>2
<1>5. \A s, u \in Sites : s # u /\ q[s].cat = q[u].cat => q[s].pos # q[u].pos
  BY <1>0, <1>4 DEF SitesOK
<1> QED BY <1>1, <1>2, <1>3, <1>5 DEF Renewed

\* A step that takes the rows of q, but for what is nobody's place.
Takes(q) ==
    /\ site' \in [Site -> SiteRows]
    /\ \A s \in Site : /\ site'[s].row = q[s].row /\ site'[s].cat = q[s].cat
                       /\ site'[s].pos = q[s].pos /\ site'[s].ver = q[s].ver

LEMMA RenewedEdits ==
    ASSUME SitesOK, LabelsOK', NEW q, NEW S, S \subseteq Sites, Renewed(q, S), Takes(q),
           \A s \in Sites \ S : /\ site'[s].rev = site[s].rev /\ site'[s].key = site[s].key /\ site'[s].tags = site[s].tags
                                /\ \A n \in {site[s].cat} \cup site[s].tags : label'[n] = label[n],
           \A s \in S : label'[q[s].cat] > 0 /\ \A g \in site'[s].tags : label'[g] > 0
    PROVE  SiteStep /\ Sites' = Sites
<1>0. site \in [Site -> SiteRows] /\ Sites \subseteq Site /\ S \subseteq Site
  BY DEF SitesOK, Sites
<1>1. \A s \in Site : site'[s].row = site[s].row
  BY DEF Takes, Renewed
<1>2. ASSUME NEW s \in Sites, s \notin S
      PROVE  /\ site'[s].ver = site[s].ver /\ Untouched(s)
             /\ site'[s].cat \in Categories' /\ site'[s].tags \subseteq Tags'
  <2>1. site'[s].ver = site[s].ver /\ site'[s].cat = site[s].cat
    BY <1>0, <1>2 DEF Takes, Renewed
  <2>2. Untouched(s)
    BY <1>2, <2>1 DEF Untouched
  <2>3. site[s].cat \in Categories /\ site[s].tags \subseteq Tags
    BY DEF SitesOK
  <2>4. \A n \in {site[s].cat} \cup site[s].tags : label'[n] > 0
    BY <1>2, <2>3 DEF Categories, Tags
  <2> QED BY <1>2, <2>1, <2>2, <2>3, <2>4 DEF Categories, Tags
<1>3. ASSUME NEW s \in S
      PROVE  /\ site'[s].ver > site[s].ver /\ site'[s].cat \in Categories' /\ site'[s].tags \subseteq Tags'
  <2>1. site'[s].ver = site[s].ver + 1 /\ site'[s].cat = q[s].cat
    BY <1>0, <1>3 DEF Takes, Renewed
  <2>2. site[s].ver \in Nat /\ site'[s] \in SiteRows /\ q[s] \in SiteRows
    BY <1>0, <1>3, RowTypes DEF Takes, Renewed
  <2>3. site'[s].tags \subseteq Tag /\ q[s].cat \in Category
    BY <2>2, RowTypes
  <2> QED BY <1>3, <2>1, <2>2, <2>3 DEF Categories, Tags
<1>4. \A s \in Site : s \notin Sites => site'[s].ver = site[s].ver
  BY <1>0 DEF Takes, Renewed
<1>5. \A s, u \in Sites : s # u /\ site'[s].cat = site'[u].cat => site'[s].pos # site'[u].pos
  BY <1>0 DEF Takes, Renewed
<1>6. Edited
  BY <1>1, <1>2, <1>3, <1>4, <1>5 DEF Edited, Takes
<1> QED BY <1>6, EditedStep

\* The row of a Site is written anew, at its place and version of q.
Rewrites(r, x) == r \in SiteRows /\ r.row = x.row /\ r.cat = x.cat /\ r.pos = x.pos /\ r.ver = x.ver
NamesStay == LabelsOK' /\ \A n \in Category \cup Tag : label[n] > 0 => label'[n] = label[n]
Named(r) == label'[r.cat] > 0 /\ \A g \in r.tags : label'[g] > 0

LEMMA SameNames ==
    ASSUME SitesOK, NamesStay, NEW s \in Sites
    PROVE  (\A n \in {site[s].cat} \cup site[s].tags : label'[n] = label[n] /\ label'[n] > 0)
BY DEF SitesOK, NamesStay, Categories, Tags

LEMMA OneEdited ==
    ASSUME SitesOK, NamesStay, NEW s \in Sites, NEW q, Renewed(q, {s}), NEW r,
           site' = [q EXCEPT ![s] = r], Rewrites(r, q[s]), Named(r)
    PROVE  SiteStep /\ Sites' = Sites
<1>0. q \in [Site -> SiteRows] /\ Sites \subseteq Site /\ s \in Site
  BY DEF Renewed, Sites
<1>1. site'[s] = r /\ \A u \in Site \ {s} : site'[u] = q[u]
  BY <1>0
<1>2. site' \in [Site -> SiteRows]
  BY <1>0 DEF Rewrites
<1>3. Takes(q)
  BY <1>0, <1>1, <1>2 DEF Takes, Rewrites
<1>4. \A u \in Sites \ {s} : site'[u] = site[u]
  BY <1>0, <1>1 DEF Renewed
<1>5. \A u \in Sites \ {s} : \A n \in {site[u].cat} \cup site[u].tags : label'[n] = label[n]
  BY SameNames
<1>6. label'[q[s].cat] > 0 /\ \A g \in site'[s].tags : label'[g] > 0
  BY <1>1 DEF Rewrites, Named
<1>7. LabelsOK'
  BY DEF NamesStay
<1> QED BY <1>3, <1>4, <1>5, <1>6, <1>7, RenewedEdits

\* Who chose what is not shown, and is no version.
LEMMA OneMarked ==
    ASSUME SitesOK, NamesStay, NEW s \in Sites, NEW r, site' = [site EXCEPT ![s] = r],
           Rewrites(r, site[s]), r.rev = site[s].rev, r.key = site[s].key, r.tags = site[s].tags
    PROVE  SiteStep /\ Sites' = Sites
<1>0. site \in [Site -> SiteRows] /\ Sites \subseteq Site /\ s \in Site
  BY DEF SitesOK, Sites
<1>1. site'[s] = r /\ \A u \in Site \ {s} : site'[u] = site[u]
  BY <1>0
<1>2. site' \in [Site -> SiteRows]
  BY <1>0 DEF Rewrites
<1>3. Renewed(site, {})
  BY <1>0 DEF Renewed, SitesOK
<1>4. Takes(site)
  BY <1>0, <1>1, <1>2 DEF Takes, Rewrites
<1>5. \A u \in Sites : site'[u].rev = site[u].rev /\ site'[u].key = site[u].key /\ site'[u].tags = site[u].tags
  BY <1>0, <1>1
<1>6. \A u \in Sites : \A n \in {site[u].cat} \cup site[u].tags : label'[n] = label[n]
  BY SameNames
<1>7. LabelsOK'
  BY DEF NamesStay
<1> QED BY <1>3, <1>4, <1>5, <1>6, <1>7, RenewedEdits

LEMMA NamesUnchanged ==
    ASSUME LabelsOK, UNCHANGED label
    PROVE  NamesStay
BY DEF LabelsOK, NamesStay

LEMMA EnsuredNames ==
    ASSUME LabelsOK, NEW N \in SUBSET (Category \cup Tag), Nameable(N), label' = Ensured(N)
    PROVE  NamesStay /\ \A n \in N : label'[n] > 0
<1>1. label \in [Category \cup Tag -> Int]
  BY DEF LabelsOK
<1>2. label' \in [Category \cup Tag -> Int]
  BY <1>1 DEF Ensured
<1>3. \A n \in Category \cup Tag : label'[n] = IF n \in N /\ label[n] = 0 THEN 1 ELSE label[n]
  BY <1>1 DEF Ensured
<1>4. \A n \in N : label'[n] > 0
  BY <1>1, <1>3 DEF Nameable
<1>5. Default \in Category
  BY LibraryAssumption
<1>6. LabelsOK'
  BY <1>2, <1>3, <1>5 DEF LabelsOK
<1> QED BY <1>3, <1>4, <1>6 DEF NamesStay

LEMMA EditSiteStep ==
    ASSUME SitesOK, LabelsOK, NEW s \in Sites, EditSite(s)
    PROVE  SiteStep /\ Sites' = Sites
<1> DEFINE x == site[s]
           e == x.rev + 1
           v == x.ver + 1
           r == [x EXCEPT !.rev = e, !.ver = v]
           q == Bump({s})
<1>0. site \in [Site -> SiteRows] /\ s \in Site
  BY DEF SitesOK, Sites
<1>1. site' = [site EXCEPT ![s] = r] /\ UNCHANGED label
  BY DEF EditSite
<1>2. x \in SiteRows /\ e \in Nat /\ v \in Nat
  BY <1>0, RowTypes
<1>3. Renewed(q, {s}) /\ q[s].cat = x.cat /\ q[s].pos = x.pos
  <2> HIDE DEF q
  <2>1. {s} \subseteq Sites
    OBVIOUS
  <2> QED BY <2>1, BumpRows DEF q
<1> HIDE DEF q
<1>4. [site EXCEPT ![s] = r] = [q EXCEPT ![s] = r]
  BY <1>0, <1>3 DEF Renewed
<1>5. q[s].row = x.row /\ q[s].ver = v
  BY <1>3 DEF Renewed
<1>6. x.cat \in Categories /\ x.tags \subseteq Tags
  BY DEF SitesOK
<1> HIDE DEF x, e, v
<1>7. r \in SiteRows /\ r.row = x.row /\ r.cat = x.cat /\ r.pos = x.pos /\ r.ver = v /\ r.tags = x.tags
  BY <1>2 DEF SiteRows
<1> HIDE DEF r
<1>8. Rewrites(r, q[s]) /\ Named(r)
  BY <1>1, <1>3, <1>5, <1>6, <1>7 DEF Rewrites, Named, Categories, Tags
<1> QED BY <1>1, <1>3, <1>4, <1>8, NamesUnchanged, OneEdited

LEMMA DescribeStep ==
    ASSUME SitesOK, LabelsOK, NEW s \in Sites, Describe(s)
    PROVE  SiteStep /\ Sites' = Sites
<1> DEFINE x == site[s]
           n == x.text + 1
           r == [x EXCEPT !.text = n]
<1>0. site \in [Site -> SiteRows] /\ s \in Site
  BY DEF SitesOK, Sites
<1>1. site' = [site EXCEPT ![s] = r] /\ UNCHANGED label
  BY DEF Describe
<1>2. x \in SiteRows /\ n \in Nat
  BY <1>0, RowTypes
<1> HIDE DEF x, n
<1>3. Rewrites(r, x) /\ r.rev = x.rev /\ r.key = x.key /\ r.tags = x.tags
  BY <1>2 DEF SiteRows, Rewrites
<1> HIDE DEF r
<1> QED BY <1>1, <1>3, NamesUnchanged, OneMarked DEF x

LEMMA TagSiteStep ==
    ASSUME SitesOK, LabelsOK, NEW s \in Sites, NEW T, TagSite(s, T)
    PROVE  SiteStep /\ Sites' = Sites
<1> DEFINE x == site[s]
           v == x.ver + 1
           r == [x EXCEPT !.ver = v, !.tags = T, !.tby = "user"]
           q == Bump({s})
<1>0. site \in [Site -> SiteRows] /\ s \in Site
  BY DEF SitesOK, Sites
<1>1. site' = [site EXCEPT ![s] = r] /\ UNCHANGED label /\ T \subseteq Tags
  BY DEF TagSite
<1>2. x \in SiteRows /\ v \in Nat /\ T \in SUBSET Tag
  BY <1>0, <1>1, RowTypes DEF Tags
<1>3. Renewed(q, {s}) /\ q[s].cat = x.cat /\ q[s].pos = x.pos
  <2> HIDE DEF q
  <2>1. {s} \subseteq Sites
    OBVIOUS
  <2> QED BY <2>1, BumpRows DEF q
<1> HIDE DEF q
<1>4. [site EXCEPT ![s] = r] = [q EXCEPT ![s] = r]
  BY <1>0, <1>3 DEF Renewed
<1>5. q[s].row = x.row /\ q[s].ver = v
  BY <1>3 DEF Renewed
<1>6. x.cat \in Categories
  BY DEF SitesOK
<1> HIDE DEF x, v
<1>7. r \in SiteRows /\ r.row = x.row /\ r.cat = x.cat /\ r.pos = x.pos /\ r.ver = v /\ r.tags = T
  BY <1>2 DEF SiteRows, Author
<1> HIDE DEF r
<1>8. Rewrites(r, q[s]) /\ Named(r)
  BY <1>1, <1>3, <1>5, <1>6, <1>7 DEF Rewrites, Named, Categories, Tags
<1> QED BY <1>1, <1>3, <1>4, <1>8, NamesUnchanged, OneEdited

\* One Site is sent to category c, or is only given a new version.
LEMMA OneMoved ==
    ASSUME SitesOK, NEW s \in Sites, NEW c \in Category, NEW q, q = Moved([u \in {s} |-> c])
    PROVE  /\ Renewed(q, {s}) /\ q[s] \in SiteRows /\ q[s].cat = c /\ q[s].rev = site[s].rev
           /\ q[s].key = site[s].key /\ q[s].tags = site[s].tags
           /\ q[s].by = site[s].by /\ q[s].tby = site[s].tby
<1> DEFINE to == [u \in {s} |-> c]
<1>1. DOMAIN to = {s} /\ to[s] = c
  OBVIOUS
<1> HIDE DEF to
<1>2. DOMAIN to \subseteq Sites /\ \A u \in DOMAIN to : to[u] \in Category
  BY <1>1
<1>3. q = Moved(to)
  BY DEF to
<1>4. s \in Site
  BY DEF Sites
<1>5. Renewed(q, DOMAIN to) /\ q[s].cat = to[s] /\ q[s].rev = site[s].rev
      /\ q[s].key = site[s].key /\ q[s].tags = site[s].tags
      /\ q[s].by = site[s].by /\ q[s].tby = site[s].tby
  BY <1>1, <1>2, <1>3, MovedRows
<1> QED BY <1>1, <1>4, <1>5 DEF Renewed

LEMMA OneBumped ==
    ASSUME SitesOK, NEW s \in Sites, NEW q, q = Bump({s})
    PROVE  /\ Renewed(q, {s}) /\ q[s] \in SiteRows /\ q[s].cat = site[s].cat /\ q[s].pos = site[s].pos
           /\ q[s].rev = site[s].rev /\ q[s].key = site[s].key /\ q[s].tags = site[s].tags
           /\ q[s].by = site[s].by /\ q[s].tby = site[s].tby
<1>1. {s} \subseteq Sites /\ s \in Site
  BY DEF Sites
<1> QED BY <1>1, BumpRows DEF Renewed

LEMMA MoveSiteStep ==
    ASSUME SitesOK, LabelsOK, NEW s \in Sites, NEW c \in Category, MoveSite(s, c)
    PROVE  SiteStep /\ Sites' = Sites
<1>0. site \in [Site -> SiteRows] /\ s \in Site
  BY DEF SitesOK, Sites
<1>1. UNCHANGED label /\ c \in Categories
  BY DEF MoveSite
<1>2. site[s].cat \in Categories /\ site[s].tags \subseteq Tags
  BY DEF SitesOK
<1>3. CASE c = site[s].cat
  <2> DEFINE x == site[s]
             v == x.ver + 1
             r == [x EXCEPT !.by = "user", !.ver = v]
             q == Bump({s})
  <2>1. site' = [site EXCEPT ![s] = r]
    BY <1>3 DEF MoveSite
  <2>2. x \in SiteRows /\ v \in Nat
    BY <1>0, RowTypes
  <2> HIDE DEF q
  <2>3. Renewed(q, {s}) /\ q[s].cat = x.cat /\ q[s].pos = x.pos
    BY OneBumped DEF q
  <2>4. [site EXCEPT ![s] = r] = [q EXCEPT ![s] = r]
    BY <1>0, <2>3 DEF Renewed
  <2>5. q[s].row = x.row /\ q[s].ver = v
    BY <2>3 DEF Renewed
  <2>6. x.cat \in Categories /\ x.tags \subseteq Tags
    BY <1>2
  <2> HIDE DEF x, v
  <2>7. r \in SiteRows /\ r.row = x.row /\ r.cat = x.cat /\ r.pos = x.pos /\ r.ver = v /\ r.tags = x.tags
    BY <2>2 DEF SiteRows, Author
  <2> HIDE DEF r
  <2>8. Rewrites(r, q[s]) /\ Named(r)
    BY <1>1, <2>3, <2>5, <2>6, <2>7 DEF Rewrites, Named, Categories, Tags
  <2> QED BY <1>1, <2>1, <2>3, <2>4, <2>8, NamesUnchanged, OneEdited
<1>4. CASE c # site[s].cat
  <2> DEFINE q == Moved([u \in {s} |-> c])
             x == q[s]
             r == [x EXCEPT !.by = "user"]
  <2>1. site' = [q EXCEPT ![s] = r]
    BY <1>4 DEF MoveSite
  <2>1a. q = Moved([u \in {s} |-> c])
    OBVIOUS
  <2> HIDE DEF q
  <2>2. Renewed(q, {s}) /\ x \in SiteRows /\ x.cat = c /\ x.tags = site[s].tags
    BY <2>1a, OneMoved, ZenonT(60)
  <2> HIDE DEF x
  <2>3. Rewrites(r, x) /\ r.cat = c /\ r.tags = x.tags
    BY <2>2 DEF SiteRows, Author, Rewrites
  <2> HIDE DEF r
  <2>4. Named(r)
    BY <1>1, <1>2, <2>2, <2>3 DEF Named, Categories, Tags
  <2> QED BY <1>1, <2>1, <2>2, <2>3, <2>4, NamesUnchanged, OneEdited DEF x
<1> QED BY <1>3, <1>4

LEMMA ReaddressSiteStep ==
    ASSUME SitesOK, LabelsOK, NEW s \in Sites, NEW k \in Key, ReaddressSite(s, k)
    PROVE  SiteStep /\ Sites' = Sites
<1> DEFINE q == IF site[s].cat = Default THEN Bump({s}) ELSE Moved([u \in {s} |-> Default])
           x == q[s]
           e == x.rev + 1
           r == [x EXCEPT !.key = k, !.rev = e, !.by = "nobody", !.tags = {}, !.tby = "nobody"]
<1>1. site' = [q EXCEPT ![s] = r] /\ UNCHANGED label
  BY DEF ReaddressSite
<1>2. Default \in Category /\ label[Default] > 0
  BY LibraryAssumption DEF LabelsOK
<1>3. Renewed(q, {s}) /\ x \in SiteRows /\ x.cat = Default
  <2>1. CASE site[s].cat = Default
    <3>1. q = Bump({s})
      BY <2>1
    <3> HIDE DEF q
    <3> QED BY <2>1, <3>1, OneBumped
  <2>2. CASE site[s].cat # Default
    <3>1. q = Moved([u \in {s} |-> Default])
      BY <2>2
    <3> HIDE DEF q
    <3> QED BY <1>2, <3>1, OneMoved
  <2> QED BY <2>1, <2>2
<1> HIDE DEF q
<1>4. e \in Nat
  BY <1>3, RowTypes
<1> HIDE DEF x, e
<1>5. Rewrites(r, x) /\ r.cat = Default /\ r.tags = {}
  BY <1>3, <1>4 DEF SiteRows, Author, Rewrites
<1> HIDE DEF r
<1>6. Named(r)
  BY <1>1, <1>2, <1>5 DEF Named
<1> QED BY <1>1, <1>3, <1>5, <1>6, NamesUnchanged, OneEdited DEF x

LEMMA ImportIntoStep ==
    ASSUME SitesOK, LabelsOK, NEW s, NEW c \in Category, NEW T \in SUBSET Tag, ImportInto(s, c, T)
    PROVE  SiteStep /\ Sites' = Sites
<1> DEFINE cat == IF site[s].by = "user" THEN site[s].cat ELSE c
           tags == IF site[s].tby = "user" THEN site[s].tags ELSE site[s].tags \cup T
           q == IF cat # site[s].cat THEN Moved([u \in {s} |-> cat]) ELSE Bump({s})
           x == q[s]
           b == IF cat # site[s].cat THEN "nobody" ELSE x.by
           d == IF tags # site[s].tags THEN "nobody" ELSE x.tby
           r == [x EXCEPT !.tags = tags, !.by = b, !.tby = d]
<1>0. s \in Sites /\ s \in Site /\ site \in [Site -> SiteRows]
  BY DEF ImportInto, SitesOK, Sites
<1>1. cat \in Category /\ tags \in SUBSET Tag
  BY <1>0, RowTypes
<1>2. Nameable({cat} \cup tags) /\ label' = Ensured({cat} \cup tags)
  BY DEF ImportInto
<1>3. site' = [q EXCEPT ![s].tags = tags, ![s].by = IF cat # site[s].cat THEN "nobody" ELSE @,
                        ![s].tby = IF tags # site[s].tags THEN "nobody" ELSE @]
  BY DEF ImportInto
<1> HIDE DEF cat, tags
<1>4. Renewed(q, {s}) /\ x \in SiteRows /\ x.cat = cat
  <2>1. CASE cat = site[s].cat
    <3>1. q = Bump({s})
      BY <2>1
    <3> HIDE DEF q
    <3> QED BY <1>0, <2>1, <3>1, OneBumped
  <2>2. CASE cat # site[s].cat
    <3>1. q = Moved([u \in {s} |-> cat])
      BY <2>2
    <3> HIDE DEF q
    <3> QED BY <1>0, <1>1, <3>1, OneMoved, ZenonT(60)
  <2> QED BY <2>1, <2>2
<1> HIDE DEF q
<1>5. site' = [q EXCEPT ![s] = r]
  BY <1>3
<1>6. b \in Author /\ d \in Author
  BY <1>4, RowTypes DEF Author
<1> HIDE DEF x, b, d
<1>7. Rewrites(r, x) /\ r.cat = cat /\ r.tags = tags
  BY <1>1, <1>4, <1>6 DEF SiteRows, Rewrites
<1> HIDE DEF r
<1>8. NamesStay /\ \A n \in {cat} \cup tags : label'[n] > 0
  BY <1>1, <1>2, EnsuredNames
<1>9. Named(r)
  BY <1>7, <1>8 DEF Named
<1> QED BY <1>0, <1>4, <1>5, <1>7, <1>8, <1>9, OneEdited DEF x

LEMMA AnsweredStep ==
    ASSUME SitesOK, LabelsOK, NEW s \in Sites, NEW c \in Categories, NEW T \in SUBSET Tag, NEW n \in Nat,
           Nameable(T), site' = Answered(s, c, T, n), label' = IF TagsWritable(s) THEN Ensured(T) ELSE label
    PROVE  SiteStep /\ Sites' = Sites
<1> DEFINE cat == IF CategoryWritable(s) THEN c ELSE site[s].cat
           tags == IF TagsWritable(s) THEN T ELSE site[s].tags
           q == IF cat # site[s].cat THEN Moved([u \in {s} |-> cat])
                ELSE IF tags # site[s].tags THEN Bump({s}) ELSE site
           x == q[s]
           b == IF CategoryWritable(s) THEN "model" ELSE x.by
           d == IF TagsWritable(s) THEN "model" ELSE x.tby
           r == [x EXCEPT !.tags = tags, !.text = n, !.by = b, !.tby = d]
<1>0. s \in Site /\ site \in [Site -> SiteRows]
  BY DEF SitesOK, Sites
<1>1. cat \in Category /\ tags \in SUBSET Tag
  BY <1>0, RowTypes DEF Categories
<1>2. site[s].cat \in Categories /\ site[s].tags \subseteq Tags
  BY DEF SitesOK
<1>3. NamesStay /\ label'[cat] > 0 /\ \A m \in tags : label'[m] > 0
  <2>1. CASE TagsWritable(s)
    <3>1. NamesStay /\ \A m \in T : label'[m] > 0
      BY <2>1, EnsuredNames
    <3>2. cat \in Categories
      BY <1>2
    <3> QED BY <2>1, <3>1, <3>2 DEF NamesStay, Categories
  <2>2. CASE ~TagsWritable(s)
    <3>1. cat \in Categories /\ tags = site[s].tags
      BY <1>2, <2>2
    <3> HIDE DEF cat, tags
    <3> QED BY <1>2, <2>2, <3>1, NamesUnchanged DEF Categories, Tags
  <2> QED BY <2>1, <2>2
<1>4. site' = [q EXCEPT ![s].tags = tags, ![s].text = n,
                        ![s].by = IF CategoryWritable(s) THEN "model" ELSE @,
                        ![s].tby = IF TagsWritable(s) THEN "model" ELSE @]
  BY DEF Answered
<1> HIDE DEF cat, tags
<1>5. q[s] \in SiteRows /\ q[s].cat = cat /\ \/ Renewed(q, {s})
                                             \/ q = site /\ tags = site[s].tags
  <2>1. CASE cat # site[s].cat
    <3>1. q = Moved([u \in {s} |-> cat])
      BY <2>1
    <3> HIDE DEF q
    <3> QED BY <1>1, <3>1, OneMoved
  <2>2. CASE cat = site[s].cat /\ tags # site[s].tags
    <3>1. q = Bump({s})
      BY <2>2
    <3> HIDE DEF q
    <3> QED BY <2>2, <3>1, OneBumped
  <2>3. CASE cat = site[s].cat /\ tags = site[s].tags
    BY <1>0, <2>3
  <2> QED BY <2>1, <2>2, <2>3
<1> HIDE DEF q
<1>6. site' = [q EXCEPT ![s] = r]
  BY <1>4
<1>7. b \in Author /\ d \in Author /\ x \in SiteRows
  BY <1>5, RowTypes DEF Author
<1> HIDE DEF x, b, d
<1>8. Rewrites(r, x) /\ r.cat = x.cat /\ r.tags = tags /\ r.rev = x.rev /\ r.key = x.key
  BY <1>1, <1>7 DEF SiteRows, Rewrites
<1> HIDE DEF r
<1>9. Named(r)
  BY <1>3, <1>5, <1>8 DEF Named, x
<1>10. CASE Renewed(q, {s})
  BY <1>3, <1>6, <1>8, <1>9, <1>10, OneEdited DEF x
<1>11. CASE q = site /\ tags = site[s].tags
  <2>1. site' = [site EXCEPT ![s] = r] /\ Rewrites(r, site[s]) /\ r.rev = site[s].rev /\ r.key = site[s].key
        /\ r.tags = site[s].tags
    BY <1>6, <1>8, <1>11 DEF x
  <2> QED BY <1>3, <2>1, OneMarked
<1> QED BY <1>5, <1>10, <1>11

\* A name gets another revision, or goes.
LEMMA OneName ==
    ASSUME LabelsOK, NEW n \in Category \cup Tag, NEW k \in Int, label' = [label EXCEPT ![n] = k],
           k > 0 \/ n # Default
    PROVE  LabelsOK' /\ label'[n] = k /\ \A m \in Category \cup Tag : m # n => label'[m] = label[m]
<1>1. Default \in Category /\ label \in [Category \cup Tag -> Int]
  BY LibraryAssumption DEF LabelsOK
<1> QED BY <1>1 DEF LabelsOK

LEMMA RenameCategoryStep ==
    ASSUME SitesOK, LabelsOK, NEW c \in Category, RenameCategory(c)
    PROVE  SiteStep /\ Sites' = Sites
<1> DEFINE S == {s \in Sites : site[s].cat = c}
           k == label[c] + 1
           q == Bump(S)
<1>0. site \in [Site -> SiteRows] /\ Sites \subseteq Site /\ S \subseteq Sites
  BY DEF SitesOK, Sites
<1>1. k \in Int /\ k > 0 /\ label' = [label EXCEPT ![c] = k] /\ site' = q
  BY DEF RenameCategory, Categories, LabelsOK
<1>2. \A s \in Site : s \in S <=> s \in Sites /\ site[s].cat = c
  BY <1>0
<1> HIDE DEF S, k
<1>3. /\ Renewed(q, S)
      /\ \A s \in S : q[s].cat = site[s].cat /\ q[s].tags = site[s].tags
  BY <1>0, BumpRows
<1> HIDE DEF q
<1>4. LabelsOK' /\ label'[c] > 0 /\ \A m \in Category \cup Tag : m # c => label'[m] = label[m]
  BY <1>1, OneName
<1>5. Takes(q)
  BY <1>1, <1>3 DEF Takes, Renewed
<1>6. \A s \in Sites \ S : /\ site'[s].rev = site[s].rev /\ site'[s].key = site[s].key /\ site'[s].tags = site[s].tags
                           /\ \A n \in {site[s].cat} \cup site[s].tags : label'[n] = label[n]
  <2> SUFFICES ASSUME NEW s \in Sites \ S
               PROVE  /\ site'[s] = site[s]
                      /\ \A n \in {site[s].cat} \cup site[s].tags : label'[n] = label[n]
    OBVIOUS
  <2>1. site'[s] = site[s]
    BY <1>0, <1>1, <1>3 DEF Renewed
  <2>2. site[s].cat # c /\ site[s].cat \in Category /\ site[s].tags \subseteq Tag
    BY <1>0, <1>2 DEF SitesOK, Categories, Tags
  <2>3. c \notin Tag
    BY FirstAssumption
  <2> QED BY <1>4, <2>1, <2>2, <2>3
<1>7. \A s \in S : label'[q[s].cat] > 0 /\ \A g \in site'[s].tags : label'[g] > 0
  <2> SUFFICES ASSUME NEW s \in S
               PROVE  label'[site[s].cat] > 0 /\ \A g \in site[s].tags : label'[g] > 0
    BY <1>1, <1>3
  <2>1. site[s].cat = c /\ site[s].tags \subseteq Tags
    BY <1>0, <1>2 DEF SitesOK
  <2>2. c \notin Tag
    BY FirstAssumption
  <2> QED BY <1>4, <2>1, <2>2 DEF Tags
<1> QED BY <1>0, <1>3, <1>4, <1>5, <1>6, <1>7, RenewedEdits

LEMMA RenameTagStep ==
    ASSUME SitesOK, LabelsOK, NEW g \in Tag, RenameTag(g)
    PROVE  SiteStep /\ Sites' = Sites
<1> DEFINE S == {s \in Sites : g \in site[s].tags}
           k == label[g] + 1
           q == Bump(S)
<1>0. site \in [Site -> SiteRows] /\ Sites \subseteq Site /\ S \subseteq Sites
  BY DEF SitesOK, Sites
<1>1. k \in Int /\ k > 0 /\ label' = [label EXCEPT ![g] = k] /\ site' = q
  BY DEF RenameTag, LabelsOK
<1>2. \A s \in Site : s \in S <=> s \in Sites /\ g \in site[s].tags
  BY <1>0
<1> HIDE DEF S, k
<1>3. /\ Renewed(q, S)
      /\ \A s \in S : q[s].cat = site[s].cat /\ q[s].tags = site[s].tags
  BY <1>0, BumpRows
<1> HIDE DEF q
<1>4. LabelsOK' /\ label'[g] > 0 /\ \A m \in Category \cup Tag : m # g => label'[m] = label[m]
  BY <1>1, OneName
<1>5. Takes(q)
  BY <1>1, <1>3 DEF Takes, Renewed
<1>6. \A s \in Sites \ S : /\ site'[s].rev = site[s].rev /\ site'[s].key = site[s].key /\ site'[s].tags = site[s].tags
                           /\ \A n \in {site[s].cat} \cup site[s].tags : label'[n] = label[n]
  <2> SUFFICES ASSUME NEW s \in Sites \ S
               PROVE  /\ site'[s] = site[s]
                      /\ \A n \in {site[s].cat} \cup site[s].tags : label'[n] = label[n]
    OBVIOUS
  <2>1. site'[s] = site[s]
    BY <1>0, <1>1, <1>3 DEF Renewed
  <2>2. g \notin site[s].tags /\ site[s].cat \in Category /\ site[s].tags \subseteq Tag
    BY <1>0, <1>2 DEF SitesOK, Categories, Tags
  <2>3. g \notin Category
    BY FirstAssumption
  <2> QED BY <1>4, <2>1, <2>2, <2>3
<1>7. \A s \in S : label'[q[s].cat] > 0 /\ \A h \in site'[s].tags : label'[h] > 0
  <2> SUFFICES ASSUME NEW s \in S
               PROVE  label'[site[s].cat] > 0 /\ \A h \in site[s].tags : label'[h] > 0
    BY <1>1, <1>3
  <2>1. site[s].cat \in Categories /\ site[s].tags \subseteq Tags
    BY <1>0 DEF SitesOK
  <2>2. g \notin Category
    BY FirstAssumption
  <2> QED BY <1>4, <2>1, <2>2 DEF Tags, Categories
<1> QED BY <1>0, <1>3, <1>4, <1>5, <1>6, <1>7, RenewedEdits

LEMMA DeleteTagStep ==
    ASSUME SitesOK, LabelsOK, NEW g \in Tag, DeleteTag(g)
    PROVE  SiteStep /\ Sites' = Sites
<1> DEFINE S == {s \in Sites : g \in site[s].tags}
           q == Bump(S)
           k == -1
           d(s) == IF g \in site[s].tags THEN "user" ELSE q[s].tby
<1>0. site \in [Site -> SiteRows] /\ Sites \subseteq Site /\ S \subseteq Sites
  BY DEF SitesOK, Sites
<1>1. k \in Int
  OBVIOUS
<1>1b. label' = [label EXCEPT ![g] = k]
  BY DEF DeleteTag
<1>1a. Default # g
  BY LibraryAssumption, FirstAssumption
<1>2. site' = [s \in Site |-> [q[s] EXCEPT !.tags = @ \ {g}, !.tby = IF g \in site[s].tags THEN "user" ELSE @]]
  BY DEF DeleteTag
<1>3. \A s \in Site : s \in S <=> s \in Sites /\ g \in site[s].tags
  BY <1>0
<1> HIDE DEF S, k
<1>4. /\ Renewed(q, S)
      /\ \A s \in S : q[s].cat = site[s].cat /\ q[s].tags = site[s].tags
  BY <1>0, BumpRows
<1> HIDE DEF q
<1>5. LabelsOK' /\ \A m \in Category \cup Tag : m # g => label'[m] = label[m]
  BY <1>1, <1>1a, <1>1b, OneName
<1>6. ASSUME NEW s \in Site
      PROVE  /\ site'[s] \in SiteRows /\ site'[s].row = q[s].row /\ site'[s].cat = q[s].cat
             /\ site'[s].pos = q[s].pos /\ site'[s].ver = q[s].ver /\ site'[s].tags = q[s].tags \ {g}
             /\ site'[s].rev = q[s].rev /\ site'[s].key = q[s].key
  <2> DEFINE x == q[s]
             T == x.tags \ {g}
             e == d(s)
             r == site'[s]
  <2>1. x \in SiteRows
    BY <1>4 DEF Renewed
  <2>2. r = [x EXCEPT !.tags = T, !.tby = e]
    BY <1>2
  <2>3. T \in SUBSET Tag /\ e \in Author
    BY <2>1, RowTypes DEF Author
  <2> HIDE DEF x, T, e, r
  <2>4. /\ r \in SiteRows /\ r.row = x.row /\ r.cat = x.cat /\ r.pos = x.pos /\ r.ver = x.ver /\ r.tags = T
        /\ r.rev = x.rev /\ r.key = x.key
    BY <2>1, <2>2, <2>3 DEF SiteRows
  <2> QED BY <2>4 DEF x, T, r
<1>7. site' = [s \in Site |-> site'[s]]
  BY <1>2
<1>8. Takes(q)
  BY <1>6, <1>7 DEF Takes
<1>9. \A s \in Sites \ S : /\ site'[s].rev = site[s].rev /\ site'[s].key = site[s].key /\ site'[s].tags = site[s].tags
                           /\ \A n \in {site[s].cat} \cup site[s].tags : label'[n] = label[n]
  <2> SUFFICES ASSUME NEW s \in Sites \ S
               PROVE  /\ site'[s].rev = site[s].rev /\ site'[s].key = site[s].key /\ site'[s].tags = site[s].tags
                      /\ \A n \in {site[s].cat} \cup site[s].tags : label'[n] = label[n]
    OBVIOUS
  <2>1. q[s] = site[s]
    BY <1>0, <1>4 DEF Renewed
  <2>2. g \notin site[s].tags /\ site[s].cat \in Category /\ site[s].tags \subseteq Tag
    BY <1>0, <1>3 DEF SitesOK, Categories, Tags
  <2>3. g \notin Category
    BY FirstAssumption
  <2>4. site[s].tags \ {g} = site[s].tags
    BY <2>2
  <2>5. site'[s].rev = site[s].rev /\ site'[s].key = site[s].key /\ site'[s].tags = site[s].tags
    BY <1>0, <1>6, <2>1, <2>4
  <2> QED BY <1>5, <2>2, <2>3, <2>5
<1>10. \A s \in S : label'[q[s].cat] > 0 /\ \A h \in site'[s].tags : label'[h] > 0
  <2> SUFFICES ASSUME NEW s \in S
               PROVE  label'[site[s].cat] > 0 /\ \A h \in site[s].tags \ {g} : label'[h] > 0
    BY <1>0, <1>4, <1>6
  <2>1. site[s].cat \in Categories /\ site[s].tags \subseteq Tags
    BY <1>0 DEF SitesOK
  <2>2. g \notin Category
    BY FirstAssumption
  <2> QED BY <1>5, <2>1, <2>2 DEF Tags, Categories
<1> QED BY <1>0, <1>4, <1>5, <1>8, <1>9, <1>10, RenewedEdits

LEMMA DeleteCategoryStep ==
    ASSUME SitesOK, LabelsOK, NEW c \in Category, DeleteCategory(c)
    PROVE  SiteStep /\ Sites' = Sites
<1> DEFINE S == {s \in Sites : site[s].cat = c}
           to == [s \in S |-> Default]
           q == Moved(to)
           k == -1
<1>0. site \in [Site -> SiteRows] /\ Sites \subseteq Site /\ S \subseteq Sites
  BY DEF SitesOK, Sites
<1>1. k \in Int /\ c # Default /\ label' = [label EXCEPT ![c] = k]
  BY DEF DeleteCategory
<1>2. site' = [s \in Site |-> IF s \in S THEN [q[s] EXCEPT !.by = "nobody"] ELSE q[s]]
  BY DEF DeleteCategory
<1>3. \A s \in Site : s \in S <=> s \in Sites /\ site[s].cat = c
  BY <1>0
<1>4. DOMAIN to = S /\ \A s \in S : to[s] = Default
  OBVIOUS
<1>5. Default \in Category /\ label[Default] > 0
  BY LibraryAssumption DEF LabelsOK
<1> HIDE DEF S, k, to
<1>6. /\ Renewed(q, S)
      /\ \A s \in S : q[s].cat = Default /\ q[s].tags = site[s].tags
  <2>1. \A s \in DOMAIN to : to[s] \in Category
    BY <1>4, <1>5
  <2>2. DOMAIN to \subseteq Sites
    BY <1>0, <1>4
  <2> HIDE DEF q
  <2>3. q = Moved(to)
    BY DEF q
  <2> QED BY <1>4, <2>1, <2>2, <2>3, MovedRows
<1> HIDE DEF q
<1>7. LabelsOK' /\ \A m \in Category \cup Tag : m # c => label'[m] = label[m]
  BY <1>1, OneName
<1>8. ASSUME NEW s \in Site
      PROVE  /\ site'[s] \in SiteRows /\ site'[s].row = q[s].row /\ site'[s].cat = q[s].cat
             /\ site'[s].pos = q[s].pos /\ site'[s].ver = q[s].ver /\ site'[s].tags = q[s].tags
             /\ site'[s].rev = q[s].rev /\ site'[s].key = q[s].key
  <2> DEFINE x == q[s]
             r == site'[s]
  <2>1. x \in SiteRows
    BY <1>6 DEF Renewed
  <2>2. r = [x EXCEPT !.by = "nobody"] \/ r = x
    BY <1>2
  <2> HIDE DEF x, r
  <2>3. /\ r \in SiteRows /\ r.row = x.row /\ r.cat = x.cat /\ r.pos = x.pos /\ r.ver = x.ver /\ r.tags = x.tags
        /\ r.rev = x.rev /\ r.key = x.key
    BY <2>1, <2>2 DEF SiteRows, Author
  <2> QED BY <2>3 DEF x, r
<1>9. site' = [s \in Site |-> site'[s]]
  BY <1>2
<1>10. Takes(q)
  BY <1>8, <1>9 DEF Takes
<1>11. \A s \in Sites \ S : /\ site'[s].rev = site[s].rev /\ site'[s].key = site[s].key /\ site'[s].tags = site[s].tags
                            /\ \A n \in {site[s].cat} \cup site[s].tags : label'[n] = label[n]
  <2> SUFFICES ASSUME NEW s \in Sites \ S
               PROVE  /\ site'[s].rev = site[s].rev /\ site'[s].key = site[s].key /\ site'[s].tags = site[s].tags
                      /\ \A n \in {site[s].cat} \cup site[s].tags : label'[n] = label[n]
    OBVIOUS
  <2>1. q[s] = site[s]
    BY <1>0, <1>6 DEF Renewed
  <2>2. site[s].cat # c /\ site[s].cat \in Category /\ site[s].tags \subseteq Tag
    BY <1>0, <1>3 DEF SitesOK, Categories, Tags
  <2>3. c \notin Tag
    BY FirstAssumption
  <2>4. site'[s].rev = site[s].rev /\ site'[s].key = site[s].key /\ site'[s].tags = site[s].tags
    BY <1>0, <1>8, <2>1
  <2> QED BY <1>7, <2>2, <2>3, <2>4
<1>12. \A s \in S : label'[q[s].cat] > 0 /\ \A h \in site'[s].tags : label'[h] > 0
  <2> SUFFICES ASSUME NEW s \in S
               PROVE  label'[Default] > 0 /\ \A h \in site[s].tags : label'[h] > 0
    BY <1>0, <1>6, <1>8
  <2>1. site[s].tags \subseteq Tags
    BY <1>0 DEF SitesOK
  <2>2. c \notin Tag
    BY FirstAssumption
  <2> QED BY <1>1, <1>5, <1>7, <2>1, <2>2 DEF Tags
<1> QED BY <1>0, <1>6, <1>7, <1>10, <1>11, <1>12, RenewedEdits

LEMMA ReclassifyStep ==
    ASSUME SitesOK, LabelsOK, NEW t, Reclassify(t)
    PROVE  SiteStep /\ Sites' = Sites
<1>1. PICK K \in SUBSET Key : \E answer \in [K -> Categories] :
         site' = Moved([s \in {u \in Sites : site[u].key \in K /\ site[u].cat # answer[site[u].key]}
                          |-> answer[site[s].key]])
  BY DEF Reclassify
<1>2. PICK answer \in [K -> Categories] :
         site' = Moved([s \in {u \in Sites : site[u].key \in K /\ site[u].cat # answer[site[u].key]}
                          |-> answer[site[s].key]])
  BY <1>1
<1> DEFINE S == {u \in Sites : site[u].key \in K /\ site[u].cat # answer[site[u].key]}
           to == [s \in S |-> answer[site[s].key]]
<1>3. site' = Moved(to) /\ UNCHANGED label
  BY <1>2 DEF Reclassify
<1>4. DOMAIN to = S /\ S \subseteq Sites /\ \A s \in S : to[s] \in Categories
  OBVIOUS
<1> HIDE DEF to, S
<1>5. \A s \in DOMAIN to : to[s] \in Category
  BY <1>4 DEF Categories
<1>6. /\ Renewed(site', S)
      /\ \A s \in S : site'[s].cat = to[s] /\ site'[s].tags = site[s].tags
  BY <1>3, <1>4, <1>5, MovedRows
<1>7. NamesStay
  BY <1>3, NamesUnchanged
<1>8. Takes(site')
  BY <1>6 DEF Takes, Renewed
<1>9. \A s \in Sites \ S : /\ site'[s] = site[s]
                           /\ \A n \in {site[s].cat} \cup site[s].tags : label'[n] = label[n]
  BY <1>3, <1>6 DEF Renewed, Sites
<1>10. \A s \in S : label'[site'[s].cat] > 0 /\ \A g \in site'[s].tags : label'[g] > 0
  BY <1>3, <1>4, <1>6 DEF SitesOK, Categories, Tags
<1>11. LabelsOK'
  BY <1>7 DEF NamesStay
<1> QED BY <1>4, <1>6, <1>8, <1>9, <1>10, <1>11, RenewedEdits

LEMMA EnrichStep ==
    ASSUME SitesOK, LabelsOK, NEW t, NEW c, NEW T \in SUBSET Tag, Enrich(t, c, T)
    PROVE  SiteStep /\ Sites' = Sites
<1> DEFINE s == req[t].site
<1>1. s \in Sites /\ c \in Categories /\ Nameable(T)
      /\ label' = IF TagsWritable(s) THEN Ensured(T) ELSE label
  BY DEF Enrich
<1>2. PICK n \in {site[s].text, site[s].text + 1} : site' = Answered(s, c, T, n)
  BY DEF Enrich
<1>3. site[s].text \in Nat
  BY <1>1, RowTypes DEF SitesOK, Sites
<1>4. n \in Nat
  BY <1>2, <1>3
<1> HIDE DEF s
<1> QED BY <1>1, <1>2, <1>4, AnsweredStep

\* Nothing happens to the Sites, or a name is new.
LEMMA SitesStay ==
    ASSUME SitesOK, NamesStay, UNCHANGED site
    PROVE  SiteStep /\ Sites' = Sites
<1>1. Renewed(site, {}) /\ Takes(site)
  BY DEF Renewed, Takes, SitesOK
<1>2. \A s \in Sites : \A n \in {site[s].cat} \cup site[s].tags : label'[n] = label[n]
  BY SameNames
<1>3. LabelsOK'
  BY DEF NamesStay
<1> QED BY <1>1, <1>2, <1>3, RenewedEdits

LEMMA CreateNameStep ==
    ASSUME SitesOK, LabelsOK, NEW n \in Category \cup Tag, CreateName(n)
    PROVE  SiteStep /\ Sites' = Sites
<1>1. label[n] = 0 /\ label' = [label EXCEPT ![n] = 1] /\ UNCHANGED site
  BY DEF CreateName
<1>1a. 1 \in Int /\ 1 > 0
  OBVIOUS
<1>2. LabelsOK' /\ \A m \in Category \cup Tag : m # n => label'[m] = label[m]
  BY <1>1, <1>1a, OneName
<1>3. NamesStay
  BY <1>1, <1>2 DEF NamesStay, LabelsOK
<1> QED BY <1>1, <1>3, SitesStay

LEMMA NewSite ==
    ASSUME SitesOK, NamesStay, NEW s \in Site, site[s].row = "absent", NEW r \in SiteRows,
           r.row = "there", r.pos = CategoryEnd(r.cat), Named(r), site' = [site EXCEPT ![s] = r]
    PROVE  SiteStep /\ Sites \subseteq Sites'
<1>0. site \in [Site -> SiteRows] /\ Sites \subseteq Site /\ s \notin Sites
  BY DEF SitesOK, Sites
<1>1. site'[s] = r /\ \A u \in Site \ {s} : site'[u] = site[u]
  BY <1>0
<1>2. site' \in [Site -> SiteRows]
  BY <1>0
<1>3. Sites' = Sites \cup {s}
  BY <1>0, <1>1 DEF Sites
<1>4. \A u \in Sites : Untouched(u)
  BY <1>0, <1>1, SameNames DEF Untouched
<1>5. \A u \in Sites' : site'[u].cat \in Categories' /\ site'[u].tags \subseteq Tags'
  <2> SUFFICES ASSUME NEW u \in Sites' PROVE site'[u].cat \in Categories' /\ site'[u].tags \subseteq Tags'
    OBVIOUS
  <2>1. CASE u = s
    BY <1>1, <2>1, RowTypes DEF Named, Categories, Tags
  <2>2. CASE u \in Sites
    BY <1>0, <1>1, <2>2, SameNames DEF SitesOK, Categories, Tags
  <2> QED BY <1>3, <2>1, <2>2
<1>6. \A u, v \in Sites' : u # v /\ site'[u].cat = site'[v].cat => site'[u].pos # site'[v].pos
  <2>1. r.pos \in Nat /\ \A u \in Sites : site[u].cat = r.cat => site[u].pos \in Nat /\ site[u].pos < r.pos
    BY <1>0, CategoryEndIs, RowTypes
  <2>2. \A u \in Sites : site'[u].cat = r.cat => site'[u].pos # r.pos
    BY <1>0, <1>1, <2>1
  <2>3. \A u, v \in Sites : u # v /\ site'[u].cat = site'[v].cat => site'[u].pos # site'[v].pos
    BY <1>0, <1>1 DEF SitesOK
  <2> QED BY <1>1, <1>3, <2>2, <2>3
<1>7. SitesOK'
  BY <1>2, <1>5, <1>6 DEF SitesOK
<1>8. ASSUME NEW u \in Site, site[u].row # "absent"
      PROVE  /\ site'[u].row # "absent" /\ (u \in Sites' => u \in Sites)
             /\ site[u].ver <= site'[u].ver
             /\ u \in Sites' /\ site'[u].ver = site[u].ver => Shown(u)' = Shown(u)
  <2>1. u # s /\ site'[u] = site[u] /\ site[u].ver \in Nat
    BY <1>0, <1>1, <1>8, RowTypes
  <2>2. u \in Sites' => u \in Sites
    BY <1>3, <2>1
  <2> QED BY <1>4, <1>8, <2>1, <2>2, ShownSame
<1>9. LabelsOK'
  BY DEF NamesStay
<1> QED BY <1>3, <1>7, <1>8, <1>9 DEF SiteStep

LEMMA CreateSiteStep ==
    ASSUME SitesOK, LabelsOK, NEW s \in Site, NEW k \in Key, NEW c, NEW T, CreateSite(s, k, c, T)
    PROVE  SiteStep /\ Sites \subseteq Sites'
<1> DEFINE p == CategoryEnd(c)
           b == IF c = Default THEN "nobody" ELSE "user"
           d == IF T = {} THEN "nobody" ELSE "user"
           r == [row |-> "there", cat |-> c, pos |-> p, ver |-> 1, rev |-> 1, text |-> 0,
                 key |-> k, by |-> b, tags |-> T, tby |-> d]
<1>1. c \in Categories /\ T \subseteq Tags /\ site[s].row = "absent" /\ UNCHANGED label
      /\ site' = [site EXCEPT ![s] = r]
  BY DEF CreateSite
<1>2. p \in Nat /\ b \in Author /\ d \in Author
  BY CategoryEndIs DEF Author
<1>3. c \in Category /\ T \in SUBSET Tag
  BY <1>1 DEF Categories, Tags
<1> HIDE DEF b, d
<1>4. r.row = "there" /\ r.pos = CategoryEnd(r.cat) /\ r.cat = c /\ r.tags = T
  OBVIOUS
<1> HIDE DEF p
<1>5. r \in SiteRows
  BY <1>2, <1>3 DEF SiteRows, Row
<1> HIDE DEF r
<1>6. Named(r)
  BY <1>1, <1>4 DEF Named, Categories, Tags
<1> QED BY <1>1, <1>4, <1>5, <1>6, NamesUnchanged, NewSite

LEMMA ImportSiteStep ==
    ASSUME SitesOK, LabelsOK, NEW s \in Site, NEW k \in Key, NEW c \in Category, NEW T \in SUBSET Tag,
           ImportSite(s, k, c, T)
    PROVE  SiteStep /\ Sites \subseteq Sites'
<1> DEFINE p == CategoryEnd(c)
           N == {c} \cup T
           r == [row |-> "there", cat |-> c, pos |-> p, ver |-> 1, rev |-> 1, text |-> 0,
                 key |-> k, by |-> "nobody", tags |-> T, tby |-> "nobody"]
<1>1. Nameable(N) /\ site[s].row = "absent" /\ label' = Ensured(N) /\ site' = [site EXCEPT ![s] = r]
  BY DEF ImportSite
<1>2. p \in Nat
  BY CategoryEndIs
<1>3. r.row = "there" /\ r.pos = CategoryEnd(r.cat) /\ r.cat = c /\ r.tags = T
  OBVIOUS
<1> HIDE DEF p
<1>4. r \in SiteRows
  BY <1>2 DEF SiteRows, Row, Author
<1>5. N \in SUBSET (Category \cup Tag) /\ c \in N /\ T \subseteq N
  OBVIOUS
<1> HIDE DEF r, N
<1>6. NamesStay /\ \A n \in N : label'[n] > 0
  BY <1>1, <1>5, EnsuredNames
<1>7. Named(r)
  BY <1>3, <1>5, <1>6 DEF Named
<1> QED BY <1>1, <1>3, <1>4, <1>6, <1>7, NewSite

-----------------------------------------------------------------------------
(* Members, each once and at a place of its own. *)
OncePlaced(mem) ==
    mem \in SUBSET (Site \X Nat) /\ \A m, n \in mem : m[1] = n[1] \/ m[2] = n[2] => m = n

LEMMA MembersFinite ==
    ASSUME NEW mem, OncePlaced(mem)
    PROVE  IsFiniteSet(mem)
<1> DEFINE f == [m \in mem |-> m[1]]
<1>1. f \in [mem -> Site] /\ \A m, n \in mem : f[m] = f[n] => m = n
  BY DEF OncePlaced
<1> HIDE DEF f
<1>2. f \in Injection(mem, Site)
  BY <1>1 DEF Injection, IsInjective
<1>3. IsFiniteSet(Site)
  BY LibraryAssumption
<1> QED BY <1>2, <1>3, FS_Injection

LEMMA ReorderedIs ==
    ASSUME NEW mem, OncePlaced(mem), NEW s
    PROVE  /\ OncePlaced(Reordered(mem, s))
           /\ {m[1] : m \in Reordered(mem, s)} = {m[1] : m \in mem}
<1> DEFINE B(m) == {n \in mem : n[1] # s /\ n[2] < m[2]}
           rank(m) == IF m[1] = s THEN 0 ELSE 1 + Cardinality(B(m))
           new == {<<m[1], rank(m)>> : m \in mem}
<1>1. Reordered(mem, s) = new
  BY DEF Reordered
<1>2. \A m \in mem : m[1] \in Site /\ m[2] \in Nat
  BY DEF OncePlaced
<1>3. \A m \in mem : IsFiniteSet(B(m)) /\ Cardinality(B(m)) \in Nat
  <2>1. IsFiniteSet(mem) /\ \A m \in mem : B(m) \in SUBSET mem
    BY MembersFinite
  <2> HIDE DEF B
  <2>2. \A m \in mem : IsFiniteSet(B(m))
    BY <2>1, FS_Subset
  <2> QED BY <2>2, FS_CardinalityType
<1> HIDE DEF B
<1>4. \A m \in mem : rank(m) \in Nat
  BY <1>3
<1>5. ASSUME NEW m \in mem, NEW n \in mem, m[1] # s, n[1] # s, m[2] < n[2] PROVE rank(m) < rank(n)
  <2>1. \A x \in B(m) : x \in B(n)
    BY <1>2, <1>5 DEF B
  <2>2. m \in B(n) /\ m \notin B(m)
    BY <1>2, <1>5 DEF B
  <2>3. Cardinality(B(m)) < Cardinality(B(n))
    <3>1. IsFiniteSet(B(n)) /\ B(m) \in SUBSET B(n) /\ m \in B(n)
      BY <1>3, <2>1, <2>2 DEF B
    <3> QED BY <2>2, <3>1, CountsMore
  <2> QED BY <1>3, <1>5, <2>3
<1>6. ASSUME NEW m \in mem, NEW n \in mem, rank(m) = rank(n) PROVE m = n
  <2>1. CASE m[1] = s /\ n[1] = s
    BY <2>1 DEF OncePlaced
  <2>2. CASE m[1] = s /\ n[1] # s
    BY <1>3, <1>6, <2>2
  <2>3. CASE m[1] # s /\ n[1] = s
    BY <1>3, <1>6, <2>3
  <2>4. CASE m[1] # s /\ n[1] # s
    <3>1. ~(m[2] < n[2]) /\ ~(n[2] < m[2])
      <4> HIDE DEF rank
      <4> QED BY <1>4, <1>5, <1>6, <2>4
    <3>2. m[2] = n[2]
      BY <1>2, <3>1
    <3> QED BY <3>2 DEF OncePlaced
  <2> QED BY <2>1, <2>2, <2>3, <2>4
<1> HIDE DEF rank
<1>7. new \in SUBSET (Site \X Nat)
  BY <1>2, <1>4
<1>8. \A x, y \in new : x[1] = y[1] \/ x[2] = y[2] => x = y
  <2> SUFFICES ASSUME NEW m \in mem, NEW n \in mem, m[1] = n[1] \/ rank(m) = rank(n)
               PROVE  <<m[1], rank(m)>> = <<n[1], rank(n)>>
    OBVIOUS
  <2>1. m = n
    BY <1>6 DEF OncePlaced
  <2> QED BY <2>1
<1>9. {m[1] : m \in new} = {m[1] : m \in mem}
  <2>1. \A x \in new : \E m \in mem : x[1] = m[1]
    OBVIOUS
  <2>2. \A m \in mem : <<m[1], rank(m)>> \in new /\ <<m[1], rank(m)>>[1] = m[1]
    OBVIOUS
  <2> HIDE DEF new
  <2>3. \A m \in mem : \E x \in new : x[1] = m[1]
    BY <2>2
  <2> QED BY <2>1, <2>3
<1> QED BY <1>1, <1>7, <1>8, <1>9 DEF OncePlaced

LEMMA ReorderSitesStep ==
    ASSUME SitesOK, LabelsOK, NEW s \in Sites, ReorderSites(s)
    PROVE  SiteStep /\ Sites' = Sites
<1> DEFINE c == site[s].cat
           S == {u \in Sites : site[u].cat = c}
           mem == {<<u, site[u].pos>> : u \in S}
           new == Reordered(mem, s)
           place(u) == (CHOOSE m \in new : m[1] = u)[2]
<1>0. site \in [Site -> SiteRows] /\ Sites \subseteq Site
  BY DEF SitesOK, Sites
<1>1. /\ site' = [u \in Site |-> IF \E m \in new : m[1] = u THEN [site[u] EXCEPT !.pos = place(u)] ELSE site[u]]
      /\ UNCHANGED label
  BY DEF ReorderSites
<1>2. \A u \in Site : u \in S <=> u \in Sites /\ site[u].cat = c
  BY <1>0
<1>3. S \subseteq Sites
  OBVIOUS
<1>4. OncePlaced(mem) /\ {m[1] : m \in mem} = S
  <2> HIDE DEF S
  <2>1. \A u \in S : site[u].pos \in Nat /\ u \in Site
    BY <1>0, <1>3, RowTypes
  <2>2. mem \in SUBSET (Site \X Nat)
    BY <2>1
  <2>3. \A u, v \in S : site[u].pos = site[v].pos => u = v
    BY <1>0, <1>2, <1>3 DEF SitesOK
  <2>4. \A m \in mem : m[1] \in S /\ m[2] = site[m[1]].pos /\ m = <<m[1], m[2]>>
    OBVIOUS
  <2>5. \A u \in S : <<u, site[u].pos>> \in mem /\ <<u, site[u].pos>>[1] = u
    OBVIOUS
  <2> HIDE DEF mem
  <2>6. \A m, n \in mem : m[1] = n[1] \/ m[2] = n[2] => m = n
    BY <2>3, <2>4
  <2>7. \A u \in S : \E m \in mem : m[1] = u
    BY <2>5
  <2> QED BY <2>2, <2>4, <2>6, <2>7 DEF OncePlaced
<1> HIDE DEF mem, S
<1>5. OncePlaced(new) /\ {m[1] : m \in new} = S
  BY <1>4, ReorderedIs
<1> HIDE DEF new
<1>6. \A u \in S : \E m \in new : m[1] = u
  <2> SUFFICES ASSUME NEW u \in S PROVE \E m \in new : m[1] = u
    OBVIOUS
  <2>1. u \in {m[1] : m \in new}
    BY <1>5
  <2> QED BY <2>1
<1>7. \A m \in new : m[1] \in S
  BY <1>5
<1>8. \A u \in S : \E m \in new : m[1] = u /\ place(u) = m[2]
  BY <1>6
<1>9. \A u \in S : place(u) \in Nat
  <2>1. \A m \in new : m[2] \in Nat
    BY <1>5 DEF OncePlaced
  <2> QED BY <1>8, <2>1
<1>10. \A u, v \in S : place(u) = place(v) => u = v
  <2> SUFFICES ASSUME NEW u \in S, NEW v \in S, place(u) = place(v) PROVE u = v
    OBVIOUS
  <2> HIDE DEF place
  <2>1. PICK m \in new : m[1] = u /\ place(u) = m[2]
    BY <1>8
  <2>2. PICK n \in new : n[1] = v /\ place(v) = n[2]
    BY <1>8
  <2> QED BY <1>5, <2>1, <2>2 DEF OncePlaced
<1> HIDE DEF place
<1>11. \A u \in Site : site'[u] = IF u \in S THEN [site[u] EXCEPT !.pos = place(u)] ELSE site[u]
  BY <1>1, <1>6, <1>7
<1>12. ASSUME NEW u \in Site
       PROVE  /\ site'[u] \in SiteRows /\ site'[u].row = site[u].row /\ site'[u].cat = site[u].cat
              /\ site'[u].ver = site[u].ver /\ site'[u].tags = site[u].tags
              /\ site'[u].rev = site[u].rev /\ site'[u].key = site[u].key
              /\ site'[u].pos = IF u \in S THEN place(u) ELSE site[u].pos
  <2> DEFINE x == site[u]
             p == IF u \in S THEN place(u) ELSE x.pos
             r == site'[u]
  <2>1. x \in SiteRows /\ p \in Nat
    BY <1>0, <1>9, RowTypes
  <2>2. r = [x EXCEPT !.pos = p] \/ (r = x /\ p = x.pos)
    BY <1>11
  <2> HIDE DEF x, r, p
  <2>3. /\ r \in SiteRows /\ r.row = x.row /\ r.cat = x.cat /\ r.pos = p /\ r.ver = x.ver /\ r.tags = x.tags
        /\ r.rev = x.rev /\ r.key = x.key
    BY <2>1, <2>2 DEF SiteRows
  <2> QED BY <2>3 DEF x, p, r
<1>13. site' \in [Site -> SiteRows]
  <2>1. site' = [u \in Site |-> site'[u]]
    BY <1>1
  <2> QED BY <1>12, <2>1
<1>14. \A u, v \in Sites : u # v /\ site'[u].cat = site'[v].cat => site'[u].pos # site'[v].pos
  <2> SUFFICES ASSUME NEW u \in Sites, NEW v \in Sites, u # v, site[u].cat = site[v].cat
               PROVE  site'[u].pos # site'[v].pos
    BY <1>0, <1>12
  <2>1. CASE u \in S
    <3>1. v \in S
      BY <1>0, <1>2, <2>1
    <3> QED BY <1>0, <1>10, <1>12, <2>1, <3>1
  <2>2. CASE u \notin S
    <3>1. v \notin S
      BY <1>0, <1>2, <2>2
    <3>2. site'[u].pos = site[u].pos /\ site'[v].pos = site[v].pos
      BY <1>0, <1>12, <2>2, <3>1
    <3> QED BY <3>2 DEF SitesOK
  <2> QED BY <2>1, <2>2
<1>15. NamesStay
  BY <1>1, NamesUnchanged
<1>16. \A u \in Sites : Untouched(u) /\ site'[u].cat \in Categories' /\ site'[u].tags \subseteq Tags'
  <2> SUFFICES ASSUME NEW u \in Sites PROVE Untouched(u) /\ site'[u].cat \in Categories' /\ site'[u].tags \subseteq Tags'
    OBVIOUS
  <2>1. site[u].cat \in Categories /\ site[u].tags \subseteq Tags
    BY DEF SitesOK
  <2> QED BY <1>0, <1>1, <1>12, <2>1 DEF Untouched, Categories, Tags
<1>17. Edited
  BY <1>0, <1>12, <1>13, <1>14, <1>15, <1>16 DEF Edited, NamesStay
<1> QED BY <1>17, EditedStep

-----------------------------------------------------------------------------
(* What a step may do to the Spaces. *)
SpaceStep ==
    /\ SpacesOK' /\ MakesNew'
    /\ \A p \in Space : /\ space[p].ver <= space'[p].ver
                        /\ space[p].row # "absent" => space'[p].row # "absent"
                        /\ p \in Spaces' /\ space'[p].ver = space[p].ver
                             => p \in Spaces /\ space'[p].mem = {m \in space[p].mem : m[1] \in Sites'}

LEMMA SpaceTypes ==
    ASSUME NEW x \in SpaceRows
    PROVE  x.row \in Row /\ x.ver \in Nat /\ x.mem \in SUBSET (Site \X Nat)
           /\ x = [row |-> x.row, ver |-> x.ver, mem |-> x.mem]
BY DEF SpaceRows

\* The members of a Space.
LEMMA MembersAre ==
    ASSUME SpacesOK, NEW p \in Space
    PROVE  OncePlaced(space[p].mem) /\ Members(p) \subseteq Sites /\ IsFiniteSet(space[p].mem)
<1>1. OncePlaced(space[p].mem)
  BY SpaceTypes DEF SpacesOK, OncePlaced
<1>2. Members(p) \subseteq Sites
  BY DEF SpacesOK, Members
<1> QED BY <1>1, <1>2, MembersFinite

LEMMA SpaceEndIs ==
    ASSUME SpacesOK, NEW p \in Space
    PROVE  SpaceEnd(p) \in Nat /\ \A m \in space[p].mem : m[2] < SpaceEnd(p)
<1> DEFINE S == space[p].mem
           f == [m \in S |-> m[2]]
<1>1. IsFiniteSet(S) /\ OncePlaced(S)
  BY MembersAre
<1>2. f \in [S -> Nat]
  BY <1>1 DEF OncePlaced
<1>3. {f[x] : x \in S} = {m[2] : m \in S} /\ \A m \in S : f[m] = m[2]
  OBVIOUS
<1> HIDE DEF f
<1>4. After({f[x] : x \in S}) \in Nat /\ \A m \in S : f[m] < After({f[x] : x \in S})
  BY <1>1, <1>2, AfterAll
<1>5. SpaceEnd(p) = After({f[x] : x \in S})
  BY <1>3 DEF SpaceEnd
<1> QED BY <1>3, <1>4, <1>5

\* A step that leaves the Spaces alone and takes no Site away.
LEMMA SpacesStay ==
    ASSUME SpacesOK, MakesNew, UNCHANGED space, Sites \subseteq Sites',
           \A o \in Op : receipt[o] # None => receipt'[o] # None
    PROVE  SpaceStep
<1>1. SpacesOK'
  BY DEF SpacesOK, Spaces
<1>2. MakesNew'
  BY DEF MakesNew, Of
<1>3. \A p \in Space : space[p].ver \in Nat
  BY SpaceTypes DEF SpacesOK
<1>4. \A p \in Space : space[p].mem = {m \in space[p].mem : m[1] \in Sites'}
  BY DEF SpacesOK
<1> QED BY <1>1, <1>2, <1>3, <1>4 DEF SpaceStep, Spaces

\* One Space changes, under a new version or for good.
LEMMA OneSpace ==
    ASSUME SpacesOK, MakesNew, NEW p \in Space, NEW r \in SpaceRows, space' = [space EXCEPT ![p] = r],
           Sites' = Sites, \A o \in Op : receipt[o] # None => receipt'[o] # None,
           OncePlaced(r.mem), \A m \in r.mem : m[1] \in Sites,
           \/ r.row = "there" /\ r.ver = space[p].ver + 1
           \/ r.row = "gone" /\ r.ver = space[p].ver /\ r.mem = {},
           space[p].row = "absent" => \A o \in Op : Plan[o].create /\ Of(o) = p => receipt'[o] # None
    PROVE  SpaceStep
<1>1. space'[p] = r /\ \A q \in Space \ {p} : space'[q] = space[q]
  BY DEF SpacesOK
<1>2. space' \in [Space -> SpaceRows]
  BY DEF SpacesOK
<1>3. \A q \in Space : space[q].ver \in Nat /\ space'[q].ver \in Nat
  BY <1>2, SpaceTypes DEF SpacesOK
<1>4. SpacesOK'
  <2>1. r.row # "absent" /\ (r.row # "there" => r.mem = {})
    OBVIOUS
  <2>2. \A q \in Space :
             /\ space'[q].row = "absent" => space'[q].ver = 0
             /\ q \notin Spaces' => space'[q].mem = {}
             /\ \A m \in space'[q].mem : m[1] \in Sites'
             /\ \A m, n \in space'[q].mem : m[1] = n[1] \/ m[2] = n[2] => m = n
    <3> SUFFICES ASSUME NEW q \in Space
                 PROVE  /\ space'[q].row = "absent" => space'[q].ver = 0
                        /\ q \notin Spaces' => space'[q].mem = {}
                        /\ \A m \in space'[q].mem : m[1] \in Sites'
                        /\ \A m, n \in space'[q].mem : m[1] = n[1] \/ m[2] = n[2] => m = n
      OBVIOUS
    <3>1. CASE q = p
      BY <1>1, <2>1, <3>1 DEF Spaces, OncePlaced
    <3>2. CASE q # p
      BY <1>1, <3>2 DEF SpacesOK, Spaces
    <3> QED BY <3>1, <3>2
  <2> QED BY <1>2, <2>2 DEF SpacesOK
<1>5. MakesNew'
  <2> SUFFICES ASSUME NEW o \in Op, Plan[o].create, receipt'[o] = None PROVE space'[Of(o)].row = "absent"
    BY DEF MakesNew, Of
  <2>1. space[Of(o)].row = "absent" /\ Of(o) \in Space
    BY LibraryAssumption DEF MakesNew, Of
  <2>2. Of(o) # p
    BY <2>1
  <2> QED BY <1>1, <2>1, <2>2
<1>6. ASSUME NEW q \in Space
      PROVE  /\ space[q].ver <= space'[q].ver
             /\ space[q].row # "absent" => space'[q].row # "absent"
             /\ q \in Spaces' /\ space'[q].ver = space[q].ver
                             => q \in Spaces /\ space'[q].mem = {m \in space[q].mem : m[1] \in Sites'}
  <2>1. CASE q = p
    BY <1>1, <1>3, <2>1 DEF Spaces
  <2>2. CASE q # p
    <3>1. space[q].mem = {m \in space[q].mem : m[1] \in Sites'}
      BY DEF SpacesOK
    <3> QED BY <1>1, <1>3, <2>2, <3>1 DEF Spaces
  <2> QED BY <2>1, <2>2
<1> QED BY <1>4, <1>5, <1>6 DEF SpaceStep

ReceiptsStay == \A o \in Op : receipt[o] # None => receipt'[o] # None

LEMMA ClaimStep ==
    ASSUME SpacesOK, MakesNew, UNCHANGED site, ReceiptsStay, NEW p \in Spaces, NEW mem,
           OncePlaced(mem), \A m \in mem : m[1] \in Sites, space' = [space EXCEPT ![p] = Claimed(p, mem)]
    PROVE  SpaceStep
<1> DEFINE x == space[p]
           v == x.ver + 1
           r == Claimed(p, mem)
<1>1. p \in Space /\ x \in SpaceRows /\ x.row = "there" /\ Sites' = Sites
  BY DEF SpacesOK, Spaces, Sites
<1>2. v \in Nat
  BY <1>1, SpaceTypes
<1>3. r = [x EXCEPT !.ver = v, !.mem = mem]
  BY DEF Claimed
<1> HIDE DEF x, v, r
<1>4. r = [row |-> x.row, ver |-> v, mem |-> mem] /\ x.row \in Row
  BY <1>1, <1>3 DEF SpaceRows
<1>5. r \in SpaceRows /\ r.row = x.row /\ r.ver = v /\ r.mem = mem
  BY <1>2, <1>4 DEF SpaceRows, OncePlaced
<1>6. r.row = "there" /\ r.ver = space[p].ver + 1 /\ space[p].row # "absent"
  BY <1>1, <1>5 DEF x, v
<1>7. space' = [space EXCEPT ![p] = r]
  BY DEF r
<1> QED BY <1>1, <1>5, <1>6, <1>7, OneSpace DEF ReceiptsStay

LEMMA AddedOnce ==
    ASSUME NEW M, NEW N, OncePlaced(M), OncePlaced(N),
           \A m \in M : \A n \in N : m[1] # n[1] /\ m[2] # n[2]
    PROVE  OncePlaced(M \cup N)
BY DEF OncePlaced

LEMMA LookedAt ==
    ASSUME NEW p, NEW l, LookOK(p, l), Claims(p, l.ver)
    PROVE  p \in Spaces /\ space[p].mem = Since(l.mem)
BY DEF LookOK, Claims

LEMMA ChangesStep ==
    ASSUME SpacesOK, MakesNew, ReqsOK, NEW t \in Tab,
           AddMember(t) \/ RemoveMember(t) \/ ReorderMembers(t) \/ RenameSpace(t) \/ DeleteSpace(t)
    PROVE  SpaceStep
<1> DEFINE r == req[t]
           p == r.space
           M == space[p].mem
<1>1. /\ r.do \in Changing /\ Claims(p, r.seen.ver) /\ UNCHANGED <<library, batches>>
      /\ RemoveMember(t) \/ ReorderMembers(t) \/ RenameSpace(t) \/ DeleteSpace(t) \/ r.do = "add"
  BY DEF AddMember, RemoveMember, ReorderMembers, RenameSpace, DeleteSpace, Changes, Changing
<1>2. UNCHANGED site /\ ReceiptsStay
  BY <1>1 DEF library, batches, ReceiptsStay
<1>3. p \in Space /\ r.site \in Site /\ LookOK(p, r.seen) /\ (r.do = "add" => r.site \notin {m[1] : m \in r.seen.mem})
  BY <1>1 DEF ReqsOK, ReqOK, ChangeOK
<1>4. p \in Spaces /\ M = Since(r.seen.mem)
  BY <1>1, <1>3, LookedAt
<1>5. OncePlaced(M) /\ \A m \in M : m[1] \in Sites
  BY <1>3, MembersAre DEF SpacesOK
<1>6. CASE AddMember(t)
  <2> DEFINE e == SpaceEnd(p)
             N == {<<r.site, e>>}
  <2>1. e \in Nat /\ \A m \in M : m[2] < e
    BY <1>3, SpaceEndIs
  <2>2. r.site \in Sites /\ r.do = "add" /\ space' = [space EXCEPT ![p] = Claimed(p, M \cup N)]
    BY <1>6 DEF AddMember, Changes
  <2>3. \A m \in M : m[1] # r.site
    BY <1>3, <1>4, <2>2 DEF Since
  <2> HIDE DEF e, M, p
  <2>4. OncePlaced(N)
    BY <1>3, <2>1 DEF OncePlaced
  <2>5. \A m \in M : m[2] \in Nat
    BY <1>5 DEF OncePlaced
  <2>6. \A m \in M : \A n \in N : m[1] # n[1] /\ m[2] # n[2]
    BY <2>1, <2>3, <2>5
  <2>7. OncePlaced(M \cup N) /\ \A m \in M \cup N : m[1] \in Sites
    BY <1>5, <2>2, <2>4, <2>6, AddedOnce
  <2> HIDE DEF N
  <2> QED BY <1>2, <1>4, <2>2, <2>7, ClaimStep
<1>7. CASE RemoveMember(t)
  <2> DEFINE N == {m \in M : m[1] # r.site}
  <2>1. space' = [space EXCEPT ![p] = Claimed(p, N)]
    BY <1>7 DEF RemoveMember
  <2> HIDE DEF M, p
  <2>2. OncePlaced(N) /\ \A m \in N : m[1] \in Sites
    BY <1>5 DEF OncePlaced
  <2> HIDE DEF N
  <2> QED BY <1>2, <1>4, <2>1, <2>2, ClaimStep
<1>8. CASE ReorderMembers(t)
  <2> DEFINE N == Reordered(M, r.site)
  <2>1. space' = [space EXCEPT ![p] = Claimed(p, N)]
    BY <1>8 DEF ReorderMembers
  <2> HIDE DEF M, p
  <2>2. OncePlaced(N) /\ {m[1] : m \in N} = {m[1] : m \in M}
    BY <1>5, ReorderedIs
  <2> HIDE DEF N
  <2>3. \A m \in N : m[1] \in Sites
    BY <1>5, <2>2
  <2> QED BY <1>2, <1>4, <2>1, <2>2, <2>3, ClaimStep
<1>9. CASE RenameSpace(t)
  <2>1. space' = [space EXCEPT ![p] = Claimed(p, M)]
    BY <1>9 DEF RenameSpace
  <2> HIDE DEF M, p
  <2> QED BY <1>2, <1>4, <1>5, <2>1, ClaimStep
<1>10. CASE DeleteSpace(t)
  <2> DEFINE x == space[p]
             y == [x EXCEPT !.row = "gone", !.mem = {}]
  <2>1. space' = [space EXCEPT ![p] = y]
    BY <1>10 DEF DeleteSpace
  <2>2. x \in SpaceRows
    BY <1>3 DEF SpacesOK
  <2> HIDE DEF x
  <2>3. y = [row |-> "gone", ver |-> x.ver, mem |-> {}]
    <3> DEFINE z == [x EXCEPT !.row = "gone"]
    <3>1. z = [row |-> "gone", ver |-> x.ver, mem |-> x.mem]
      BY <2>2 DEF SpaceRows
    <3>2. y = [z EXCEPT !.mem = {}]
      OBVIOUS
    <3> HIDE DEF z, y
    <3> QED BY <3>1, <3>2
  <2> HIDE DEF y
  <2>4. y \in SpaceRows /\ y.row = "gone" /\ y.ver = x.ver /\ y.mem = {}
    BY <2>2, <2>3, SpaceTypes DEF SpaceRows, Row
  <2>5. OncePlaced(y.mem) /\ \A m \in y.mem : m[1] \in Sites
    BY <2>4 DEF OncePlaced
  <2>6. y.ver = space[p].ver /\ Sites' = Sites /\ space[p].row # "absent"
    BY <1>2, <1>4, <2>4 DEF x, Sites, Spaces
  <2> HIDE DEF p
  <2> QED BY <1>2, <1>3, <2>1, <2>4, <2>5, <2>6, OneSpace DEF ReceiptsStay
<1> QED BY <1>6, <1>7, <1>8, <1>9, <1>10

LEMMA CreateSpaceStep ==
    ASSUME SpacesOK, MakesNew, NEW p \in Space, CreateSpace(p)
    PROVE  SpaceStep
<1> DEFINE r == [row |-> "there", ver |-> 1, mem |-> {}]
<1>1. /\ space[p].row = "absent" /\ \A o \in Op : ~(Plan[o].create /\ Of(o) = p)
      /\ UNCHANGED <<library, batches>> /\ space' = [space EXCEPT ![p] = r]
  BY DEF CreateSpace, Of
<1>2. ReceiptsStay /\ Sites' = Sites
  BY <1>1 DEF library, batches, ReceiptsStay, Sites
<1>3. r \in SpaceRows /\ r.row = "there" /\ r.ver = 1 /\ r.mem = {}
  BY DEF SpaceRows, Row
<1>4. space[p].ver = 0
  BY <1>1 DEF SpacesOK
<1> HIDE DEF r
<1>5. OncePlaced(r.mem) /\ \A m \in r.mem : m[1] \in Sites
  BY <1>3 DEF OncePlaced
<1>6. r.ver = space[p].ver + 1
  BY <1>3, <1>4
<1> QED BY <1>1, <1>2, <1>3, <1>5, <1>6, OneSpace DEF ReceiptsStay

LEMMA EnrolledIs ==
    ASSUME NEW S \in SUBSET Site, NEW next \in Nat
    PROVE  /\ OncePlaced(Enrolled(S, next))
           /\ \A m \in Enrolled(S, next) : m[1] \in S /\ m[2] \in Nat /\ next <= m[2]
<1> DEFINE B(s) == {u \in S : Order[u] < Order[s]}
           count(s) == Cardinality(B(s))
           place(s) == next + count(s)
<1>1. Enrolled(S, next) = {<<s, place(s)>> : s \in S}
  BY DEF Enrolled
<1>2. \A s \in S : Order[s] \in Nat
  BY LibraryAssumption
<1>3. \A s \in S : IsFiniteSet(B(s)) /\ count(s) \in Nat
  <2>1. IsFiniteSet(S) /\ \A s \in S : B(s) \in SUBSET S
    BY LibraryAssumption, FS_Subset
  <2> HIDE DEF B
  <2>2. \A s \in S : IsFiniteSet(B(s))
    BY <2>1, FS_Subset
  <2> QED BY <2>2, FS_CardinalityType
<1>4. ASSUME NEW s \in S, NEW u \in S, Order[s] < Order[u] PROVE count(s) < count(u)
  <2>1. \A x \in B(s) : x \in B(u)
    BY <1>2, <1>4
  <2>2. s \in B(u) /\ s \notin B(s)
    BY <1>2, <1>4
  <2>3. IsFiniteSet(B(u)) /\ B(s) \in SUBSET B(u)
    BY <1>3, <2>1
  <2> HIDE DEF B
  <2> QED BY <2>2, <2>3, CountsMore
<1> HIDE DEF B, count
<1>5. \A s, u \in S : place(s) = place(u) => s = u
  <2> SUFFICES ASSUME NEW s \in S, NEW u \in S, next + count(s) = next + count(u) PROVE s = u
    OBVIOUS
  <2>1. count(s) = count(u)
    BY <1>3
  <2>2. ~(Order[s] < Order[u]) /\ ~(Order[u] < Order[s])
    BY <1>3, <1>4, <2>1
  <2>3. Order[s] = Order[u]
    BY <1>2, <2>2
  <2> QED BY <2>3, LibraryAssumption
<1>6. \A s \in S : place(s) \in Nat /\ next <= place(s)
  BY <1>3
<1> HIDE DEF place
<1> DEFINE E == {<<s, place(s)>> : s \in S}
<1>7. \A m \in E : m[1] \in S /\ m[2] = place(m[1]) /\ m = <<m[1], m[2]>>
  OBVIOUS
<1>8. E \in SUBSET (Site \X Nat)
  BY <1>6
<1> HIDE DEF E
<1>9. \A m, n \in E : m[1] = n[1] \/ m[2] = n[2] => m = n
  BY <1>5, <1>7
<1>10. OncePlaced(E) /\ \A m \in E : m[1] \in S /\ m[2] \in Nat /\ next <= m[2]
  BY <1>6, <1>7, <1>8, <1>9 DEF OncePlaced
<1> QED BY <1>1, <1>10 DEF E

LEMMA WriteNewStep ==
    ASSUME OnceInv, SpacesOK, MakesNew, NEW t \in Tab, WriteNew(t), ReceiptsStay
    PROVE  SpaceStep
<1> DEFINE o == req[t].op
           p == Of(o)
           S == Plan[o].sites
           M == Enrolled(S, 0)
           r == [row |-> "there", ver |-> 1, mem |-> M]
<1>1. o \in Op /\ Plan[o].create /\ p \in Space /\ S \in SUBSET Site
  BY LibraryAssumption DEF WriteNew, AtBatch, OnceInv, Shapes, BatchShape, Of
<1>2. UNCHANGED site
  BY DEF WriteNew, Commits, RollsBack, Quiet, library
<1>3. CASE receipt[o] = None /\ p \notin Spaces /\ Admits(p, S)
  <2>1. Commits(t, r, S)
    BY <1>3 DEF WriteNew
  <2>2. space' = [space EXCEPT ![p] = r] /\ receipt' = [receipt EXCEPT ![o] = S]
    BY <2>1 DEF Commits
  <2>3. receipt'[o] # None
    BY <1>1, <2>2, NoneAssumption DEF OnceInv, Rows
  <2>4. \A q \in Op : Plan[q].create /\ Of(q) = p => receipt'[q] # None
    BY <1>1, <2>3, LibraryAssumption DEF Of
  <2>5. space[p].row = "absent" /\ space[p].ver = 0
    BY <1>1, <1>3 DEF MakesNew, SpacesOK
  <2>6. 0 \in Nat /\ S \subseteq Sites
    BY <1>3 DEF Admits
  <2> HIDE DEF S, p, o
  <2>7. OncePlaced(M) /\ \A m \in M : m[1] \in S
    BY <1>1, <2>6, EnrolledIs
  <2> HIDE DEF M
  <2>8. r \in SpaceRows /\ r.row = "there" /\ r.ver = 1 /\ r.mem = M
    BY <2>7 DEF SpaceRows, Row, OncePlaced
  <2> HIDE DEF r
  <2>9. Sites' = Sites
    BY <1>2 DEF Sites
  <2>10. r.ver = space[p].ver + 1 /\ OncePlaced(r.mem) /\ \A m \in r.mem : m[1] \in Sites
    BY <2>5, <2>6, <2>7, <2>8
  <2> QED BY <1>1, <2>2, <2>4, <2>8, <2>9, <2>10, OneSpace DEF ReceiptsStay
<1>4. CASE ~(receipt[o] = None /\ p \notin Spaces /\ Admits(p, S))
  <2>1. UNCHANGED space
    BY <1>4 DEF WriteNew, RollsBack
  <2>2. Sites \subseteq Sites'
    BY <1>2 DEF Sites
  <2> QED BY <2>1, <2>2, SpacesStay DEF ReceiptsStay
<1> QED BY <1>3, <1>4

LEMMA WriteIntoStep ==
    ASSUME OnceInv, SpacesOK, MakesNew, ReqsOK, NEW t \in Tab, WriteInto(t), ReceiptsStay
    PROVE  SpaceStep
<1> DEFINE o == req[t].op
           p == Of(o)
           S == req[t].missing
           next == req[t].next
           M == space[p].mem
           N == Enrolled(S, next)
<1>1. o \in Op /\ ~Plan[o].create /\ p \in Space
  BY LibraryAssumption DEF WriteInto, AtBatch, OnceInv, Shapes, BatchShape, Of
<1>2. UNCHANGED site
  BY DEF WriteInto, Commits, RollsBack, Quiet, library
<1>3. next \in Nat /\ (Claims(p, draft[o].ver) => \A m \in M : m[2] < next)
  BY <1>1 DEF WriteInto, AtBatch, ReqsOK, ReqOK, BatchOK
<1>4. CASE Claims(p, draft[o].ver) /\ Admits(p, S) /\ receipt[o] = None
  <2>1. space' = [space EXCEPT ![p] = Claimed(p, M \cup N)]
    BY <1>4 DEF WriteInto, Commits
  <2>2. S \in SUBSET Site /\ S \subseteq Sites /\ p \in Spaces
    BY <1>4 DEF Admits, Claims, Sites
  <2>3. OncePlaced(M) /\ \A m \in M : m[1] \in Sites /\ m[1] \notin S
    BY <1>1, <1>4, MembersAre DEF SpacesOK, Admits, Members
  <2> HIDE DEF S, next, M, p, o
  <2>4. OncePlaced(N) /\ \A m \in N : m[1] \in S /\ m[2] \in Nat /\ next <= m[2]
    BY <1>3, <2>2, EnrolledIs
  <2> HIDE DEF N
  <2>5. \A m \in M : m[2] \in Nat
    BY <2>3 DEF OncePlaced
  <2>6. \A m \in M : \A n \in N : m[1] # n[1] /\ m[2] # n[2]
    BY <1>3, <1>4, <2>3, <2>4, <2>5
  <2>7. OncePlaced(M \cup N) /\ \A m \in M \cup N : m[1] \in Sites
    BY <2>2, <2>3, <2>4, <2>6, AddedOnce
  <2> QED BY <1>2, <2>1, <2>2, <2>7, ClaimStep
<1>5. CASE ~(Claims(p, draft[o].ver) /\ Admits(p, S) /\ receipt[o] = None)
  <2>1. UNCHANGED space
    BY <1>5 DEF WriteInto, RollsBack
  <2>2. Sites \subseteq Sites'
    BY <1>2 DEF Sites
  <2> QED BY <2>1, <2>2, SpacesStay DEF ReceiptsStay
<1> QED BY <1>4, <1>5

\* Sites that are deleted leave the Spaces.
LEMMA DeleteStep ==
    ASSUME SitesOK, LabelsOK, SpacesOK, MakesNew, ReqsOK, NEW t \in Tab, Delete(t), ReceiptsStay
    PROVE  SiteStep /\ SpaceStep
<1> DEFINE D == DOMAIN req[t].versions
           P == req[t].related
<1>1. D \subseteq Sites /\ site' = Deleted(D) /\ space' = Dropped(D, P) /\ UNCHANGED <<label, receipt>>
  BY DEF Delete, batches
<1>2. site \in [Site -> SiteRows] /\ Sites \subseteq Site /\ space \in [Space -> SpaceRows]
  BY DEF SitesOK, Sites, SpacesOK
<1> HIDE DEF D, P
<1>3. ASSUME NEW s \in Site
      PROVE  /\ site'[s] \in SiteRows /\ site'[s].row = (IF s \in D THEN "gone" ELSE site[s].row)
             /\ s \notin D => site'[s] = site[s]
             /\ site'[s].ver = site[s].ver
  <2> DEFINE x == site[s]
             y == site'[s]
  <2>1. x \in SiteRows
    BY <1>2
  <2>2. y = IF s \in D THEN [x EXCEPT !.row = "gone"] ELSE x
    BY <1>1 DEF Deleted
  <2> HIDE DEF x, y
  <2>3. /\ y \in SiteRows /\ y.row = (IF s \in D THEN "gone" ELSE x.row)
        /\ s \notin D => y = x
        /\ y.ver = x.ver
    BY <2>1, <2>2 DEF SiteRows, Row
  <2> QED BY <2>3 DEF x, y
<1>4. Sites' = Sites \ D
  BY <1>2, <1>3 DEF Sites
<1>5. SiteStep
  <2>1. site' \in [Site -> SiteRows]
    BY <1>1, <1>3 DEF Deleted
  <2>2. \A s \in Sites' : site'[s] = site[s] /\ s \in Sites
    BY <1>2, <1>3, <1>4
  <2>3. Categories' = Categories /\ Tags' = Tags
    BY <1>1 DEF Categories, Tags
  <2>4. SitesOK'
    BY <2>1, <2>2, <2>3 DEF SitesOK
  <2>5. \A s \in Sites' : Shown(s)' = Shown(s)
    <3> SUFFICES ASSUME NEW s \in Sites' PROVE Untouched(s)
      BY ShownSame
    <3> QED BY <1>1, <2>2 DEF Untouched
  <2>6. \A s \in Site : site[s].ver \in Nat
    BY <1>2, RowTypes
  <2>7. \A s \in Site : site[s].row # "absent" => site'[s].row # "absent"
    BY <1>3
  <2>8. LabelsOK'
    BY <1>1 DEF LabelsOK
  <2> QED BY <1>3, <2>2, <2>4, <2>5, <2>6, <2>7, <2>8 DEF SiteStep
<1>6. ASSUME NEW p \in Space
      PROVE  /\ space'[p] \in SpaceRows /\ space'[p].row = space[p].row
             /\ space'[p].ver = (IF p \in P THEN space[p].ver + 1 ELSE space[p].ver)
             /\ space'[p].mem = {m \in space[p].mem : m[1] \notin D}
  <2> DEFINE x == space[p]
             y == space'[p]
             N == {m \in x.mem : m[1] \notin D}
             v == IF p \in P THEN x.ver + 1 ELSE x.ver
  <2>1. x \in SpaceRows
    BY <1>2
  <2>2. y = [x EXCEPT !.mem = N, !.ver = v]
    BY <1>1 DEF Dropped
  <2>3. v \in Nat /\ N \in SUBSET (Site \X Nat)
    BY <2>1, SpaceTypes
  <2> HIDE DEF x, y, N, v
  <2>4. y \in SpaceRows /\ y.row = x.row /\ y.ver = v /\ y.mem = N
    BY <2>1, <2>2, <2>3 DEF SpaceRows
  <2> QED BY <2>4 DEF x, y, N, v
<1>7. SpaceStep
  <2>1. space' \in [Space -> SpaceRows]
    BY <1>1, <1>6 DEF Dropped
  <2>2. \A p \in Space : space[p].ver \in Nat
    BY <1>2, SpaceTypes
  <2>3. \A p \in Space : space'[p].mem = {m \in space[p].mem : m[1] \in Sites'}
    <3> SUFFICES ASSUME NEW p \in Space PROVE space'[p].mem = {m \in space[p].mem : m[1] \in Sites'}
      OBVIOUS
    <3>1. \A m \in space[p].mem : m[1] \in Sites
      BY DEF SpacesOK
    <3> QED BY <1>4, <1>6, <3>1
  <2>4. Spaces' = Spaces
    BY <1>6 DEF Spaces
  <2>5. \A p \in Space : space[p].row = "absent" => p \notin P
    BY DEF ReqsOK, ReqOK, DeleteOK, Delete, P
  <2>6. \A p \in Space : space[p].ver <= space'[p].ver
    BY <1>6, <2>2
  <2>7. \A p \in Space : /\ space'[p].row = "absent" => space'[p].ver = 0
                         /\ p \notin Spaces' => space'[p].mem = {}
    BY <1>6, <2>4, <2>5 DEF SpacesOK
  <2>8. \A p \in Space : /\ \A m \in space'[p].mem : m[1] \in Sites'
                         /\ \A m, n \in space'[p].mem : m[1] = n[1] \/ m[2] = n[2] => m = n
    BY <2>3 DEF SpacesOK
  <2>9. SpacesOK'
    BY <2>1, <2>7, <2>8 DEF SpacesOK
  <2>10. MakesNew'
    BY <1>1, <1>6, LibraryAssumption DEF MakesNew, Of
  <2>11. \A p \in Space : space[p].row # "absent" => space'[p].row # "absent"
    BY <1>6
  <2> QED BY <2>3, <2>4, <2>6, <2>9, <2>10, <2>11 DEF SpaceStep
<1> QED BY <1>5, <1>7

-----------------------------------------------------------------------------
(* The merge. *)
\* What a merge finds when the scan's print is still the library's.
MergeFinds ==
    /\ run.kept \subseteq Site
    /\ \A g \in Chosen : g \subseteq Sites /\ Keeper(g) \in g \cap run.kept
    /\ \A g, h \in Chosen : g \cap h # {} => g = h
    /\ Losers \subseteq Sites

LEMMA MergeLooks ==
    ASSUME RunOK, run.print = Versions
    PROVE  MergeFinds
<1>1. \A g \in run.groups : g \subseteq Sites
  BY DEF RunOK, RunShape, Versions
<1>2. Sites \subseteq Site
  BY DEF Sites
<1>3. ASSUME NEW g \in Chosen PROVE g \subseteq Sites /\ Keeper(g) \in g \cap run.kept
  <2>1. g \subseteq Sites /\ g \cap run.kept # {} /\ g \cap run.kept \in SUBSET Site
    BY <1>1, <1>2 DEF Chosen
  <2> QED BY <2>1, BestIs DEF Keeper
<1>4. run.kept \subseteq Site
  BY <1>1, <1>2 DEF RunOK, RunShape
<1>5. \A g, h \in Chosen : g \cap h # {} => g = h
  BY DEF Chosen, RunOK, RunShape
<1>6. Losers \subseteq Sites
  BY <1>1 DEF Losers, Chosen
<1> QED BY <1>3, <1>4, <1>5, <1>6 DEF MergeFinds

LEMMA MergedSiteIs ==
    ASSUME SitesOK, MergeFinds, NEW s \in Site
    PROVE  /\ MergedSite(s) \in SiteRows
           /\ MergedSite(s).row = (IF s \in Losers THEN "gone" ELSE site[s].row)
           /\ MergedSite(s).cat = site[s].cat /\ MergedSite(s).pos = site[s].pos
           /\ \/ MergedSite(s).ver = site[s].ver /\ (s \in Losers \/ MergedSite(s) = site[s])
              \/ s \in Sites /\ MergedSite(s).ver = site[s].ver + 1
           /\ s \in Sites => MergedSite(s).tags \subseteq Tags
           /\ \A g \in Chosen : s = Keeper(g) => MergedSite(s).tags = UNION {site[u].tags : u \in Touched(g)}
<1> DEFINE x == site[s]
           y == MergedSite(s)
<1>0. x \in SiteRows /\ (s \in Sites => x.tags \subseteq Tags) /\ x.ver \in Nat
  BY RowTypes DEF SitesOK
<1>1. \A g \in Chosen : s = Keeper(g) => s \notin Losers
  BY DEF MergeFinds, Losers
<1>2. CASE s \in Losers
  <2>1. y = [x EXCEPT !.row = "gone"]
    BY <1>2 DEF MergedSite
  <2> HIDE DEF x, y
  <2>2. /\ y \in SiteRows /\ y.row = "gone" /\ y.cat = x.cat /\ y.pos = x.pos
        /\ y.ver = x.ver /\ y.tags = x.tags
    BY <1>0, <2>1 DEF SiteRows, Row
  <2> QED BY <1>0, <1>1, <1>2, <2>2 DEF x, y
<1>3. CASE s \notin Losers /\ ~\E g \in Chosen : s = Keeper(g)
  <2>1. y = x
    BY <1>3 DEF MergedSite
  <2> QED BY <1>0, <1>3, <2>1
<1>4. CASE \E g \in Chosen : s = Keeper(g)
  <2> DEFINE h == CHOOSE g \in Chosen : s = Keeper(g)
             T == UNION {site[u].tags : u \in Touched(h)}
             d == IF T = x.tags THEN x.tby ELSE "user"
             v == x.ver + 1
  <2>1. h \in Chosen /\ s = Keeper(h)
    BY <1>4
  <2>2. \A g \in Chosen : s = Keeper(g) => g = h
    <3> HIDE DEF h
    <3>1. ASSUME NEW g \in Chosen, s = Keeper(g) PROVE g = h
      <4>1. \A k \in Chosen : Keeper(k) \in k
        BY DEF MergeFinds
      <4>2. s \in g /\ s \in h
        BY <2>1, <3>1, <4>1
      <4> QED BY <2>1, <4>2 DEF MergeFinds
    <3> QED BY <3>1
  <2>3. y = [x EXCEPT !.ver = v, !.tags = T, !.tby = d]
    BY <1>1, <1>4, <2>1 DEF MergedSite
  <2> HIDE DEF h
  <2>4. Touched(h) \subseteq Sites /\ s \in Sites
    BY <2>1 DEF MergeFinds, Touched
  <2>5. T \subseteq Tags
    BY <2>4 DEF SitesOK
  <2>6. T \in SUBSET Tag /\ d \in Author /\ v \in Nat
    BY <1>0, <2>5, RowTypes DEF Tags, Author
  <2> HIDE DEF x, y, T, d, v
  <2>7. /\ y \in SiteRows /\ y.row = x.row /\ y.cat = x.cat /\ y.pos = x.pos
        /\ y.ver = v /\ y.tags = T
    BY <1>0, <2>3, <2>6 DEF SiteRows
  <2> QED BY <1>1, <2>1, <2>2, <2>4, <2>5, <2>7 DEF x, y, v, T
<1> QED BY <1>2, <1>3, <1>4

LEMMA MergeSites ==
    ASSUME SitesOK, LabelsOK, MergeFinds, UNCHANGED label, site' = [s \in Site |-> MergedSite(s)]
    PROVE  SiteStep /\ Sites' = Sites \ Losers
<1>1. \A s \in Site : site'[s] = MergedSite(s)
  OBVIOUS
<1>2. \A s \in Site : site[s].ver \in Nat
  BY RowTypes DEF SitesOK
<1>3. Sites' = Sites \ Losers
  BY <1>1, MergedSiteIs DEF Sites
<1>4. site' \in [Site -> SiteRows]
  BY MergedSiteIs
<1>5. Categories' = Categories /\ Tags' = Tags /\ LabelsOK'
  BY DEF Categories, Tags, LabelsOK
<1>6. \A s \in Sites' : s \in Sites /\ s \in Site /\ s \notin Losers
  BY <1>3 DEF Sites
<1>7. \A s \in Sites' : site'[s].cat = site[s].cat /\ site'[s].pos = site[s].pos /\ site'[s].tags \subseteq Tags
  BY <1>1, <1>6, MergedSiteIs
<1>8. SitesOK'
  <2>1. \A s \in Sites' : site'[s].cat \in Categories' /\ site'[s].tags \subseteq Tags'
    BY <1>5, <1>6, <1>7 DEF SitesOK
  <2>2. ASSUME NEW s \in Sites', NEW u \in Sites', s # u, site'[s].cat = site'[u].cat
        PROVE  site'[s].pos # site'[u].pos
    <3>1. s \in Sites /\ u \in Sites /\ site[s].cat = site[u].cat
      BY <1>6, <1>7, <2>2
    <3>2. site[s].pos # site[u].pos
      BY <2>2, <3>1 DEF SitesOK
    <3> QED BY <1>7, <3>2
  <2> QED BY <1>4, <2>1, <2>2 DEF SitesOK
<1>9. \A s \in Site : site[s].row # "absent" => site'[s].row # "absent"
  BY <1>1, MergedSiteIs
<1>10. ASSUME NEW s \in Site
       PROVE  /\ site[s].ver <= site'[s].ver
              /\ s \in Sites' /\ site'[s].ver = site[s].ver => Shown(s)' = Shown(s)
  <2>1. \/ site'[s].ver = site[s].ver /\ (s \in Losers \/ site'[s] = site[s])
        \/ site'[s].ver = site[s].ver + 1
    BY <1>1, MergedSiteIs
  <2>2. s \in Sites' /\ site'[s].ver = site[s].ver => site'[s] = site[s]
    BY <1>2, <1>6, <2>1
  <2>3. site'[s] = site[s] => Untouched(s)
    BY DEF Untouched
  <2> QED BY <1>2, <2>1, <2>2, <2>3, ShownSame
<1> QED BY <1>3, <1>5, <1>6, <1>8, <1>9, <1>10 DEF SiteStep

LEMMA MinExists ==
    ASSUME NEW A, IsFiniteSet(A), A # {}, NEW f \in [A -> Nat]
    PROVE  \E x \in A : \A y \in A : f[x] <= f[y]
<1> DEFINE h == [x \in A |-> 0 - f[x]]
           P == {h[x] : x \in A}
<1>1. \A x \in A : h[x] \in Int /\ h[x] = 0 - f[x] /\ f[x] \in Nat
  OBVIOUS
<1>2. IsFiniteSet(P)
  <2>1. h \in Surjection(A, P)
    BY DEF Surjection
  <2> HIDE DEF P, h
  <2> QED BY <2>1, FS_Surjection
<1> HIDE DEF h
<1>3. P \in SUBSET Int /\ P # {}
  BY <1>1
<1>4. \A x \in A : h[x] \in P
  OBVIOUS
<1>5. \A n \in P : \E x \in A : n = h[x]
  OBVIOUS
<1> HIDE DEF P
<1>6. PICK m \in P : \A n \in P : n <= m
  BY <1>2, <1>3, MaxExists
<1>7. PICK x \in A : m = h[x]
  BY <1>5
<1>8. \A y \in A : f[x] <= f[y]
  BY <1>1, <1>4, <1>6, <1>7
<1> QED BY <1>8

LEMMA PlaceIs ==
    ASSUME SpacesOK, NEW p \in Space, NEW g, Inherits(g, p)
    PROVE  \E m \in space[p].mem : m[1] \in g \ run.kept /\ m[2] = Place(g, p)
<1> DEFINE M == space[p].mem
           A == {m \in M : m[1] \in g \ run.kept}
           f == [m \in A |-> m[2]]
           P == {m[2] : m \in A}
<1>1. OncePlaced(M) /\ IsFiniteSet(M)
  BY MembersAre
<1>2. A \in SUBSET M /\ A # {}
  BY DEF Inherits, Members
<1>3. \A m \in A : m[2] \in Nat /\ m \in M /\ m[1] \in g \ run.kept
  BY <1>1 DEF OncePlaced
<1>4. Place(g, p) = CHOOSE n \in P : \A m \in M : m[1] \in g \ run.kept => n <= m[2]
  BY DEF Place
<1>5. \A m \in M : m[1] \in g \ run.kept => m \in A
  OBVIOUS
<1> HIDE DEF A, M
<1>6. f \in [A -> Nat] /\ \A m \in A : f[m] = m[2]
  BY <1>3
<1> HIDE DEF f
<1>7. IsFiniteSet(A)
  BY <1>1, <1>2, FS_Subset
<1>8. PICK a \in A : \A m \in A : f[a] <= f[m]
  BY <1>2, <1>6, <1>7, MinExists
<1>9. \E n \in P : \A m \in M : m[1] \in g \ run.kept => n <= m[2]
  BY <1>5, <1>6, <1>8
<1>10. Place(g, p) \in P
  <2> HIDE DEF P
  <2> QED BY <1>4, <1>9
<1> QED BY <1>3, <1>10 DEF M

LEMMA KeeperStays ==
    ASSUME MergeFinds, NEW g \in Chosen
    PROVE  Keeper(g) \in Sites \ Losers /\ Keeper(g) \in g \cap run.kept /\ Keeper(g) \in Touched(g)
BY DEF MergeFinds, Losers, Touched

LEMMA MergedMembersAre ==
    ASSUME SpacesOK, MergeFinds, NEW p \in Space
    PROVE  /\ OncePlaced(MergedMembers(p))
           /\ \A m \in MergedMembers(p) : m[1] \in Sites \ Losers
           /\ \A m \in space[p].mem : m[1] \notin Losers => m \in MergedMembers(p)
           /\ \A g \in Chosen : Inherits(g, p) => \E m \in MergedMembers(p) : m[1] = Keeper(g)
           /\ p \notin Affected => MergedMembers(p) = space[p].mem
<1> DEFINE M == space[p].mem
           L == {m \in M : m[1] \notin Losers}
           G == {g \in Chosen : Inherits(g, p)}
           K == {<<Keeper(g), Place(g, p)>> : g \in G}
<1>1. MergedMembers(p) = L \cup K
  BY DEF MergedMembers
<1>2. OncePlaced(M) /\ \A m \in M : m[1] \in Sites
  BY MembersAre DEF SpacesOK
<1>3. OncePlaced(L) /\ \A m \in L : m \in M /\ m[1] \in Sites \ Losers
  BY <1>2 DEF OncePlaced
<1>4. \A g \in G : g \in Chosen /\ Inherits(g, p)
  OBVIOUS
<1>5. \A g \in G : \E m \in M : m[1] \in g \ run.kept /\ m[2] = Place(g, p)
  BY <1>4, PlaceIs
<1> HIDE DEF M, G
<1>6. \A g \in G : Place(g, p) \in Nat /\ Keeper(g) \in Site
  <2> SUFFICES ASSUME NEW g \in G PROVE Place(g, p) \in Nat /\ Keeper(g) \in Site
    OBVIOUS
  <2>1. PICK m \in M : m[1] \in g \ run.kept /\ m[2] = Place(g, p)
    BY <1>5
  <2>2. m[2] \in Nat
    BY <1>2 DEF OncePlaced
  <2> QED BY <1>4, <2>1, <2>2, KeeperStays DEF Sites
<1>7. \A g, h \in G : Keeper(g) = Keeper(h) \/ Place(g, p) = Place(h, p) => g = h
  <2> SUFFICES ASSUME NEW g \in G, NEW h \in G, Keeper(g) = Keeper(h) \/ Place(g, p) = Place(h, p) PROVE g \cap h # {}
    BY <1>4 DEF MergeFinds
  <2>1. CASE Keeper(g) = Keeper(h)
    BY <1>4, <2>1, KeeperStays
  <2>2. CASE Place(g, p) = Place(h, p)
    <3>1. PICK m \in M : m[1] \in g \ run.kept /\ m[2] = Place(g, p)
      BY <1>5
    <3>2. PICK n \in M : n[1] \in h \ run.kept /\ n[2] = Place(h, p)
      BY <1>5
    <3>3. m = n
      BY <1>2, <2>2, <3>1, <3>2 DEF OncePlaced
    <3> QED BY <3>1, <3>2, <3>3
  <2> QED BY <2>1, <2>2
<1>8. \A k \in K : \E g \in G : k = <<Keeper(g), Place(g, p)>> /\ k[1] = Keeper(g) /\ k[2] = Place(g, p)
  OBVIOUS
<1>9. \A g \in G : <<Keeper(g), Place(g, p)>> \in K /\ <<Keeper(g), Place(g, p)>>[1] = Keeper(g)
  OBVIOUS
<1>10. K \in SUBSET (Site \X Nat)
  BY <1>6
<1> HIDE DEF K, L
<1>11. OncePlaced(K)
  <2> SUFFICES ASSUME NEW j \in K, NEW k \in K, j[1] = k[1] \/ j[2] = k[2] PROVE j = k
    BY <1>10 DEF OncePlaced
  <2>1. PICK g \in G : j = <<Keeper(g), Place(g, p)>> /\ j[1] = Keeper(g) /\ j[2] = Place(g, p)
    BY <1>8
  <2>2. PICK h \in G : k = <<Keeper(h), Place(h, p)>> /\ k[1] = Keeper(h) /\ k[2] = Place(h, p)
    BY <1>8
  <2>3. g = h
    BY <1>7, <2>1, <2>2
  <2> QED BY <2>1, <2>2, <2>3
<1>12. \A k \in K : k[1] \in Sites \ Losers
  <2> SUFFICES ASSUME NEW k \in K PROVE k[1] \in Sites \ Losers
    OBVIOUS
  <2>1. PICK g \in G : k[1] = Keeper(g)
    BY <1>8
  <2> QED BY <1>4, <2>1, KeeperStays
<1>13. \A l \in L : \A k \in K : l[1] # k[1] /\ l[2] # k[2]
  <2> SUFFICES ASSUME NEW l \in L, NEW k \in K PROVE l[1] # k[1] /\ l[2] # k[2]
    OBVIOUS
  <2>1. PICK g \in G : k[1] = Keeper(g) /\ k[2] = Place(g, p)
    BY <1>8
  <2>2. PICK m \in M : m[1] \in g \ run.kept /\ m[2] = Place(g, p)
    BY <1>5
  <2>3. m[1] \in Losers
    BY <1>4, <2>2 DEF Losers
  <2>4. l[2] # k[2]
    BY <1>2, <1>3, <2>1, <2>2, <2>3 DEF OncePlaced
  <2>5. Keeper(g) \notin Members(p)
    BY <1>4 DEF Inherits
  <2>6. l[1] \in Members(p)
    BY <1>3 DEF Members, M
  <2> QED BY <2>1, <2>4, <2>5, <2>6
<1>14. OncePlaced(L \cup K)
  BY <1>3, <1>11, <1>13, AddedOnce
<1>15. \A g \in Chosen : Inherits(g, p) => \E m \in L \cup K : m[1] = Keeper(g)
  <2>1. \A g \in Chosen : Inherits(g, p) => g \in G
    BY DEF G
  <2> QED BY <1>9, <2>1
<1>16. ASSUME p \notin Affected PROVE L \cup K = M
  <2>1. \A g \in Chosen : \A m \in M : m[1] \notin Touched(g)
    <3>1. CASE p \in Spaces
      BY <1>16, <3>1 DEF Affected, Members, M
    <3>2. CASE p \notin Spaces
      BY <3>2 DEF SpacesOK, M
    <3> QED BY <3>1, <3>2
  <2>2. \A m \in M : m[1] \notin Losers
    BY <2>1 DEF Losers, Touched
  <2>3. G = {}
    <3> SUFFICES ASSUME NEW g \in G PROVE FALSE
      OBVIOUS
    <3>1. PICK m \in M : m[1] \in g \ run.kept
      BY <1>5
    <3> QED BY <1>4, <2>1, <3>1 DEF Touched
  <2>4. K = {}
    BY <1>8, <2>3
  <2> QED BY <2>2, <2>4 DEF L
<1>17. \A m \in M : m[1] \notin Losers => m \in L \cup K
  BY DEF L
<1> QED BY <1>1, <1>3, <1>12, <1>14, <1>15, <1>16, <1>17 DEF M

MergedSpaces ==
    [p \in Space |-> [space[p] EXCEPT !.mem = MergedMembers(p), !.ver = IF p \in Affected THEN @ + 1 ELSE @]]

LEMMA MergeSpaces ==
    ASSUME SpacesOK, MakesNew, MergeFinds, UNCHANGED receipt, Sites' = Sites \ Losers,
           space' = MergedSpaces
    PROVE  SpaceStep /\ \A p \in Space : /\ space'[p].mem = MergedMembers(p)
                                         /\ space'[p].mem # space[p].mem => space'[p].ver > space[p].ver
<1>1. \A p \in Space : /\ OncePlaced(MergedMembers(p))
                       /\ \A m \in MergedMembers(p) : m[1] \in Sites'
                       /\ p \notin Affected => MergedMembers(p) = space[p].mem
  BY MergedMembersAre
<1>2. ASSUME NEW p \in Space
      PROVE  /\ space'[p] \in SpaceRows /\ space'[p].row = space[p].row
             /\ space'[p].ver = (IF p \in Affected THEN space[p].ver + 1 ELSE space[p].ver)
             /\ space'[p].mem = MergedMembers(p)
  <2> DEFINE x == space[p]
             y == space'[p]
             N == MergedMembers(p)
             v == IF p \in Affected THEN x.ver + 1 ELSE x.ver
  <2>1. x \in SpaceRows
    BY DEF SpacesOK
  <2>2. y = [x EXCEPT !.mem = N, !.ver = v]
    BY DEF MergedSpaces
  <2>3. v \in Nat /\ N \in SUBSET (Site \X Nat)
    BY <1>1, <2>1, SpaceTypes DEF OncePlaced
  <2> HIDE DEF x, y, N, v
  <2>4. y \in SpaceRows /\ y.row = x.row /\ y.ver = v /\ y.mem = N
    BY <2>1, <2>2, <2>3 DEF SpaceRows
  <2> QED BY <2>4 DEF x, y, N, v
<1>3. space' \in [Space -> SpaceRows]
  BY <1>2 DEF MergedSpaces
<1>4. \A p \in Space : space[p].ver \in Nat
  BY SpaceTypes DEF SpacesOK
<1>5. Spaces' = Spaces
  BY <1>2 DEF Spaces
<1>6. Affected \subseteq Spaces
  BY DEF Affected
<1>7. ASSUME NEW p \in Space
      PROVE  /\ space'[p].row = "absent" => space'[p].ver = 0
             /\ p \notin Spaces' => space'[p].mem = {}
             /\ \A m \in space'[p].mem : m[1] \in Sites'
             /\ \A m, n \in space'[p].mem : m[1] = n[1] \/ m[2] = n[2] => m = n
  <2>1. p \notin Spaces => space'[p].mem = {}
    BY <1>1, <1>2, <1>6 DEF SpacesOK
  <2>2. space[p].row = "absent" => p \notin Affected
    BY <1>6 DEF Spaces
  <2>3. space'[p].row = "absent" => space'[p].ver = 0
    BY <1>2, <2>2 DEF SpacesOK
  <2> QED BY <1>1, <1>2, <1>5, <2>1, <2>3 DEF OncePlaced
<1>8. SpacesOK'
  BY <1>3, <1>7 DEF SpacesOK
<1>9. MakesNew'
  BY <1>2, LibraryAssumption DEF MakesNew, Of
<1>10. ASSUME NEW p \in Space
       PROVE  /\ space[p].ver <= space'[p].ver
              /\ space[p].row # "absent" => space'[p].row # "absent"
              /\ p \in Spaces' /\ space'[p].ver = space[p].ver
                   => p \in Spaces /\ space'[p].mem = {m \in space[p].mem : m[1] \in Sites'}
              /\ space'[p].mem # space[p].mem => space'[p].ver > space[p].ver
  <2>1. CASE p \in Affected
    BY <1>2, <1>4, <1>5, <2>1
  <2>2. CASE p \notin Affected
    <3>1. space'[p].mem = space[p].mem /\ \A m \in space[p].mem : m[1] \in Sites'
      BY <1>1, <1>2, <2>2
    <3> QED BY <1>2, <1>4, <1>5, <2>2, <3>1
  <2> QED BY <2>1, <2>2
<1> QED BY <1>2, <1>8, <1>9, <1>10 DEF SpaceStep

\* One step of what MergeKeepsPlaces says.
KeepsPlaces ==
    /\ \A p \in Space : LET S == {m[1] : m \in space'[p].mem} IN
         /\ \A s \in Members(p) : Survives(s, S)
         /\ S \subseteq {s \in Site : site'[s].row = "there"}
         /\ space'[p].mem # space[p].mem => space'[p].ver > space[p].ver
    /\ \A s \in Sites : \A g \in site[s].tags :
         \E u \in Site : Survives(s, {u}) /\ site'[u].row = "there" /\ g \in site'[u].tags

LEMMA MergeKeeps ==
    ASSUME SitesOK, LabelsOK, SpacesOK, MakesNew, RunOK, NEW t, Merge(t)
    PROVE  SiteStep /\ SpaceStep /\ KeepsPlaces
<1>1. /\ run.print = Versions /\ UNCHANGED <<label, receipt>> /\ site' = [s \in Site |-> MergedSite(s)]
      /\ space' = MergedSpaces
  BY DEF Merge, batches, MergedSpaces
<1>2. MergeFinds
  BY <1>1, MergeLooks
<1>3. SiteStep /\ Sites' = Sites \ Losers
  BY <1>1, <1>2, MergeSites
<1>4. SpaceStep /\ \A p \in Space : /\ space'[p].mem = MergedMembers(p)
                                    /\ space'[p].mem # space[p].mem => space'[p].ver > space[p].ver
  BY <1>1, <1>2, <1>3, MergeSpaces
<1>5. ASSUME NEW p \in Space, NEW s \in Members(p) PROVE Survives(s, {m[1] : m \in space'[p].mem})
  <2> DEFINE N == MergedMembers(p)
             S == {m[1] : m \in N}
  <2>1. /\ \A m \in space[p].mem : m[1] \notin Losers => m \in N
        /\ \A g \in Chosen : Inherits(g, p) => \E m \in N : m[1] = Keeper(g)
    BY <1>2, MergedMembersAre
  <2>2. space'[p].mem = N
    BY <1>4
  <2> HIDE DEF N
  <2>3. \A u \in Members(p) : u \notin Losers => u \in S
    BY <2>1 DEF Members
  <2>4. \A g \in Chosen : Inherits(g, p) => Keeper(g) \in S
    <3> SUFFICES ASSUME NEW g \in Chosen, Inherits(g, p) PROVE Keeper(g) \in S
      OBVIOUS
    <3>1. PICK m \in N : m[1] = Keeper(g)
      BY <2>1
    <3> QED BY <3>1
  <2> HIDE DEF S
  <2>5. ASSUME s \notin Losers PROVE Survives(s, S)
    BY <2>3, <2>5 DEF Survives
  <2>6. ASSUME s \in Losers PROVE Survives(s, S)
    <3>1. PICK g \in Chosen : s \in g \ run.kept
      BY <2>6 DEF Losers
    <3>2. Keeper(g) \in Sites \ Losers /\ Keeper(g) \in g \cap run.kept
      BY <1>2, KeeperStays
    <3>3. Keeper(g) \in S
      <4>1. (g \ run.kept) \cap Members(p) # {}
        BY <3>1
      <4>2. CASE Keeper(g) \in Members(p)
        BY <2>3, <3>2, <4>2
      <4>3. CASE Keeper(g) \notin Members(p)
        BY <2>4, <4>1, <4>3 DEF Inherits
      <4> QED BY <4>2, <4>3
    <3> QED BY <3>1, <3>2, <3>3 DEF Survives
  <2>7. Survives(s, S)
    BY <2>5, <2>6
  <2> QED BY <2>2, <2>7 DEF S
<1>6. ASSUME NEW p \in Space PROVE {m[1] : m \in space'[p].mem} \subseteq {s \in Site : site'[s].row = "there"}
  <2>1. \A m \in space'[p].mem : m[1] \in Sites'
    BY <1>4 DEF SpaceStep, SpacesOK
  <2> QED BY <2>1 DEF Sites
<1>7. ASSUME NEW s \in Sites, NEW g \in site[s].tags
      PROVE  \E u \in Site : Survives(s, {u}) /\ site'[u].row = "there" /\ g \in site'[u].tags
  <2>0. \A u \in Site : site'[u] = MergedSite(u)
    BY <1>1
  <2>1. \A h \in Chosen : /\ Keeper(h) \in Sites \ Losers /\ Keeper(h) \in h \cap run.kept
                          /\ MergedSite(Keeper(h)).tags = UNION {site[u].tags : u \in Touched(h)}
    <3> SUFFICES ASSUME NEW h \in Chosen
                 PROVE  /\ Keeper(h) \in Sites \ Losers /\ Keeper(h) \in h \cap run.kept
                        /\ MergedSite(Keeper(h)).tags = UNION {site[u].tags : u \in Touched(h)}
      OBVIOUS
    <3>1. Keeper(h) \in Sites \ Losers /\ Keeper(h) \in h \cap run.kept /\ Keeper(h) \in Site
      BY <1>2, KeeperStays DEF Sites
    <3> QED BY <1>2, <3>1, MergedSiteIs
  <2>2. CASE s \in Losers
    <3>1. PICK h \in Chosen : s \in h \ run.kept
      BY <2>2 DEF Losers
    <3>2. s \in Touched(h)
      BY <3>1 DEF Touched
    <3>3. g \in MergedSite(Keeper(h)).tags
      BY <2>1, <3>2
    <3>4. Survives(s, {Keeper(h)})
      BY <2>1, <3>1 DEF Survives
    <3>5. Keeper(h) \in Sites' /\ Keeper(h) \in Site
      BY <1>3, <2>1 DEF Sites
    <3> QED BY <2>0, <3>3, <3>4, <3>5 DEF Sites
  <2>3. CASE s \notin Losers
    <3>1. Survives(s, {s}) /\ s \in Sites' /\ s \in Site
      BY <1>3, <2>3 DEF Survives, Sites
    <3>2. g \in MergedSite(s).tags
      <4>1. CASE \E h \in Chosen : s = Keeper(h)
        <5>1. PICK h \in Chosen : s = Keeper(h)
          BY <4>1
        <5>2. s \in Touched(h)
          BY <5>1 DEF Touched
        <5> QED BY <2>1, <5>1, <5>2
      <4>2. CASE ~\E h \in Chosen : s = Keeper(h)
        BY <2>3, <4>2 DEF MergedSite
      <4> QED BY <4>1, <4>2
    <3> QED BY <2>0, <3>1, <3>2 DEF Sites
  <2> QED BY <2>2, <2>3
<1> QED BY <1>3, <1>4, <1>5, <1>6, <1>7 DEF KeepsPlaces

-----------------------------------------------------------------------------
(* What was seen before a step, after it. *)
LEMMA LooksStay ==
    ASSUME SitesOK, SpacesOK, SiteStep, SpaceStep, NEW p \in Space, NEW l, LookOK(p, l)
    PROVE  LookOK(p, l)'
<1>1. space[p].ver \in Nat /\ space'[p].ver \in Nat
  BY SpaceTypes DEF SpacesOK, SpaceStep
<1>2. l.ver \in Nat /\ l.ver <= space'[p].ver
  BY <1>1 DEF LookOK, SpaceStep
<1>3. \A m \in l.mem : m[1] \in Site /\ site'[m[1]].row # "absent" /\ (m[1] \in Sites' => m[1] \in Sites)
  BY DEF LookOK, SiteStep
<1>4. ASSUME p \in Spaces', space'[p].ver = l.ver PROVE space'[p].mem = {m \in l.mem : m[1] \in Sites'}
  <2>1. space[p].ver = l.ver /\ p \in Spaces /\ space'[p].mem = {m \in space[p].mem : m[1] \in Sites'}
    BY <1>1, <1>4 DEF LookOK, SpaceStep
  <2>2. space[p].mem = {m \in l.mem : m[1] \in Sites}
    BY <2>1 DEF LookOK, Since
  <2> QED BY <1>3, <2>1, <2>2
<1> QED BY <1>2, <1>3, <1>4 DEF LookOK, Since

LEMMA ShownStays ==
    ASSUME SitesOK, SiteStep, NEW v, NEW sh, ShownOK(v, sh)
    PROVE  ShownOK(v, sh)'
<1>1. \A s \in DOMAIN v : s \in Site /\ site[s].ver \in Nat /\ site'[s].ver \in Nat
  BY RowTypes DEF SitesOK, SiteStep, ShownOK
<1>2. ASSUME NEW s \in DOMAIN v
      PROVE  /\ site'[s].row # "absent" /\ v[s] \in Nat /\ v[s] <= site'[s].ver
             /\ s \in Sites' /\ v[s] = site'[s].ver => sh[s] = Shown(s)'
  <2>1. /\ site[s].row # "absent" /\ v[s] \in Nat /\ v[s] <= site[s].ver
        /\ s \in Sites /\ v[s] = site[s].ver => sh[s] = Shown(s)
    BY DEF ShownOK
  <2>2. /\ site'[s].row # "absent" /\ (s \in Sites' => s \in Sites) /\ site[s].ver <= site'[s].ver
        /\ s \in Sites' /\ site'[s].ver = site[s].ver => Shown(s)' = Shown(s)
    BY <1>1, <2>1 DEF SiteStep
  <2>3. s \in Sites' /\ v[s] = site'[s].ver => v[s] = site[s].ver /\ site'[s].ver = site[s].ver
    BY <1>1, <2>1, <2>2
  <2> QED BY <1>1, <2>1, <2>2, <2>3
<1> QED BY <1>2 DEF ShownOK

RunStep ==
    /\ RunOK' /\ run.id <= run'.id
    /\ run'.id = run.id => run.ver <= run'.ver /\ (run'.ver = run.ver => run'.kept = run.kept)
DraftStep == DraftsOK' /\ \A o \in Op : draft[o] # None => draft'[o] = draft[o]

LEMMA RunStays ==
    ASSUME SitesOK, RunOK, SiteStep, UNCHANGED run
    PROVE  RunStep
<1>1. RunShape'
  BY DEF RunOK, RunShape
<1>2. ASSUME NEW v, NEW sh, v = run.print, sh = run.shown PROVE ShownOK(run.print, run.shown)'
  <2>1. ShownOK(v, sh)'
    BY <1>2, ShownStays DEF RunOK
  <2> QED BY <1>2, <2>1 DEF ShownOK
<1>3. RunOK'
  BY <1>1, <1>2 DEF RunOK
<1>4. run.id \in Nat /\ run.ver \in Nat
  BY DEF RunOK, RunShape
<1> QED BY <1>3, <1>4 DEF RunStep

LEMMA DraftsStay ==
    ASSUME SitesOK, SpacesOK, DraftsOK, SiteStep, SpaceStep, UNCHANGED draft
    PROVE  DraftStep
<1>1. ASSUME NEW o \in Op, draft'[o] # None, NEW l, l = draft[o] PROVE LookOK(Of(o), draft[o])'
  <2>1. Of(o) \in Space
    BY LibraryAssumption DEF Of
  <2>2. LookOK(Of(o), l)
    BY <1>1 DEF DraftsOK
  <2>3. \A p \in Space : LookOK(p, l) => LookOK(p, l)'
    BY LooksStay
  <2> QED BY <1>1, <2>1, <2>2, <2>3 DEF LookOK, Of
<1>2. DraftsOK'
  BY <1>1 DEF DraftsOK
<1> QED BY <1>2 DEF DraftStep

LEMMA RequestStays ==
    ASSUME SitesOK, SpacesOK, DraftsOK, RunOK, SiteStep, SpaceStep, RunStep, DraftStep,
           NEW r, ReqOK(r), r.do = "batch" => r.op \in Op
    PROVE  ReqOK(r)'
<1>1. ChangeOK(r)'
  <2>1. ASSUME r.do \in Changing PROVE LookOK(r.space, r.seen)'
    BY <2>1, LooksStay DEF ReqOK, ChangeOK
  <2> QED BY <2>1 DEF ReqOK, ChangeOK
<1>2. MergeOK(r)'
  <2> SUFFICES ASSUME r.do = "merge"
               PROVE  /\ r.id \in Nat /\ r.ver \in Nat /\ r.id <= run'.id
                      /\ r.id = run'.id => r.ver <= run'.ver /\ (r.ver = run'.ver => r.kept = run'.kept)
    BY DEF MergeOK
  <2>1. /\ run.id \in Nat /\ run.ver \in Nat /\ run'.id \in Nat /\ run'.ver \in Nat
        /\ run.id <= run'.id
        /\ run'.id = run.id => run.ver <= run'.ver /\ (run'.ver = run.ver => run'.kept = run.kept)
    BY DEF RunStep, RunOK, RunShape
  <2>2. /\ r.id \in Nat /\ r.ver \in Nat /\ r.id <= run.id
        /\ r.id = run.id => r.ver <= run.ver /\ (r.ver = run.ver => r.kept = run.kept)
    BY DEF ReqOK, MergeOK
  <2>3. r.id <= run'.id
    BY <2>1, <2>2
  <2>4. ASSUME r.id = run'.id PROVE r.ver <= run'.ver /\ (r.ver = run'.ver => r.kept = run'.kept)
    <3>1. r.id = run.id /\ run.id = run'.id
      BY <2>1, <2>2, <2>4
    <3>2. r.ver <= run.ver /\ run.ver <= run'.ver
      BY <2>1, <2>2, <3>1
    <3>3. r.ver = run'.ver => r.ver = run.ver /\ run'.ver = run.ver
      BY <2>1, <2>2, <3>2
    <3> QED BY <2>1, <2>2, <3>1, <3>2, <3>3
  <2> QED BY <2>2, <2>3, <2>4
<1>3. AnswerOK(r)'
  <2>1. r.do = "reclassify" => ShownOK(r.versions, r.shown)'
    BY ShownStays DEF ReqOK, AnswerOK
  <2>2. r.do = "enrich" => r.site \in Site /\ ShownOK([s \in {r.site} |-> r.snapshot.ver], r.shown)'
    BY ShownStays DEF ReqOK, AnswerOK
  <2> QED BY <2>1, <2>2 DEF AnswerOK
<1>4. BatchOK(r)'
  <2> SUFFICES ASSUME r.do = "batch" PROVE BatchOK(r)'
    BY DEF BatchOK
  <2>1. r.op \in Op /\ draft[r.op] # None /\ draft'[r.op] = draft[r.op] /\ Of(r.op) \in Space
    BY LibraryAssumption DEF ReqOK, BatchOK, DraftStep, Of
  <2>2. ASSUME ~Plan[r.op].create, r.at = "write"
        PROVE  /\ r.next \in Nat
               /\ Of(r.op) \in Spaces' /\ space'[Of(r.op)].ver = draft[r.op].ver
                    => \A m \in space'[Of(r.op)].mem : m[2] < r.next
    <3> DEFINE p == Of(r.op)
               v == draft[r.op].ver
    <3>1. r.next \in Nat /\ (p \in Spaces /\ space[p].ver = v => \A m \in space[p].mem : m[2] < r.next)
      BY <2>2 DEF ReqOK, BatchOK, Claims
    <3>2. v \in Nat /\ v <= space[p].ver
      BY <2>1 DEF DraftsOK, LookOK
    <3>3. space[p].ver \in Nat /\ space'[p].ver \in Nat /\ space[p].ver <= space'[p].ver
      BY <2>1, SpaceTypes DEF SpacesOK, SpaceStep
    <3>4. ASSUME p \in Spaces', space'[p].ver = v PROVE \A m \in space'[p].mem : m[2] < r.next
      <4>1. space[p].ver = v /\ space'[p].ver = space[p].ver
        BY <3>2, <3>3, <3>4
      <4>2. p \in Spaces /\ space'[p].mem = {m \in space[p].mem : m[1] \in Sites'}
        BY <2>1, <3>4, <4>1 DEF SpaceStep
      <4> QED BY <3>1, <4>1, <4>2
    <3> QED BY <3>1, <3>4
  <2> QED BY <2>1, <2>2 DEF BatchOK, Claims, Of
<1>5. DeleteOK(r)'
  <2>1. r.do = "delete" => DOMAIN r.versions \subseteq Site /\ \A p \in r.related : p \in Space /\ space[p].row # "absent"
    BY DEF ReqOK, DeleteOK
  <2> QED BY <2>1 DEF DeleteOK, SpaceStep
<1> QED BY <1>1, <1>2, <1>3, <1>4, <1>5 DEF ReqOK

\* A step of one request: the others stay, and this one becomes r.
LEMMA RequestsStep ==
    ASSUME OnceInv, LibInv, SiteStep, SpaceStep, RunStep, DraftStep,
           NEW t \in Tab, NEW r, ReqOK(r), r.do = "batch" => r.op \in Op,
           req' = [req EXCEPT ![t] = r]
    PROVE  LibInv'
<1>1. \A u \in Tab : req'[u] = IF u = t THEN r ELSE req[u]
  BY DEF OnceInv, Shapes
<1>2. ASSUME NEW q, ReqOK(q), q.do = "batch" => q.op \in Op PROVE ReqOK(q)'
  BY <1>2, RequestStays DEF LibInv
<1>3. ASSUME NEW u \in Tab, NEW q, q = req'[u] PROVE ReqOK(q)'
  <2>1. CASE u = t
    BY <1>1, <1>2, <1>3, <2>1
  <2>2. CASE u # t
    <3>1. q = req[u]
      BY <1>1, <1>3, <2>2
    <3>2. ReqOK(q)
      BY <3>1 DEF LibInv, ReqsOK
    <3>3. q.do = "batch" => q.op \in Op
      BY <3>1 DEF OnceInv, Shapes, BatchShape
    <3> QED BY <1>2, <3>2, <3>3
  <2> QED BY <2>1, <2>2
<1>4. ReqsOK'
  BY <1>3 DEF ReqsOK, ReqOK, ChangeOK, MergeOK, AnswerOK, BatchOK, DeleteOK
<1> QED BY <1>4 DEF LibInv, SiteStep, SpaceStep, RunStep, DraftStep

LEMMA RequestsStay ==
    ASSUME OnceInv, LibInv, SiteStep, SpaceStep, RunStep, DraftStep, UNCHANGED req
    PROVE  LibInv'
<1>1. ASSUME NEW u \in Tab, NEW q, q = req'[u] PROVE ReqOK(q)'
  <2>1. ReqOK(q)
    BY <1>1 DEF LibInv, ReqsOK
  <2>2. q.do = "batch" => q.op \in Op
    BY <1>1 DEF OnceInv, Shapes, BatchShape
  <2> QED BY <2>1, <2>2, RequestStays DEF LibInv
<1>2. ReqsOK'
  BY <1>1 DEF ReqsOK, ReqOK, ChangeOK, MergeOK, AnswerOK, BatchOK, DeleteOK
<1> QED BY <1>2 DEF LibInv, SiteStep, SpaceStep, RunStep, DraftStep

-----------------------------------------------------------------------------
(* Each action. *)
LEMMA NothingElse ==
    ASSUME LibInv, SiteStep, Sites \subseteq Sites', UNCHANGED <<space, run, draft, receipt>>
    PROVE  SpaceStep /\ RunStep /\ DraftStep
<1>1. SpaceStep
  BY SpacesStay DEF LibInv
<1> QED BY <1>1, RunStays, DraftsStay DEF LibInv

LEMMA LibraryStays ==
    ASSUME LibInv, UNCHANGED <<site, label>>
    PROVE  SiteStep /\ Sites' = Sites
BY NamesUnchanged, SitesStay DEF LibInv

LEMMA EditsKeep ==
    ASSUME OnceInv, LibInv, EditLibrary
    PROVE  LibInv'
<1>1. ASSUME SiteStep, Sites \subseteq Sites', UNCHANGED <<space, run, drafts, batches, req>> PROVE LibInv'
  BY <1>1, NothingElse, RequestsStay DEF drafts, batches
<1>2. SitesOK /\ LabelsOK /\ Sites \subseteq Site
  BY DEF LibInv, Sites
<1>3. ASSUME NEW s \in Site, NEW k \in Key, NEW c \in Category, NEW T \in TagChoices, CreateSite(s, k, c, T)
      PROVE  LibInv'
  BY <1>1, <1>2, <1>3, CreateSiteStep DEF CreateSite
<1>4. ASSUME NEW s \in Site, NEW k \in Key, NEW c \in Category, NEW T \in TagChoices, ImportSite(s, k, c, T)
      PROVE  LibInv'
  <2>1. T \in SUBSET Tag
    BY DEF TagChoices
  <2> QED BY <1>1, <1>2, <1>4, <2>1, ImportSiteStep DEF ImportSite
<1>5. ASSUME NEW s \in Sites, NEW c \in Category, NEW T \in TagChoices, ImportInto(s, c, T) PROVE LibInv'
  <2>1. T \in SUBSET Tag
    BY DEF TagChoices
  <2>2. UNCHANGED <<space, run, drafts, batches, req>>
    BY <1>5 DEF ImportInto
  <2> QED BY <1>1, <1>2, <1>5, <2>1, <2>2, ImportIntoStep
<1>6. ASSUME NEW s \in Sites, EditSite(s) PROVE LibInv'
  BY <1>1, <1>2, <1>6, EditSiteStep DEF EditSite
<1>17. ASSUME NEW s \in Sites, Describe(s) PROVE LibInv'
  BY <1>1, <1>2, <1>17, DescribeStep DEF Describe
<1>7. ASSUME NEW s \in Sites, ReorderSites(s) PROVE LibInv'
  <2>1. UNCHANGED <<space, run, drafts, batches, req>>
    BY <1>7 DEF ReorderSites
  <2> QED BY <1>1, <1>2, <1>7, <2>1, ReorderSitesStep
<1>8. ASSUME NEW s \in Sites, NEW T \in TagChoices, TagSite(s, T) PROVE LibInv'
  BY <1>1, <1>2, <1>8, TagSiteStep DEF TagSite
<1>9. ASSUME NEW s \in Sites, NEW c \in Category, MoveSite(s, c) PROVE LibInv'
  <2>1. UNCHANGED <<space, run, drafts, batches, req>>
    BY <1>9 DEF MoveSite
  <2> QED BY <1>1, <1>2, <1>9, <2>1, MoveSiteStep
<1>10. ASSUME NEW s \in Sites, NEW k \in Key, ReaddressSite(s, k) PROVE LibInv'
  <2>1. UNCHANGED <<space, run, drafts, batches, req>>
    BY <1>10 DEF ReaddressSite
  <2> QED BY <1>1, <1>2, <1>10, <2>1, ReaddressSiteStep
<1>11. ASSUME NEW c \in Category, RenameCategory(c) PROVE LibInv'
  <2>1. UNCHANGED <<space, run, drafts, batches, req>>
    BY <1>11 DEF RenameCategory
  <2> QED BY <1>1, <1>2, <1>11, <2>1, RenameCategoryStep
<1>12. ASSUME NEW c \in Category, DeleteCategory(c) PROVE LibInv'
  <2>1. UNCHANGED <<space, run, drafts, batches, req>>
    BY <1>12 DEF DeleteCategory
  <2> QED BY <1>1, <1>2, <1>12, <2>1, DeleteCategoryStep
<1>13. ASSUME NEW n \in Category \cup Tag, CreateName(n) PROVE LibInv'
  BY <1>1, <1>2, <1>13, CreateNameStep DEF CreateName
<1>14. ASSUME NEW g \in Tag, RenameTag(g) PROVE LibInv'
  <2>1. UNCHANGED <<space, run, drafts, batches, req>>
    BY <1>14 DEF RenameTag
  <2> QED BY <1>1, <1>2, <1>14, <2>1, RenameTagStep
<1>15. ASSUME NEW g \in Tag, DeleteTag(g) PROVE LibInv'
  <2>1. UNCHANGED <<space, run, drafts, batches, req>>
    BY <1>15 DEF DeleteTag
  <2> QED BY <1>1, <1>2, <1>15, <2>1, DeleteTagStep
<1>16. ASSUME NEW p \in Space, CreateSpace(p) PROVE LibInv'
  <2>1. UNCHANGED <<site, label, run, draft, req>>
    BY <1>16 DEF CreateSpace, library, drafts
  <2>2. SiteStep /\ SpaceStep
    BY <1>16, <2>1, LibraryStays, CreateSpaceStep DEF LibInv
  <2> QED BY <2>1, <2>2, RunStays, DraftsStay, RequestsStay DEF LibInv
<1> QED BY <1>3, <1>4, <1>5, <1>6, <1>7, <1>8, <1>9, <1>10, <1>11, <1>12, <1>13, <1>14, <1>15, <1>16, <1>17
        DEF EditLibrary

\* A scan shows the library as it is.
LEMMA ScannedIs ==
    ASSUME SitesOK
    PROVE  /\ ShownOK(Versions, View) /\ DOMAIN Versions = Sites
           /\ \A g \in Groups : g # {} /\ g \subseteq Sites
           /\ \A g, h \in Groups : g \cap h # {} => g = h
<1>1. \A s \in Sites : s \in Site /\ site[s].row = "there" /\ site[s].ver \in Nat
  BY RowTypes DEF SitesOK, Sites
<1>2. DOMAIN Versions = Sites /\ DOMAIN View = Sites
  BY DEF Versions, View
<1>3. \A s \in Sites : Versions[s] = site[s].ver /\ View[s] = Shown(s)
  BY DEF Versions, View
<1>4. Versions = [s \in Sites |-> Versions[s]] /\ View = [s \in Sites |-> View[s]]
  BY DEF Versions, View
<1>5. ShownOK(Versions, View)
  BY <1>1, <1>2, <1>3, <1>4 DEF ShownOK
<1>6. \A k : Alike(k) \subseteq Sites /\ (Cardinality(Alike(k)) > 1 => Alike(k) # {})
  <2> SUFFICES ASSUME NEW k PROVE Alike(k) \subseteq Sites /\ (Cardinality(Alike(k)) > 1 => Alike(k) # {})
    OBVIOUS
  <2>1. Alike(k) \subseteq Sites
    BY DEF Alike
  <2>2. Cardinality({}) = 0
    BY FS_EmptySet
  <2>3. Alike(k) = {} => ~(Cardinality(Alike(k)) > 1)
    BY <2>2
  <2> QED BY <2>1, <2>3
<1>7. \A g \in Groups : g # {} /\ g \subseteq Sites /\ \E k \in Key : g = Alike(k)
  BY <1>6 DEF Groups
<1>8. ASSUME NEW g \in Groups, NEW h \in Groups, g \cap h # {} PROVE g = h
  <2>1. PICK k \in Key : g = Alike(k)
    BY <1>7
  <2>2. PICK l \in Key : h = Alike(l)
    BY <1>7
  <2>3. k = l
    BY <1>8, <2>1, <2>2 DEF Alike
  <2> QED BY <2>1, <2>2, <2>3
<1> QED BY <1>2, <1>5, <1>7, <1>8

LEMMA ScannedRun ==
    ASSUME SitesOK, NEW id \in Nat, NEW q, q = Scanned(id)
    PROVE  /\ q = [id |-> q.id, status |-> q.status, ver |-> q.ver, kept |-> q.kept,
                   groups |-> q.groups, print |-> q.print, shown |-> q.shown, texts |-> q.texts]
           /\ q.id = id /\ q.ver = 1 /\ q.status = "ready" /\ q.kept = {}
           /\ q.groups = Groups /\ q.print = Versions /\ q.shown = View
BY DEF Scanned

LEMMA RunFields ==
    ASSUME RunShape, NEW a, NEW b
    PROVE  /\ [run EXCEPT !.ver = a, !.kept = b]
                = [id |-> run.id, status |-> run.status, ver |-> a, kept |-> b,
                   groups |-> run.groups, print |-> run.print, shown |-> run.shown, texts |-> run.texts]
           /\ [run EXCEPT !.status = b, !.ver = a]
                = [id |-> run.id, status |-> b, ver |-> a, kept |-> run.kept,
                   groups |-> run.groups, print |-> run.print, shown |-> run.shown, texts |-> run.texts]
<1> DEFINE i == run.id
           t == run.status
           v == run.ver
           k == run.kept
           g == run.groups
           p == run.print
           h == run.shown
           w == run.texts
           x == [id |-> i, status |-> t, ver |-> v, kept |-> k, groups |-> g, print |-> p, shown |-> h, texts |-> w]
           y == [x EXCEPT !.ver = a]
           z == [x EXCEPT !.status = b]
<1>1. run = x
  BY DEF RunShape
<1> HIDE DEF i, t, v, k, g, p, h, w
<1>2. y = [id |-> i, status |-> t, ver |-> a, kept |-> k, groups |-> g, print |-> p, shown |-> h, texts |-> w]
  OBVIOUS
<1>3. z = [id |-> i, status |-> b, ver |-> v, kept |-> k, groups |-> g, print |-> p, shown |-> h, texts |-> w]
  OBVIOUS
<1>4. [run EXCEPT !.ver = a, !.kept = b] = [y EXCEPT !.kept = b]
  BY <1>1
<1>5. [run EXCEPT !.status = b, !.ver = a] = [z EXCEPT !.ver = a]
  BY <1>1
<1> HIDE DEF y, z
<1>6. [y EXCEPT !.kept = b] = [id |-> i, status |-> t, ver |-> a, kept |-> b, groups |-> g, print |-> p, shown |-> h, texts |-> w]
  BY <1>2
<1>7. [z EXCEPT !.ver = a] = [id |-> i, status |-> b, ver |-> a, kept |-> k, groups |-> g, print |-> p, shown |-> h, texts |-> w]
  BY <1>3
<1> QED BY <1>4, <1>5, <1>6, <1>7 DEF i, t, v, k, g, p, h, w

\* The run of the same scan, after another decision.
LEMMA DecidedRun ==
    ASSUME SitesOK, RunOK, SiteStep, NEW a, a = run.ver + 1, NEW b, b \subseteq UNION run.groups,
           NEW t \in {"ready", "applied"},
           run' = [id |-> run.id, status |-> t, ver |-> a, kept |-> b,
                   groups |-> run.groups, print |-> run.print, shown |-> run.shown, texts |-> run.texts]
    PROVE  RunStep
<1>1. /\ run'.id = run.id /\ run'.status = t /\ run'.ver = a /\ run'.kept = b
      /\ run'.groups = run.groups /\ run'.print = run.print /\ run'.shown = run.shown
      /\ run'.texts = run.texts
  OBVIOUS
<1>2. run' = [id |-> run'.id, status |-> run'.status, ver |-> run'.ver, kept |-> run'.kept,
              groups |-> run'.groups, print |-> run'.print, shown |-> run'.shown, texts |-> run'.texts]
  BY <1>1
<1>3. run.id \in Nat /\ run.ver \in Nat
  BY DEF RunOK, RunShape
<1>4. RunShape'
  BY <1>1, <1>2, <1>3 DEF RunOK, RunShape
<1>5. ASSUME NEW v, NEW sh, v = run.print, sh = run.shown PROVE ShownOK(run.print, run.shown)'
  <2>1. ShownOK(v, sh)'
    BY <1>5, ShownStays DEF RunOK
  <2> QED BY <1>1, <1>5, <2>1 DEF ShownOK
<1>6. RunOK'
  BY <1>4, <1>5 DEF RunOK
<1> QED BY <1>1, <1>3, <1>6 DEF RunStep

LEMMA ScanStep ==
    ASSUME SitesOK, RunOK, SiteStep, Scan
    PROVE  RunStep
<1> DEFINE n == run.id + 1
<1>1. run.id \in Nat /\ n \in Nat /\ run.id < n
  BY DEF RunOK, RunShape
<1>2. run' = Scanned(n)
  BY DEF Scan
<1> HIDE DEF n
<1>3. /\ run' = [id |-> run'.id, status |-> run'.status, ver |-> run'.ver, kept |-> run'.kept,
                 groups |-> run'.groups, print |-> run'.print, shown |-> run'.shown, texts |-> run'.texts]
      /\ run'.id = n /\ run'.ver = 1 /\ run'.status = "ready" /\ run'.kept = {}
      /\ run'.groups = Groups /\ run'.print = Versions /\ run'.shown = View
  BY <1>1, <1>2, ScannedRun
<1>4. /\ ShownOK(Versions, View) /\ DOMAIN Versions = Sites
      /\ \A g \in Groups : g # {} /\ g \subseteq Sites
      /\ \A g, h \in Groups : g \cap h # {} => g = h
  BY ScannedIs
<1>5. RunShape'
  BY <1>1, <1>3, <1>4 DEF RunShape
<1>6. ASSUME NEW v, NEW sh, v = Versions, sh = View PROVE ShownOK(run.print, run.shown)'
  <2>1. ShownOK(v, sh)
    BY <1>4, <1>6
  <2>2. ShownOK(v, sh)'
    BY <2>1, ShownStays
  <2> QED BY <1>3, <1>6, <2>2 DEF ShownOK
<1>7. RunOK'
  BY <1>5, <1>6 DEF RunOK
<1> QED BY <1>1, <1>3, <1>7 DEF RunStep

LEMMA DecisionsKeep ==
    ASSUME OnceInv, LibInv, Decisions
    PROVE  LibInv'
<1>1. UNCHANGED <<site, label, space, batches, req>>
  BY DEF Decisions, Scan, Recommend, Decide, Propose, library
<1>2. SiteStep /\ Sites' = Sites /\ SitesOK /\ RunOK
  BY <1>1, LibraryStays DEF LibInv
<1>3. SpaceStep
  BY <1>1, <1>2, SpacesStay DEF LibInv, batches
<1>4. ASSUME RunStep, UNCHANGED draft PROVE LibInv'
  BY <1>1, <1>2, <1>3, <1>4, DraftsStay, RequestsStay DEF LibInv
<1>5. CASE Scan
  BY <1>2, <1>4, <1>5, ScanStep DEF Scan, drafts
<1>6. ASSUME NEW g \in run.groups, NEW K \in SUBSET g, Decide(g, K) PROVE LibInv'
  <2> DEFINE a == run.ver + 1
             b == (run.kept \ g) \cup (IF K = g THEN {} ELSE K)
  <2>1. run' = [run EXCEPT !.ver = a, !.kept = b] /\ UNCHANGED draft
    BY <1>6 DEF Decide, drafts
  <2>2. b \subseteq UNION run.groups
    BY <1>2 DEF RunOK, RunShape
  <2>3. run.status \in {"ready", "applied"} /\ RunShape
    BY <1>2 DEF RunOK, RunShape
  <2>4. a = run.ver + 1
    OBVIOUS
  <2> HIDE DEF a, b
  <2>5. run' = [id |-> run.id, status |-> run.status, ver |-> a, kept |-> b,
                groups |-> run.groups, print |-> run.print, shown |-> run.shown, texts |-> run.texts]
    BY <2>1, <2>3, RunFields
  <2>6. RunStep
    BY <1>2, <2>2, <2>3, <2>4, <2>5, DecidedRun
  <2> QED BY <1>4, <2>1, <2>6
<1>7. CASE Recommend
  <2> DEFINE a == run.ver + 1
             b == {Best(g) : g \in run.groups}
  <2>1. run' = [run EXCEPT !.ver = a, !.kept = b] /\ UNCHANGED draft
    BY <1>7 DEF Recommend, drafts
  <2>2. b \subseteq UNION run.groups
    <3>1. \A g \in run.groups : g # {} /\ g \subseteq Site
      BY <1>2 DEF RunOK, RunShape, ShownOK
    <3>2. \A g \in run.groups : Best(g) \in g
      BY <3>1, BestIs
    <3> QED BY <3>2
  <2>3. run.status \in {"ready", "applied"} /\ RunShape
    BY <1>2 DEF RunOK, RunShape
  <2>4. a = run.ver + 1
    OBVIOUS
  <2> HIDE DEF a, b
  <2>5. run' = [id |-> run.id, status |-> run.status, ver |-> a, kept |-> b,
                groups |-> run.groups, print |-> run.print, shown |-> run.shown, texts |-> run.texts]
    BY <2>1, <2>3, RunFields
  <2>6. RunStep
    BY <1>2, <2>2, <2>3, <2>4, <2>5, DecidedRun
  <2> QED BY <1>4, <2>1, <2>6
<1>8. ASSUME NEW o \in Op, Propose(o) PROVE LibInv'
  <2>1. UNCHANGED run /\ draft[o] = None /\ (draft' = [draft EXCEPT ![o] = Look(Of(o))] \/ draft' = draft)
    BY <1>8 DEF Propose, library
  <2>2. RunStep
    BY <1>2, <2>1, RunStays
  <2>3. CASE draft' = draft
    BY <1>4, <2>2, <2>3
  <2>4. CASE draft' = [draft EXCEPT ![o] = Look(Of(o))]
    <3>1. \A q \in Op : draft'[q] = IF q = o THEN Look(Of(o)) ELSE draft[q]
      BY <2>4 DEF LibInv, DraftsOK
    <3>2. Of(o) \in Space
      BY LibraryAssumption DEF Of
    <3>3. LookOK(Of(o), Look(Of(o)))
      <4>1. space[Of(o)].ver \in Nat
        BY <3>2, SpaceTypes DEF LibInv, SpacesOK
      <4>2. \A m \in space[Of(o)].mem : m[1] \in Sites
        BY <3>2 DEF LibInv, SpacesOK
      <4> QED BY <4>1, <4>2 DEF LookOK, Look, Sites, Since
    <3>4. ASSUME NEW q \in Op, draft'[q] # None, NEW l, l = draft'[q] PROVE LookOK(Of(q), draft[q])'
      <4>1. Of(q) \in Space
        BY LibraryAssumption DEF Of
      <4>2. LookOK(Of(q), l)
        BY <3>1, <3>3, <3>4 DEF LibInv, DraftsOK
      <4>3. \A p \in Space : LookOK(p, l) => LookOK(p, l)'
        BY <1>2, <1>3, LooksStay DEF LibInv
      <4> QED BY <3>4, <4>1, <4>2, <4>3 DEF LookOK, Of
    <3>5. DraftsOK'
      BY <2>4, <3>1, <3>4 DEF LibInv, DraftsOK
    <3>6. DraftStep
      BY <2>1, <3>1, <3>5 DEF DraftStep
    <3> QED BY <1>1, <1>2, <1>3, <2>2, <3>6, RequestsStay
  <2> QED BY <2>1, <2>3, <2>4
<1> QED BY <1>5, <1>6, <1>7, <1>8 DEF Decisions

LEMMA AsksKeep ==
    ASSUME OnceInv, LibInv, NEW t \in Tab, Asks(t)
    PROVE  LibInv'
<1>1. ASSUME NEW r, Ask(t, r), UNCHANGED <<library, space, drafts, batches>>,
             ReqOK(r), r.do = "batch" => r.op \in Op
      PROVE  LibInv'
  <2>1. UNCHANGED <<site, label, run, space, draft, receipt>>
    BY <1>1 DEF library, drafts, batches
  <2>2. SiteStep /\ SpaceStep /\ RunStep /\ DraftStep
    BY <2>1, LibraryStays, NothingElse
  <2> QED BY <1>1, <2>2, RequestsStep DEF Ask
<1>2. ASSUME NEW S \in SUBSET Sites, AskDelete(t, S) PROVE LibInv'
  <2> DEFINE v == [s \in S |-> site[s].ver]
             p == {q \in Spaces : S \cap Members(q) # {}}
             r == [do |-> "delete", versions |-> v, related |-> p]
  <2>1. Ask(t, r) /\ UNCHANGED <<library, space, drafts, batches>>
    BY <1>2 DEF AskDelete
  <2>2. DOMAIN v \subseteq Site /\ \A q \in p : q \in Space /\ space[q].row # "absent"
    BY DEF Sites, Spaces
  <2> HIDE DEF v, p
  <2>3. r.do = "delete" /\ r.versions = v /\ r.related = p
    OBVIOUS
  <2> HIDE DEF r
  <2>4. ReqOK(r)
    BY <2>2, <2>3 DEF ReqOK, ChangeOK, Changing, MergeOK, AnswerOK, BatchOK, DeleteOK
  <2> QED BY <1>1, <2>1, <2>3, <2>4
<1>3. CASE AskMerge(t)
  <2> DEFINE r == [do |-> "merge", id |-> run.id, ver |-> run.ver, kept |-> run.kept]
  <2>1. Ask(t, r) /\ UNCHANGED <<library, space, drafts, batches>>
    BY <1>3 DEF AskMerge
  <2>2. r.do = "merge" /\ r.id = run.id /\ r.ver = run.ver /\ r.kept = run.kept
    OBVIOUS
  <2>3. run.id \in Nat /\ run.ver \in Nat
    BY DEF LibInv, RunOK, RunShape
  <2> HIDE DEF r
  <2>4. ReqOK(r)
    BY <2>2, <2>3 DEF ReqOK, ChangeOK, Changing, MergeOK, AnswerOK, BatchOK, DeleteOK
  <2> QED BY <1>1, <2>1, <2>2, <2>4
<1>4. CASE AskReclassify(t)
  <2> DEFINE v == Versions
             h == View
             n == Names(Categories)
             r == [do |-> "reclassify", versions |-> v, names |-> n, shown |-> h]
  <2>1. Ask(t, r) /\ UNCHANGED <<library, space, drafts, batches>>
    BY <1>4 DEF AskReclassify
  <2>2. ShownOK(v, h)
    BY ScannedIs DEF LibInv
  <2> HIDE DEF v, h, n
  <2>3. r.do = "reclassify" /\ r.versions = v /\ r.shown = h
    OBVIOUS
  <2> HIDE DEF r
  <2>4. ReqOK(r)
    BY <2>2, <2>3 DEF ReqOK, ChangeOK, Changing, MergeOK, AnswerOK, BatchOK, DeleteOK
  <2> QED BY <1>1, <2>1, <2>3, <2>4
<1>5. ASSUME NEW s \in Sites, AskEnrich(t, s) PROVE LibInv'
  <2> DEFINE n == Snapshot(s)
             h == [u \in {s} |-> Shown(u)]
             r == [do |-> "enrich", site |-> s, snapshot |-> n, shown |-> h]
             v == [u \in {s} |-> n.ver]
  <2>1. Ask(t, r) /\ UNCHANGED <<library, space, drafts, batches>>
    BY <1>5 DEF AskEnrich
  <2>2. n.ver = site[s].ver /\ s \in Site /\ site[s].ver \in Nat /\ site[s].row # "absent"
    BY RowTypes DEF Snapshot, LibInv, SitesOK, Sites
  <2> HIDE DEF n
  <2>3. ShownOK(v, h)
    BY <2>2 DEF ShownOK
  <2> HIDE DEF h
  <2>4. r.do = "enrich" /\ r.site = s /\ r.snapshot = n /\ r.shown = h
    OBVIOUS
  <2> HIDE DEF r
  <2>5. ReqOK(r)
    BY <2>2, <2>3, <2>4 DEF ReqOK, ChangeOK, Changing, MergeOK, AnswerOK, BatchOK, DeleteOK
  <2> QED BY <1>1, <2>1, <2>4, <2>5
<1>6. ASSUME NEW p \in Spaces, NEW s \in Site, NEW do \in Changing, AskSpace(t, p, do, s) PROVE LibInv'
  <2> DEFINE l == Look(p)
             r == [do |-> do, space |-> p, site |-> s, seen |-> l]
  <2>1. Ask(t, r) /\ UNCHANGED <<library, space, drafts, batches>> /\ (do = "add" => s \in Sites \ Members(p))
    BY <1>6 DEF AskSpace
  <2>2. p \in Space /\ space[p].ver \in Nat /\ \A m \in space[p].mem : m[1] \in Sites
    BY SpaceTypes DEF LibInv, SpacesOK, Spaces
  <2>3. l.ver = space[p].ver /\ l.mem = space[p].mem
    BY DEF Look
  <2> HIDE DEF l
  <2>4. LookOK(p, l) /\ (do = "add" => s \notin {m[1] : m \in l.mem})
    BY <2>1, <2>2, <2>3 DEF LookOK, Sites, Since, Members
  <2>5. r.do = do /\ r.space = p /\ r.site = s /\ r.seen = l
    OBVIOUS
  <2> HIDE DEF r
  <2>6. r.do \notin {"merge", "reclassify", "enrich", "batch", "delete"}
    BY <2>5 DEF Changing
  <2>7. ReqOK(r)
    BY <2>2, <2>4, <2>5, <2>6 DEF ReqOK, ChangeOK, MergeOK, AnswerOK, BatchOK, DeleteOK
  <2> QED BY <1>1, <2>1, <2>6, <2>7
<1>7. ASSUME NEW o \in Op, AskBatch(t, o) PROVE LibInv'
  <2> DEFINE r == [do |-> "batch", op |-> o, at |-> "receipt", fresh |-> FALSE, missing |-> {}, next |-> 0]
  <2>1. Ask(t, r) /\ UNCHANGED <<library, space, drafts, batches>> /\ draft[o] # None
    BY <1>7 DEF AskBatch
  <2>2. r.do = "batch" /\ r.op = o /\ r.at = "receipt"
    OBVIOUS
  <2> HIDE DEF r
  <2>3. ReqOK(r)
    BY <2>1, <2>2 DEF ReqOK, ChangeOK, Changing, MergeOK, AnswerOK, BatchOK, DeleteOK
  <2> QED BY <1>1, <2>1, <2>2, <2>3
<1>8. ASSUME NEW o \in Op, AskNote(t, o) PROVE LibInv'
  <2> DEFINE r == [do |-> "note", op |-> o, at |-> "check", count |-> 0]
  <2>1. Ask(t, r) /\ UNCHANGED <<library, space, drafts, batches>>
    BY <1>8 DEF AskNote
  <2>2. r.do = "note"
    OBVIOUS
  <2> HIDE DEF r
  <2>3. ReqOK(r)
    BY <2>2 DEF ReqOK, ChangeOK, Changing, MergeOK, AnswerOK, BatchOK, DeleteOK
  <2> QED BY <1>1, <2>1, <2>2, <2>3
<1> QED BY <1>2, <1>3, <1>4, <1>5, <1>6, <1>7, <1>8 DEF Asks, Changing

LEMMA FinishKeeps ==
    ASSUME OnceInv, LibInv, SiteStep, SpaceStep, RunStep, DraftStep, NEW t \in Tab, Finish(t)
    PROVE  LibInv'
<1>1. Idle.do = "idle"
  BY DEF Idle
<1>2. ReqOK(Idle)
  BY <1>1 DEF ReqOK, ChangeOK, Changing, MergeOK, AnswerOK, BatchOK, DeleteOK
<1> QED BY <1>1, <1>2, RequestsStep DEF Finish

LEMMA BatchRequest ==
    ASSUME NEW r, r.do = "batch", draft[r.op] # None,
           r.at # "write" \/ Plan[r.op].create \/ (r.next \in Nat /\ \A m \in space[Of(r.op)].mem : m[2] < r.next)
    PROVE  ReqOK(r)
BY DEF ReqOK, ChangeOK, Changing, MergeOK, AnswerOK, BatchOK, DeleteOK

\* The steps of a batch that change no Space.
LEMMA BatchReadsKeep ==
    ASSUME OnceInv, LibInv, NEW t \in Tab, UNCHANGED <<library, space, drafts>>, ReceiptsStay,
           req[t].do = "batch",
           \/ Finish(t)
           \/ \E w : Goes(t, w) /\ (w # "write" \/ Plan[req[t].op].create)
           \/ ReadSpace(t) \/ ReadMembers(t)
    PROVE  LibInv'
<1> DEFINE o == req[t].op
<1>1. SiteStep /\ SpaceStep /\ RunStep /\ DraftStep
  <2>1. UNCHANGED <<site, label, run, space, draft>>
    BY DEF library, drafts
  <2>2. SiteStep /\ Sites' = Sites
    BY <2>1, LibraryStays
  <2>3. SpaceStep
    BY <2>1, <2>2, SpacesStay DEF LibInv, ReceiptsStay
  <2> QED BY <2>1, <2>2, <2>3, RunStays, DraftsStay DEF LibInv
<1>2. BatchShape(req[t]) /\ draft[o] # None /\ o \in Op
  BY DEF OnceInv, Shapes, BatchShape, LibInv, ReqsOK, ReqOK, BatchOK
<1>3. ASSUME NEW r, req' = [req EXCEPT ![t] = r], r.do = "batch", r.op = o,
             r.at # "write" \/ Plan[o].create \/ (r.next \in Nat /\ \A m \in space[Of(o)].mem : m[2] < r.next)
      PROVE  LibInv'
  <2>1. ReqOK(r)
    BY <1>2, <1>3, BatchRequest
  <2> QED BY <1>1, <1>2, <1>3, <2>1, RequestsStep
<1>4. CASE Finish(t)
  BY <1>1, <1>4, FinishKeeps
<1>5. ASSUME NEW w, Goes(t, w), w # "write" \/ Plan[o].create PROVE LibInv'
  <2> DEFINE r == [req[t] EXCEPT !.at = w]
  <2>1. r.do = "batch" /\ r.op = o /\ r.at = w
    BY <1>2 DEF BatchShape
  <2>2. req' = [req EXCEPT ![t] = r]
    BY <1>5 DEF Goes
  <2> HIDE DEF r
  <2> QED BY <1>3, <1>5, <2>1, <2>2
<1>6. CASE ReadSpace(t)
  <2> DEFINE a == IF Of(o) \in Spaces THEN "again" ELSE IF Plan[o].create THEN "sites" ELSE "miss"
             f == Of(o) \in Spaces /\ space[Of(o)].ver = draft[o].ver
             x == [req[t] EXCEPT !.at = a]
             r == [x EXCEPT !.fresh = f]
  <2>1. req' = [req EXCEPT ![t] = r]
    BY <1>6 DEF ReadSpace
  <2>2. a # "write"
    OBVIOUS
  <2> HIDE DEF a, f
  <2>3. BatchShape(x) /\ x.do = "batch" /\ x.op = o /\ x.at = a
    BY <1>2 DEF BatchShape
  <2> HIDE DEF x
  <2>4. r.do = "batch" /\ r.op = o /\ r.at = a
    BY <2>3 DEF BatchShape
  <2> HIDE DEF r
  <2> QED BY <1>3, <2>1, <2>2, <2>4
<1>7. CASE ReadMembers(t)
  <2> DEFINE S == Plan[o].sites \ Members(Of(o))
             n == SpaceEnd(Of(o))
             a == IF S = {} THEN "keep" ELSE IF req[t].fresh THEN "write" ELSE "conflict"
             x == [req[t] EXCEPT !.missing = S]
             y == [x EXCEPT !.next = n]
             r == [y EXCEPT !.at = a]
  <2>1. req' = [req EXCEPT ![t] = r]
    BY <1>7 DEF ReadMembers
  <2>2. n \in Nat /\ \A m \in space[Of(o)].mem : m[2] < n
    <3>1. Of(o) \in Space
      BY LibraryAssumption, <1>2 DEF Of
    <3> QED BY <3>1, SpaceEndIs DEF LibInv
  <2> HIDE DEF S, n, a
  <2>3. BatchShape(x) /\ x.do = "batch" /\ x.op = o
    BY <1>2 DEF BatchShape
  <2> HIDE DEF x
  <2>4. BatchShape(y) /\ y.do = "batch" /\ y.op = o /\ y.next = n
    BY <2>3 DEF BatchShape
  <2> HIDE DEF y
  <2>5. r.do = "batch" /\ r.op = o /\ r.next = n
    BY <2>4 DEF BatchShape
  <2> HIDE DEF r
  <2> QED BY <1>3, <2>1, <2>2, <2>5
<1> QED BY <1>4, <1>5, <1>6, <1>7

LEMMA BatchesKeep ==
    ASSUME OnceInv, LibInv, NEW t \in Tab, ReceiptsStay,
           \/ ReadReceipt(t) \/ ReadSpace(t) \/ ReadSites(t) \/ ReadMembers(t) \/ ReadReached(t)
           \/ WriteNew(t) \/ WriteInto(t) \/ KeepReceipt(t)
    PROVE  LibInv'
<1>1. req[t].do = "batch" /\ UNCHANGED <<library, drafts>>
  BY DEF ReadReceipt, ReadSpace, ReadSites, ReadMembers, ReadReached, WriteNew, WriteInto, KeepReceipt,
         AtBatch, Quiet, Commits, RollsBack
<1>2. ASSUME UNCHANGED space,
             \/ Finish(t)
             \/ \E w : Goes(t, w) /\ (w # "write" \/ Plan[req[t].op].create)
             \/ ReadSpace(t) \/ ReadMembers(t)
      PROVE  LibInv'
  BY <1>1, <1>2, BatchReadsKeep
<1>3. CASE ReadReceipt(t)
  <2>1. CASE Finish(t)
    BY <1>2, <1>3, <2>1 DEF ReadReceipt
  <2>2. CASE ~Finish(t)
    <3> DEFINE w == CASE req[t].at = "receipt" -> "target"
                      [] req[t].at = "again" -> IF Plan[req[t].op].create THEN "reached" ELSE "sites"
                      [] req[t].at = "conflict" -> "reached"
    <3>1. Goes(t, w) /\ UNCHANGED space /\ req[t].at \in {"receipt", "again", "conflict"}
      BY <1>3, <2>2 DEF ReadReceipt, Replay, AtBatch
    <3>2. w # "write"
      BY <3>1
    <3> HIDE DEF w
    <3> QED BY <1>2, <3>1, <3>2
  <2> QED BY <2>1, <2>2
<1>4. CASE ReadSpace(t)
  BY <1>2, <1>4 DEF ReadSpace
<1>5. CASE ReadSites(t)
  <2> DEFINE o == req[t].op
             w == IF ~(Plan[o].sites \subseteq Sites) THEN "miss" ELSE IF Plan[o].create THEN "write" ELSE "members"
  <2>1. Goes(t, w) /\ UNCHANGED space
    BY <1>5 DEF ReadSites
  <2>2. w # "write" \/ Plan[o].create
    OBVIOUS
  <2> HIDE DEF w
  <2> QED BY <1>2, <2>1, <2>2
<1>6. CASE ReadMembers(t)
  BY <1>2, <1>6 DEF ReadMembers
<1>7. CASE ReadReached(t)
  <2>1. UNCHANGED space /\ (Goes(t, "keep") \/ Finish(t))
    BY <1>7 DEF ReadReached
  <2> QED BY <1>2, <2>1
<1>8. CASE KeepReceipt(t)
  BY <1>2, <1>8 DEF KeepReceipt, Replay
<1>9. CASE WriteNew(t) \/ WriteInto(t)
  <2>1. UNCHANGED <<site, label, run, draft>>
    BY <1>1 DEF library, drafts
  <2>2. SiteStep
    BY <2>1, LibraryStays
  <2>3. SpaceStep
    BY <1>9, WriteNewStep, WriteIntoStep DEF LibInv
  <2>4. CASE Finish(t)
    <3>1. RunStep /\ DraftStep
      BY <2>1, <2>2, <2>3, RunStays, DraftsStay DEF LibInv
    <3> QED BY <2>2, <2>3, <2>4, <3>1, FinishKeeps
  <2>5. CASE ~Finish(t)
    <3>1. Goes(t, "conflict") /\ UNCHANGED space
      BY <1>9, <2>5 DEF WriteNew, WriteInto, Commits, RollsBack
    <3> QED BY <1>2, <3>1
  <2> QED BY <2>4, <2>5
<1> QED BY <1>3, <1>4, <1>5, <1>6, <1>7, <1>8, <1>9

LEMMA NotesKeep ==
    ASSUME OnceInv, LibInv, NEW t \in Tab, CheckNote(t) \/ ReadTalk(t) \/ AppendNote(t)
    PROVE  LibInv'
<1>1. req[t].do = "note" /\ NoteShape(req[t]) /\ UNCHANGED <<site, label, run, space, draft, receipt>>
  BY DEF CheckNote, ReadTalk, AppendNote, OnceInv, Shapes, library, drafts, batches
<1>2. SiteStep /\ SpaceStep /\ RunStep /\ DraftStep
  BY <1>1, LibraryStays, NothingElse
<1>3. ASSUME NEW r, req' = [req EXCEPT ![t] = r], r.do = "note" PROVE LibInv'
  <2>1. ReqOK(r)
    BY <1>3 DEF ReqOK, ChangeOK, Changing, MergeOK, AnswerOK, BatchOK, DeleteOK
  <2> QED BY <1>2, <1>3, <2>1, RequestsStep
<1>4. ASSUME NEW w, Goes(t, w) PROVE LibInv'
  <2> DEFINE r == [req[t] EXCEPT !.at = w]
  <2>1. r.do = "note"
    BY <1>1 DEF NoteShape
  <2>2. req' = [req EXCEPT ![t] = r]
    BY <1>4 DEF Goes
  <2> HIDE DEF r
  <2> QED BY <1>3, <2>1, <2>2
<1>5. CASE Finish(t)
  BY <1>2, <1>5, FinishKeeps
<1>6. CASE CheckNote(t)
  BY <1>4, <1>6 DEF CheckNote
<1>7. CASE AppendNote(t)
  BY <1>4, <1>5, <1>7 DEF AppendNote
<1>8. CASE ReadTalk(t)
  <2>1. CASE Noted(req[t].op)
    BY <1>5, <1>8, <2>1 DEF ReadTalk
  <2>2. CASE ~Noted(req[t].op)
    <3> DEFINE n == Len(talk)
               x == [req[t] EXCEPT !.at = "claim"]
               r == [x EXCEPT !.count = n]
    <3>1. req' = [req EXCEPT ![t] = r]
      BY <1>8, <2>2 DEF ReadTalk
    <3>2. n \in Nat
      BY DEF OnceInv, Rows
    <3> HIDE DEF n
    <3>3. NoteShape(x) /\ x.do = "note"
      BY <1>1 DEF NoteShape
    <3> HIDE DEF x
    <3>4. r.do = "note"
      BY <3>3 DEF NoteShape
    <3> HIDE DEF r
    <3> QED BY <1>3, <3>1, <3>4
  <2> QED BY <2>1, <2>2
<1> QED BY <1>6, <1>7, <1>8

LEMMA MergeRun ==
    ASSUME SitesOK, RunOK, SiteStep, NEW t, Merge(t)
    PROVE  RunStep
<1> DEFINE a == run.ver + 1
<1>1. run' = [run EXCEPT !.status = "applied", !.ver = a] /\ RunShape /\ run.kept \subseteq UNION run.groups
  BY DEF Merge, RunOK, RunShape
<1>2. a = run.ver + 1
  OBVIOUS
<1> HIDE DEF a
<1>3. run' = [id |-> run.id, status |-> "applied", ver |-> a, kept |-> run.kept,
              groups |-> run.groups, print |-> run.print, shown |-> run.shown, texts |-> run.texts]
  BY <1>1, RunFields
<1>4. "applied" \in {"ready", "applied"}
  OBVIOUS
<1> QED BY <1>1, <1>2, <1>3, <1>4, DecidedRun

LEMMA ServesKeep ==
    ASSUME OnceInv, LibInv, NEW t \in Tab, Serves(t), ReceiptsStay
    PROVE  LibInv'
<1>0. SitesOK /\ LabelsOK /\ SpacesOK /\ MakesNew /\ DraftsOK /\ RunOK /\ ReqsOK
  BY DEF LibInv
<1>1. ASSUME SiteStep, SpaceStep, UNCHANGED <<run, draft>>, Finish(t) PROVE LibInv'
  BY <1>0, <1>1, RunStays, DraftsStay, FinishKeeps
<1>2. ASSUME SiteStep, Sites' = Sites, UNCHANGED <<run, space, draft>>, Finish(t) PROVE LibInv'
  BY <1>0, <1>1, <1>2, SpacesStay DEF ReceiptsStay
<1>3. CASE Delete(t)
  BY <1>0, <1>1, <1>3, DeleteStep DEF Delete, drafts
<1>4. CASE Merge(t)
  <2>1. SiteStep /\ SpaceStep
    BY <1>0, <1>4, MergeKeeps
  <2>2. RunStep
    BY <1>0, <1>4, <2>1, MergeRun
  <2>3. UNCHANGED draft /\ Finish(t)
    BY <1>4 DEF Merge, drafts
  <2> QED BY <1>0, <2>1, <2>2, <2>3, DraftsStay, FinishKeeps
<1>5. CASE Reclassify(t)
  <2>1. UNCHANGED <<run, space, draft>> /\ Finish(t)
    BY <1>5 DEF Reclassify, drafts
  <2> QED BY <1>0, <1>2, <1>5, <2>1, ReclassifyStep
<1>6. ASSUME NEW c \in Category, NEW T \in TagChoices, Enrich(t, c, T) PROVE LibInv'
  <2>1. UNCHANGED <<run, space, draft>> /\ Finish(t)
    BY <1>6 DEF Enrich, drafts
  <2>2. T \in SUBSET Tag
    BY DEF TagChoices
  <2> QED BY <1>0, <1>2, <1>6, <2>1, <2>2, EnrichStep
<1>7. CASE AddMember(t) \/ RemoveMember(t) \/ ReorderMembers(t) \/ RenameSpace(t) \/ DeleteSpace(t)
  <2>1. UNCHANGED <<site, label, run, draft>> /\ Finish(t)
    BY <1>7 DEF AddMember, RemoveMember, ReorderMembers, RenameSpace, DeleteSpace, Changes, library, drafts
  <2>2. SiteStep
    BY <2>1, LibraryStays
  <2>3. SpaceStep
    BY <1>0, <1>7, ChangesStep
  <2> QED BY <1>1, <2>1, <2>2, <2>3
<1>8. CASE Refuse(t)
  <2>1. UNCHANGED <<site, label, run, space, draft>> /\ Finish(t)
    BY <1>8 DEF Refuse, library, drafts
  <2> QED BY <1>2, <2>1, LibraryStays
<1>9. CASE \/ ReadReceipt(t) \/ ReadSpace(t) \/ ReadSites(t) \/ ReadMembers(t) \/ ReadReached(t)
           \/ WriteNew(t) \/ WriteInto(t) \/ KeepReceipt(t)
  BY <1>9, BatchesKeep
<1>10. CASE CheckNote(t) \/ ReadTalk(t) \/ AppendNote(t)
  BY <1>10, NotesKeep
<1> QED BY <1>3, <1>4, <1>5, <1>6, <1>7, <1>8, <1>9, <1>10 DEF Serves

LEMMA InitLib == Init => LibInv
<1> SUFFICES ASSUME Init PROVE LibInv
  OBVIOUS
<1>1. site = FirstSites /\ space = FirstSpaces /\ label = FirstLabels
  BY DEF Init
<1>2. /\ label \in [Category \cup Tag -> Nat] /\ label[Default] > 0
      /\ site \in [Site -> SiteRows] /\ space \in [Space -> SpaceRows]
      /\ \A s \in Site : site[s].row = "there" =>
           /\ \A n \in {site[s].cat} \cup site[s].tags : label[n] > 0
           /\ \A u \in Site \ {s} : site[u].row = "there" /\ site[u].cat = site[s].cat => site[u].pos # site[s].pos
  BY <1>1, FirstAssumption
<1>3. LabelsOK
  BY <1>2 DEF LabelsOK
<1>4. SitesOK
  <2>1. \A s \in Site : site[s].cat \in Category /\ site[s].tags \subseteq Tag
    BY <1>2, RowTypes
  <2>2. \A s \in Sites : site[s].cat \in Categories /\ site[s].tags \subseteq Tags
    BY <1>2, <2>1 DEF Sites, Categories, Tags
  <2> QED BY <1>2, <2>2 DEF SitesOK, Sites
<1>5. \A p \in Space :
         /\ space[p].row = "absent" => space[p].ver = 0
         /\ space[p].row # "there" => space[p].mem = {}
         /\ \A m \in space[p].mem :
              /\ site[m[1]].row = "there"
              /\ \A n \in space[p].mem : m[1] = n[1] \/ m[2] = n[2] => m = n
  BY <1>1, FirstAssumption
<1>6. SpacesOK
  <2>1. \A p \in Space : \A m \in space[p].mem : m[1] \in Sites
    <3> SUFFICES ASSUME NEW p \in Space, NEW m \in space[p].mem PROVE m[1] \in Sites
      OBVIOUS
    <3>1. m[1] \in Site
      BY <1>2, SpaceTypes
    <3> QED BY <1>5, <3>1 DEF Sites
  <2> QED BY <1>2, <1>5, <2>1 DEF SpacesOK, Spaces
<1>7. MakesNew
  BY <1>1, FirstAssumption DEF MakesNew, Of
<1>8. DraftsOK
  <2>1. draft = [o \in Op |-> draft[o]] /\ \A o \in Op : draft[o] = Look(Of(o)) \/ draft[o] = None
    BY DEF Init
  <2>2. \A o \in Op : LookOK(Of(o), Look(Of(o)))
    <3> SUFFICES ASSUME NEW p \in Space PROVE LookOK(p, Look(p))
      BY LibraryAssumption DEF Of
    <3>1. space[p].ver \in Nat
      BY <1>2, SpaceTypes
    <3>2. \A m \in space[p].mem : m[1] \in Sites
      BY <1>6 DEF SpacesOK
    <3> QED BY <3>1, <3>2 DEF LookOK, Look, Sites, Since
  <2> QED BY <2>1, <2>2 DEF DraftsOK
<1>9. RunOK
  <2>1. run = Scanned(0) /\ 0 \in Nat
    BY DEF Init
  <2>2. /\ run = [id |-> run.id, status |-> run.status, ver |-> run.ver, kept |-> run.kept,
                  groups |-> run.groups, print |-> run.print, shown |-> run.shown, texts |-> run.texts]
        /\ run.id = 0 /\ run.ver = 1 /\ run.status = "ready" /\ run.kept = {}
        /\ run.groups = Groups /\ run.print = Versions /\ run.shown = View
    BY <1>4, <2>1, ScannedRun
  <2>3. /\ ShownOK(Versions, View) /\ DOMAIN Versions = Sites
        /\ \A g \in Groups : g # {} /\ g \subseteq Sites
        /\ \A g, h \in Groups : g \cap h # {} => g = h
    BY <1>4, ScannedIs
  <2>4. RunShape
    BY <2>2, <2>3 DEF RunShape
  <2>5. ShownOK(run.print, run.shown)
    BY <2>2, <2>3
  <2> QED BY <2>4, <2>5 DEF RunOK
<1>10. ReqsOK
  <2>1. Idle.do = "idle"
    BY DEF Idle
  <2>2. ReqOK(Idle)
    BY <2>1 DEF ReqOK, ChangeOK, Changing, MergeOK, AnswerOK, BatchOK, DeleteOK
  <2>3. \A t \in Tab : req[t] = Idle
    BY DEF Init
  <2> QED BY <2>2, <2>3 DEF ReqsOK
<1> QED BY <1>3, <1>4, <1>6, <1>7, <1>8, <1>9, <1>10 DEF LibInv

LEMMA StepLib == OnceInv /\ LibInv /\ [Next]_vars => LibInv'
<1> SUFFICES ASSUME OnceInv, LibInv, [Next]_vars PROVE LibInv'
  OBVIOUS
<1>1. CASE EditLibrary
  BY <1>1, EditsKeep
<1>2. CASE Decisions
  BY <1>2, DecisionsKeep
<1>3. ASSUME NEW t \in Tab, Asks(t) PROVE LibInv'
  BY <1>3, AsksKeep
<1>4. ASSUME NEW t \in Tab, Serves(t) PROVE LibInv'
  <2>1. OnceStep
    BY <1>4, ServesOnce
  <2>2. ReceiptsStay
    BY <2>1 DEF OnceStep, ReceiptsStay
  <2> QED BY <1>4, <2>2, ServesKeep
<1>5. CASE UNCHANGED vars
  <2>1. UNCHANGED <<site, label, space, run, draft, receipt, req>>
    BY <1>5 DEF vars
  <2>2. SiteStep /\ SpaceStep /\ RunStep /\ DraftStep
    BY <2>1, LibraryStays, NothingElse
  <2> QED BY <2>1, <2>2, RequestsStay
<1> QED BY <1>1, <1>2, <1>3, <1>4, <1>5 DEF Next

\* Both invariants, and the bound of a behaviour.
Inv == OnceInv /\ LibInv /\ asked \in 0 .. MaxRequests

LEMMA Always == Spec => []Inv
<1>1. Init => Inv
  <2>1. Init => asked \in 0 .. MaxRequests
    BY LibraryAssumption DEF Init
  <2> QED BY <2>1, InitOnce, InitLib DEF Inv
<1>2. Inv /\ [Next]_vars => Inv'
  <2>1. asked \in 0 .. MaxRequests /\ [Next]_vars => (asked \in 0 .. MaxRequests)'
    <3>1. Next => asked' = asked \/ (asked < MaxRequests /\ asked' = asked + 1)
      BY DEF Next
    <3> QED BY <3>1, LibraryAssumption DEF vars
  <2> QED BY <2>1, StepOnce, StepLib DEF Inv
<1> QED BY <1>1, <1>2, PTL DEF Spec

\* The rows and the requests in flight keep their types, whatever the library,
\* the plan of the operations and the number of tabs.
THEOREM Types == Spec => []TypeOK
<1>1. Inv => TypeOK
  <2> SUFFICES ASSUME Inv PROVE TypeOK
    OBVIOUS
  <2>1. site \in [Site -> SiteRows] /\ space \in [Space -> SpaceRows]
    BY DEF Inv, LibInv, SitesOK, SpacesOK
  <2>2. label \in [Category \cup Tag -> Int] /\ run.status \in {"ready", "applied"} /\ run.kept \subseteq UNION run.groups
    BY DEF Inv, LibInv, LabelsOK, RunOK, RunShape
  <2>3. talk \in Seq([says : {"draft", "done"}, op : Op \cup {None}])
    BY DEF Inv, OnceInv, Rows, Message
  <2>4. \A o \in Op : receipt[o] \in {None} \cup SUBSET Site /\ told[o] \subseteq SUBSET Site
    BY DEF Inv, OnceInv, Rows
  <2> QED BY <2>1, <2>2, <2>3, <2>4 DEF Inv, TypeOK
<1> QED BY <1>1, Always, PTL

\* No two Sites of a category and no two members of a Space ever stand at one
\* place, and what a row refers to is there: the unique and the foreign keys of
\* the tables hold without refusing a request.
THEOREM PlacesAreDistinct == Spec => []PlacesDistinct
<1>1. Inv => PlacesDistinct
  <2> SUFFICES ASSUME SitesOK, SpacesOK PROVE PlacesDistinct
    BY DEF Inv, LibInv
  <2>1. \A p \in Spaces : /\ \A m, n \in space[p].mem : m[2] = n[2] => m = n
                          /\ Members(p) \subseteq Sites
    BY DEF SpacesOK, Spaces, Members
  <2> QED BY <2>1 DEF SitesOK, PlacesDistinct
<1> QED BY <1>1, Always, PTL

-----------------------------------------------------------------------------
(* What the steps that end a request do. *)
\* A step of tab t leaves the requests of the others alone.
LEMMA OneRequest ==
    ASSUME Shapes, NEW t \in Tab, NEW u \in Tab \ {t}, Serves(t)
    PROVE  req'[u] = req[u]
<1>1. ASSUME NEW r, req' = [req EXCEPT ![t] = r] PROVE req'[u] = req[u]
  BY <1>1 DEF Shapes
<1>2. CASE Finish(t)
  BY <1>1, <1>2 DEF Finish
<1>3. CASE \E w : Goes(t, w)
  BY <1>1, <1>3 DEF Goes
<1>4. CASE Delete(t) \/ Merge(t) \/ Reclassify(t) \/ (\E c \in Category, T \in TagChoices : Enrich(t, c, T)) \/ Refuse(t)
  BY <1>2, <1>4 DEF Delete, Merge, Reclassify, Enrich, Refuse
<1>5. CASE AddMember(t) \/ RemoveMember(t) \/ ReorderMembers(t) \/ RenameSpace(t) \/ DeleteSpace(t)
  BY <1>2, <1>5 DEF AddMember, RemoveMember, ReorderMembers, RenameSpace, DeleteSpace, Changes
<1>6. CASE ReadReceipt(t) \/ ReadSites(t) \/ ReadReached(t) \/ KeepReceipt(t)
  BY <1>2, <1>3, <1>6 DEF ReadReceipt, ReadSites, ReadReached, KeepReceipt, Replay
<1>7. CASE ReadSpace(t)
  BY <1>1, <1>7 DEF ReadSpace
<1>8. CASE ReadMembers(t)
  BY <1>1, <1>8 DEF ReadMembers
<1>9. CASE WriteNew(t) \/ WriteInto(t)
  BY <1>2, <1>3, <1>9 DEF WriteNew, WriteInto, Commits, RollsBack
<1>10. CASE CheckNote(t) \/ AppendNote(t)
  BY <1>2, <1>3, <1>10 DEF CheckNote, AppendNote
<1>11. CASE ReadTalk(t)
  BY <1>1, <1>2, <1>11 DEF ReadTalk
<1> QED BY <1>4, <1>5, <1>6, <1>7, <1>8, <1>9, <1>10, <1>11 DEF Serves

LEMMA EditsAskNothing ==
    ASSUME EditLibrary \/ Decisions
    PROVE  UNCHANGED req
<1>1. CASE Decisions
  BY <1>1 DEF Decisions, Scan, Recommend, Decide, Propose
<1>2. CASE EditLibrary
  <2>1. ASSUME NEW s, NEW k, NEW c, NEW T, CreateSite(s, k, c, T) \/ ImportSite(s, k, c, T) PROVE UNCHANGED req
    BY <2>1 DEF CreateSite, ImportSite
  <2>2. ASSUME NEW s, NEW c, NEW T, ImportInto(s, c, T) PROVE UNCHANGED req
    BY <2>2 DEF ImportInto
  <2>3. ASSUME NEW s, EditSite(s) \/ Describe(s) \/ ReorderSites(s) PROVE UNCHANGED req
    BY <2>3 DEF EditSite, Describe, ReorderSites
  <2>4. ASSUME NEW s, NEW T, TagSite(s, T) PROVE UNCHANGED req
    BY <2>4 DEF TagSite
  <2>5. ASSUME NEW s, NEW c, MoveSite(s, c) PROVE UNCHANGED req
    BY <2>5 DEF MoveSite
  <2>6. ASSUME NEW s, NEW k, ReaddressSite(s, k) PROVE UNCHANGED req
    BY <2>6 DEF ReaddressSite
  <2>7. ASSUME NEW c, RenameCategory(c) \/ DeleteCategory(c) PROVE UNCHANGED req
    BY <2>7 DEF RenameCategory, DeleteCategory
  <2>8. ASSUME NEW n, CreateName(n) PROVE UNCHANGED req
    BY <2>8 DEF CreateName
  <2>9. ASSUME NEW g, RenameTag(g) \/ DeleteTag(g) PROVE UNCHANGED req
    BY <2>9 DEF RenameTag, DeleteTag
  <2>10. ASSUME NEW p, CreateSpace(p) PROVE UNCHANGED req
    BY <2>10 DEF CreateSpace
  <2> QED BY <1>2, <2>1, <2>2, <2>3, <2>4, <2>5, <2>6, <2>7, <2>8, <2>9, <2>10 DEF EditLibrary
<1> QED BY <1>1, <1>2

\* A request is ended by a step of its own tab.
LEMMA ServedBy ==
    ASSUME OnceInv, Next, NEW t \in Tab, req[t] # Idle, req'[t] = Idle
    PROVE  Serves(t)
<1>1. ~(EditLibrary \/ Decisions)
  BY EditsAskNothing
<1>2. ASSUME NEW u \in Tab, Asks(u) PROVE FALSE
  <2>1. \E r : Ask(u, r)
    <3>1. CASE AskMerge(u) \/ AskReclassify(u)
      BY <3>1 DEF AskMerge, AskReclassify
    <3>2. ASSUME NEW S, AskDelete(u, S) PROVE \E r : Ask(u, r)
      BY <3>2 DEF AskDelete
    <3>3. ASSUME NEW s, AskEnrich(u, s) PROVE \E r : Ask(u, r)
      BY <3>3 DEF AskEnrich
    <3>4. ASSUME NEW p, NEW s, NEW do, AskSpace(u, p, do, s) PROVE \E r : Ask(u, r)
      BY <3>4 DEF AskSpace
    <3>5. ASSUME NEW o, AskBatch(u, o) \/ AskNote(u, o) PROVE \E r : Ask(u, r)
      BY <3>5 DEF AskBatch, AskNote
    <3> QED BY <1>2, <3>1, <3>2, <3>3, <3>4, <3>5 DEF Asks
  <2>2. PICK r : req[u] = Idle /\ req' = [req EXCEPT ![u] = r]
    BY <2>1 DEF Ask
  <2>3. u # t
    BY <2>2
  <2> QED BY <2>2, <2>3 DEF OnceInv, Shapes
<1>3. PICK u \in Tab : Serves(u)
  BY <1>1, <1>2 DEF Next
<1>4. u = t
  BY <1>3, OneRequest DEF OnceInv
<1> QED BY <1>3, <1>4

\* A set of members in which each Site and each place is once is in one order.
LEMMA SameAsItself ==
    ASSUME NEW M, OncePlaced(M)
    PROVE  SameOrder(M, M)
<1> SUFFICES ASSUME NEW m \in M, NEW n \in M, NEW x \in M, NEW y \in M, m[1] = x[1], n[1] = y[1], m[2] < n[2]
             PROVE  x[2] < y[2]
  BY DEF SameOrder
<1>1. m = x /\ n = y
  BY DEF OncePlaced
<1> QED BY <1>1

LEMMA ClaimantSees ==
    ASSUME OnceInv, LibInv, NEW t \in Tab, Serves(t), space' # space, NEW c \in Claimant(t)
    PROVE  SameOrder(Since(c[2].mem), space[c[1]].mem)
<1>1. ASSUME NEW p \in Space, NEW l, LookOK(p, l), Claims(p, l.ver)
      PROVE  SameOrder(Since(l.mem), space[p].mem)
  <2>1. space[p].mem = Since(l.mem) /\ OncePlaced(space[p].mem)
    BY <1>1, LookedAt, MembersAre DEF LibInv
  <2> QED BY <2>1, SameAsItself
<1>2. CASE req[t].do \in Changing
  <2> DEFINE r == req[t]
  <2>1. c = <<r.space, r.seen>>
    BY <1>2 DEF Claimant, Changing
  <2>2. Claims(r.space, r.seen.ver)
    BY <1>2 DEF Changing, Serves, Delete, Merge, Reclassify, Enrich, library, Refuse, ReadReceipt, ReadSpace, ReadSites,
       ReadMembers, ReadReached, WriteNew, WriteInto, KeepReceipt, AtBatch, CheckNote, ReadTalk, AppendNote,
       AddMember, RemoveMember, ReorderMembers, RenameSpace, DeleteSpace, Changes
  <2>3. r.space \in Space /\ LookOK(r.space, r.seen)
    BY <1>2 DEF LibInv, ReqsOK, ReqOK, ChangeOK
  <2> QED BY <1>1, <2>1, <2>2, <2>3
<1>3. CASE req[t].do = "batch" /\ ~Plan[req[t].op].create
  <2> DEFINE o == req[t].op
  <2>1. c = <<Of(o), draft[o]>>
    BY <1>3 DEF Claimant
  <2>2. o \in Op /\ Of(o) \in Space /\ draft[o] # None
    BY <1>3, LibraryAssumption DEF OnceInv, Shapes, BatchShape, Of, LibInv, ReqsOK, ReqOK, BatchOK
  <2>3. WriteInto(t)
    BY <1>3 DEF Serves, Delete, Merge, Reclassify, Enrich, Refuse, ReadReceipt, ReadSpace, ReadSites,
       ReadMembers, ReadReached, WriteNew, KeepReceipt, CheckNote, ReadTalk, AppendNote,
       AddMember, RemoveMember, ReorderMembers, RenameSpace, DeleteSpace, Changes
  <2>4. Claims(Of(o), draft[o].ver)
    BY <2>3 DEF WriteInto, RollsBack
  <2>5. LookOK(Of(o), draft[o])
    BY <2>2 DEF LibInv, DraftsOK
  <2> QED BY <1>1, <2>1, <2>2, <2>4, <2>5
<1> QED BY <1>2, <1>3 DEF Claimant, Changing

\* Whoever changes a Space by a version changes the members that were shown at
\* that version, in their order; only Sites deleted since may be missing.
THEOREM ClaimsSeeMembers == Spec => ClaimSeesMembers
<1>1. Inv /\ [Next]_vars => [\A t \in Tab : req[t] # Idle /\ req'[t] = Idle /\ space' # space =>
                               \A c \in Claimant(t) : SameOrder(Since(c[2].mem), space[c[1]].mem)]_vars
  BY ServedBy, ClaimantSees DEF Inv, vars
<1> QED BY <1>1, Always, PTL DEF Spec, ClaimSeesMembers

\* What was shown at the versions there are now is what there is now.
LEMMA ShownIsCurrent ==
    ASSUME NEW v, NEW sh, ShownOK(v, sh), v = Versions
    PROVE  sh = View /\ \A s \in Sites : sh[s] = Shown(s)
<1>1. DOMAIN v = Sites /\ \A s \in Sites : v[s] = site[s].ver
  BY DEF Versions
<1>2. sh = [s \in Sites |-> sh[s]] /\ \A s \in Sites : sh[s] = Shown(s)
  BY <1>1 DEF ShownOK
<1> QED BY <1>2 DEF View

LEMMA DecidedSees ==
    ASSUME OnceInv, LibInv, NEW t \in Tab, Serves(t), site' # site
    PROVE  /\ req[t].do = "merge" => /\ run.kept = req[t].kept
                                     /\ \A g \in Chosen : \A s \in g : s \in Sites /\ run.shown[s] = Shown(s)
           /\ req[t].do = "reclassify" => req[t].shown = View
           /\ req[t].do = "enrich" => req[t].shown[req[t].site] = Shown(req[t].site)
<1> DEFINE r == req[t]
<1>1. \/ Delete(t) \/ Merge(t) \/ Reclassify(t) \/ \E c \in Category, T \in TagChoices : Enrich(t, c, T)
  BY DEF Serves, library, Refuse, ReadReceipt, ReadSpace, ReadSites, Quiet, Commits, RollsBack,
     ReadMembers, ReadReached, WriteNew, WriteInto, KeepReceipt, CheckNote, ReadTalk, AppendNote,
     AddMember, RemoveMember, ReorderMembers, RenameSpace, DeleteSpace, Changes
<1>2. ReqOK(r)
  BY DEF LibInv, ReqsOK
<1>3. ASSUME r.do = "merge"
      PROVE  /\ run.kept = r.kept
             /\ \A g \in Chosen : \A s \in g : s \in Sites /\ run.shown[s] = Shown(s)
  <2>1. run.id = r.id /\ run.ver = r.ver /\ run.print = Versions
    BY <1>1, <1>3 DEF Delete, Merge, Reclassify, Enrich
  <2>2. run.kept = r.kept
    BY <1>2, <1>3, <2>1 DEF ReqOK, MergeOK
  <2>3. \A s \in Sites : run.shown[s] = Shown(s)
    BY <2>1, ShownIsCurrent DEF LibInv, RunOK
  <2>4. \A g \in Chosen : g \subseteq Sites
    BY <2>1, MergeLooks DEF LibInv, MergeFinds
  <2> QED BY <2>2, <2>3, <2>4
<1>4. ASSUME r.do = "reclassify" PROVE r.shown = View
  <2>1. r.versions = Versions
    BY <1>1, <1>4 DEF Delete, Merge, Reclassify, Enrich
  <2> QED BY <1>2, <1>4, <2>1, ShownIsCurrent DEF ReqOK, AnswerOK
<1>5. ASSUME r.do = "enrich" PROVE r.shown[r.site] = Shown(r.site)
  <2>1. r.site \in Sites /\ r.snapshot = Snapshot(r.site)
    BY <1>1, <1>5 DEF Delete, Merge, Reclassify, Enrich
  <2>2. r.snapshot.ver = site[r.site].ver
    BY <2>1 DEF Snapshot
  <2>3. ShownOK([s \in {r.site} |-> r.snapshot.ver], r.shown)
    BY <1>2, <1>5 DEF ReqOK, AnswerOK
  <2> QED BY <2>1, <2>2, <2>3 DEF ShownOK
<1> QED BY <1>3, <1>4, <1>5

\* What was decided outside the lock is applied to what it was decided on: the
\* choices of the dialog, the Sites of the scan, the library of the draft, the
\* Site of the prompt.
THEOREM DecisionsAreCurrent == Spec => DecidedOnCurrent
<1>1. Inv /\ [Next]_vars =>
        [\A t \in Tab : req[t] # Idle /\ req'[t] = Idle /\ site' # site =>
           /\ req[t].do = "merge" => /\ run.kept = req[t].kept
                                    /\ \A g \in Chosen : \A s \in g : s \in Sites /\ run.shown[s] = Shown(s)
           /\ req[t].do = "reclassify" => req[t].shown = View
           /\ req[t].do = "enrich" => req[t].shown[req[t].site] = Shown(req[t].site)]_vars
  <2> SUFFICES ASSUME OnceInv, LibInv, Next, NEW t \in Tab, req[t] # Idle, req'[t] = Idle, site' # site
               PROVE  /\ req[t].do = "merge" => /\ run.kept = req[t].kept
                                    /\ \A g \in Chosen : \A s \in g : s \in Sites /\ run.shown[s] = Shown(s)
                      /\ req[t].do = "reclassify" => req[t].shown = View
                      /\ req[t].do = "enrich" => req[t].shown[req[t].site] = Shown(req[t].site)
    BY DEF Inv
  <2>1. Serves(t)
    BY ServedBy
  <2> QED BY <2>1, DecidedSees
<1> QED BY <1>1, Always, PTL DEF Spec, DecidedOnCurrent

\* Only a merge applies a run.
LEMMA AppliedBy ==
    ASSUME RunShape, Next, run.status = "ready", run'.status = "applied"
    PROVE  \E t \in Tab : Merge(t)
<1>1. ASSUME NEW t \in Tab, Asks(t) PROVE FALSE
  <2>1. UNCHANGED run
    BY <1>1 DEF Asks, AskDelete, AskMerge, AskReclassify, AskEnrich, AskSpace, AskBatch, AskNote, library
  <2> QED BY <2>1
<1>2. ASSUME Decisions PROVE FALSE
  <2>1. CASE Scan
    BY <2>1 DEF Scan, Scanned
  <2>2. ASSUME NEW g \in run.groups, NEW K \in SUBSET g, Decide(g, K) PROVE FALSE
    <3> DEFINE a == run.ver + 1
               b == (run.kept \ g) \cup (IF K = g THEN {} ELSE K)
    <3>1. run' = [run EXCEPT !.ver = a, !.kept = b]
      BY <2>2 DEF Decide
    <3> HIDE DEF a, b
    <3> QED BY <3>1, RunFields
  <2>3. CASE Recommend
    <3> DEFINE a == run.ver + 1
               b == {Best(g) : g \in run.groups}
    <3>1. run' = [run EXCEPT !.ver = a, !.kept = b]
      BY <2>3 DEF Recommend
    <3> HIDE DEF a, b
    <3> QED BY <3>1, RunFields
  <2>4. CASE \E o \in Op : Propose(o)
    BY <2>4 DEF Propose, library
  <2> QED BY <1>2, <2>1, <2>2, <2>3, <2>4 DEF Decisions
<1>3. ASSUME EditLibrary PROVE FALSE
  <2>1. UNCHANGED run
    <3>1. ASSUME NEW s, NEW k, NEW c, NEW T, CreateSite(s, k, c, T) \/ ImportSite(s, k, c, T) PROVE UNCHANGED run
      BY <3>1 DEF CreateSite, ImportSite
    <3>2. ASSUME NEW s, NEW c, NEW T, ImportInto(s, c, T) PROVE UNCHANGED run
      BY <3>2 DEF ImportInto
    <3>3. ASSUME NEW s, EditSite(s) \/ Describe(s) \/ ReorderSites(s) PROVE UNCHANGED run
      BY <3>3 DEF EditSite, Describe, ReorderSites
    <3>4. ASSUME NEW s, NEW T, TagSite(s, T) PROVE UNCHANGED run
      BY <3>4 DEF TagSite
    <3>5. ASSUME NEW s, NEW c, MoveSite(s, c) PROVE UNCHANGED run
      BY <3>5 DEF MoveSite
    <3>6. ASSUME NEW s, NEW k, ReaddressSite(s, k) PROVE UNCHANGED run
      BY <3>6 DEF ReaddressSite
    <3>7. ASSUME NEW c, RenameCategory(c) \/ DeleteCategory(c) PROVE UNCHANGED run
      BY <3>7 DEF RenameCategory, DeleteCategory
    <3>8. ASSUME NEW n, CreateName(n) PROVE UNCHANGED run
      BY <3>8 DEF CreateName
    <3>9. ASSUME NEW g, RenameTag(g) \/ DeleteTag(g) PROVE UNCHANGED run
      BY <3>9 DEF RenameTag, DeleteTag
    <3>10. ASSUME NEW p, CreateSpace(p) PROVE UNCHANGED run
      BY <3>10 DEF CreateSpace, library
    <3> QED BY <1>3, <3>1, <3>2, <3>3, <3>4, <3>5, <3>6, <3>7, <3>8, <3>9, <3>10 DEF EditLibrary
  <2> QED BY <2>1
<1>4. PICK t \in Tab : Serves(t)
  BY <1>1, <1>2, <1>3 DEF Next
<1>5. Merge(t) \/ UNCHANGED run
  BY <1>4 DEF Serves, library, Refuse, ReadReceipt, ReadSpace, ReadSites, Quiet, Commits, RollsBack, Delete, Reclassify, Enrich,
     ReadMembers, ReadReached, WriteNew, WriteInto, KeepReceipt, CheckNote, ReadTalk, AppendNote,
     AddMember, RemoveMember, ReorderMembers, RenameSpace, DeleteSpace, Changes
<1> QED BY <1>5

\* A merge takes no website out of a Space and loses no tag of a group, and a
\* Space whose members it changes has a new version.
THEOREM MergesKeepPlaces == Spec => MergeKeepsPlaces
<1> DEFINE P == /\ \A p \in Spaces : LET S == {m[1] : m \in space'[p].mem} IN
                     /\ \A s \in Members(p) : Survives(s, S)
                     /\ S \subseteq {s \in Site : site'[s].row = "there"}
                     /\ space'[p].mem # space[p].mem => space'[p].ver > space[p].ver
                /\ \A s \in Sites : \A g \in site[s].tags :
                     \E u \in Site : Survives(s, {u}) /\ site'[u].row = "there" /\ g \in site'[u].tags
<1>1. KeepsPlaces => P
  BY DEF KeepsPlaces, Spaces
<1>2. Inv /\ [Next]_vars => [run.status = "ready" /\ run'.status = "applied" => P]_vars
  <2> HIDE DEF P
  <2> SUFFICES ASSUME LibInv, Next, run.status = "ready", run'.status = "applied" PROVE P
    BY DEF Inv
  <2>1. PICK t \in Tab : Merge(t)
    BY AppliedBy DEF LibInv, RunOK
  <2> QED BY <1>1, <2>1, MergeKeeps DEF LibInv
<1> QED BY <1>2, Always, PTL DEF Spec, MergeKeepsPlaces

=============================================================================
