------------------------ MODULE AnalysisQueueProofs -------------------------
(***************************************************************************)
(* The inductive invariant of the analysis queue and what follows from it: *)
(* one fetch per site, maps that agree, no enrichment lost, the strongest  *)
(* request first, and answers that are enrichments, for any number of      *)
(* sites, workers, callers and limits.                                     *)
(***************************************************************************)
EXTENDS AnalysisQueue, FiniteSetTheorems, SequenceTheorems, WellFoundedInduction, TLAPS

Levels == {"none", "metadata", "bulk", "own"}
Account == [task : {"none", "created", "running", "done"}, queue : Seq(Site),
            pending : SUBSET Site, overflow : SUBSET Site,
            want : [Site -> Levels], run : [Site -> Levels], follow : [Site -> Levels]]
Sweep == [task : {"none", "running", "failing", "done"}, candidates : SUBSET Site,
          excluded : SUBSET Site, pending : SUBSET Site, follow : [Site -> Levels],
          rescan : BOOLEAN]
Row == [status : Status, owner : Worker \cup {Foreign, NoOne}, enriched : BOOLEAN]
Task == [pc : {"off", "ready", "query", "slot", "busy"}, site : Site \cup {NoOne}, level : Levels]
Call == [pc : CallerPC, site : Site \cup {NoOne}, marked : BOOLEAN, served : BOOLEAN]

\* The types of the state.
Typed == /\ site \in [Site -> Row] /\ acct \in Account /\ auto \in Sweep
         /\ worker \in [Worker -> Task] /\ caller \in [Caller -> Call]
         /\ service \in {"up", "stopping", "down"}
         /\ owed \subseteq Site /\ announced \subseteq {"sweep", "save"} \X Site

Distinct(q) == \A i, j \in DOMAIN q : q[i] = q[j] => i = j

\* The maps of one account describe the same entries: an entry is queued, in the
\* queue q, with what is wanted of it, or running with what runs, never both.
AgreesWith(a, q) ==
  /\ q \in Seq(Site) /\ Distinct(q)
  /\ \A s \in Site :
       /\ a.want[s] # "none" <=> s \in ToSet(q)
       /\ s \in ToSet(q) => a.run[s] = "none"
       /\ s \in a.pending <=> s \in ToSet(q) \/ a.run[s] # "none"
       /\ a.follow[s] # "none" => a.run[s] = "metadata" /\ Enriches(a.follow[s])
  /\ a.overflow \subseteq a.pending
  /\ IsFiniteSet(a.overflow) /\ Cardinality(a.overflow) <= Overflow
Agrees(a) == a \in Account /\ AgreesWith(a, a.queue)

\* A sweep keeps follow-ups of the sites it has leased, and none of the queue's.
Leases(a, b) == /\ b \in Sweep
                /\ a.pending \cap b.pending = {}
                /\ \A s \in Site : b.follow[s] # "none" => s \in b.pending /\ Enriches(b.follow[s])

\* A worker works on an entry of its own; two never on the same.
WorkOK ==
  /\ \A w \in Worker : Working(w) => SiteOf(w) \in Site
  /\ \A v, w \in Worker : v # w /\ Working(v) /\ Working(w) => SiteOf(v) # SiteOf(w)
  /\ \A w \in Consumer : Working(w) => acct.run[SiteOf(w)] # "none"
  /\ \A s \in Site : acct.run[s] # "none" => \E w \in Consumer : Working(w) /\ SiteOf(w) = s
  /\ \A w \in Sweeper : Working(w) => SiteOf(w) \in auto.pending
  /\ \A w \in Consumer : worker[w].pc # "query"

\* A busy consumer does what its entry asks, or what a batch asked before a
\* caller asked for more; a metadata pass is never upgraded while it runs.
LevelOK == \A w \in Consumer : worker[w].pc = "busy" =>
             (Enriches(acct.run[SiteOf(w)]) => Enriches(worker[w].level))

\* Nobody works for a task that is not running.
TaskOK == /\ acct.task \in {"none", "created", "done"} => \A w \in Consumer : worker[w].pc = "off"
          /\ ~Alive(auto) => \A w \in Sweeper : worker[w].pc = "off"

\* A claim in the row is of the worker that is busy with it.
ClaimOK == \A s \in Site : site[s].owner \in Worker =>
             LET w == site[s].owner
             IN  site[s].status = "pending" /\ worker[w].pc = "busy" /\ SiteOf(w) = s

\* A caller that joined or started an analysis waits for an own enrichment.
WaitOK == \A c \in Caller : /\ caller[c].pc # "out" => caller[c].site \in Site
                            /\ caller[c].pc \in {"join", "own"} =>
                                 "own" \in {acct.want[caller[c].site], acct.run[caller[c].site]}

OwedOK == Up => \A s \in owed : \/ Enriches(acct.want[s]) \/ Enriches(acct.run[s])
                                \/ Enriches(acct.follow[s]) \/ Enriches(auto.follow[s])

QueueInv == Typed /\ Agrees(acct) /\ Leases(acct, auto) /\ WorkOK /\ LevelOK /\ TaskOK
            /\ ClaimOK /\ WaitOK /\ OwedOK

-----------------------------------------------------------------------------
(* Levels and sequences. *)

\* The levels of a request are ordered as they are listed.
LEMMA LevelRank ==
  /\ ToSet(Level) = Levels
  /\ Rank("none") = 1 /\ Rank("metadata") = 2 /\ Rank("bulk") = 3 /\ Rank("own") = 4
<1>1. /\ Level \in [1..4 -> Levels] /\ DOMAIN Level = 1..4
      /\ Level[1] = "none" /\ Level[2] = "metadata" /\ Level[3] = "bulk" /\ Level[4] = "own"
  BY DEF Level, Levels
<1> HIDE DEF Level
<1>2. ToSet(Level) = Levels
  <2>1. \A x \in Levels : \E i \in 1..4 : Level[i] = x
    BY <1>1 DEF Levels
  <2> QED BY <1>1, <2>1 DEF ToSet
<1>3. /\ \A i \in 1..4 : Level[i] = "none" <=> i = 1
      /\ \A i \in 1..4 : Level[i] = "metadata" <=> i = 2
      /\ \A i \in 1..4 : Level[i] = "bulk" <=> i = 3
      /\ \A i \in 1..4 : Level[i] = "own" <=> i = 4
  BY <1>1
<1>4. 1 \in 1..4 /\ 2 \in 1..4 /\ 3 \in 1..4 /\ 4 \in 1..4
  OBVIOUS
<1> QED BY <1>2, <1>3, <1>4 DEF Rank

\* The higher of two levels is one of them; it enriches if one of them does, and
\* is an own enrichment if one of them is.
LEMMA HigherFacts ==
  ASSUME NEW a \in Levels, NEW b \in Levels
  PROVE  /\ Higher(a, b) \in {a, b}
         /\ Higher(a, b) \in Levels
         /\ Enriches(a) \/ Enriches(b) => Enriches(Higher(a, b))
         /\ a = "own" \/ b = "own" => Higher(a, b) = "own"
BY LevelRank DEF Higher, Enriches, Levels

\* What a sequence holds.
LEMMA Holds ==
  ASSUME NEW q \in Seq(Site)
  PROVE  /\ ToSet(q) \subseteq Site
         /\ Len(q) \in Nat /\ DOMAIN q = 1..Len(q)
         /\ \A x : x \in ToSet(q) <=> \E i \in 1..Len(q) : q[i] = x
BY ElementOfSeq, LenProperties DEF ToSet

\* The two parts of a queue.
LEMMA HoldsBoth ==
  ASSUME NEW u \in Seq(Site), NEW v \in Seq(Site)
  PROVE  /\ u \o v \in Seq(Site)
         /\ ToSet(u \o v) = ToSet(u) \cup ToSet(v)
         /\ Distinct(u \o v) <=> Distinct(u) /\ Distinct(v) /\ ToSet(u) \cap ToSet(v) = {}
<1> DEFINE w == u \o v
           m == Len(u)
           n == Len(v)
<1>1. /\ w \in Seq(Site) /\ Len(w) = m + n /\ m \in Nat /\ n \in Nat
      /\ \A i \in 1..m + n : w[i] = IF i <= m THEN u[i] ELSE v[i - m]
      /\ DOMAIN w = 1..m + n /\ DOMAIN u = 1..m /\ DOMAIN v = 1..n
  BY ConcatProperties, LenProperties
<1>2. /\ \A i \in 1..m : i \in 1..m + n /\ w[i] = u[i]
      /\ \A j \in 1..n : j + m \in 1..m + n /\ w[j + m] = v[j]
      /\ \A i \in 1..m + n : \/ i \in 1..m /\ w[i] = u[i]
                             \/ i - m \in 1..n /\ w[i] = v[i - m]
  <2> HIDE DEF w, m, n
  <2> QED BY <1>1
<1>3. ToSet(w) = ToSet(u) \cup ToSet(v)
  <2>1. /\ \A x : x \in ToSet(u) <=> \E i \in 1..m : u[i] = x
        /\ \A x : x \in ToSet(v) <=> \E i \in 1..n : v[i] = x
        /\ \A x : x \in ToSet(w) <=> \E i \in 1..m + n : w[i] = x
    BY <1>1, Holds
  <2> HIDE DEF w, m, n
  <2>2. ASSUME NEW x \in ToSet(w) PROVE x \in ToSet(u) \cup ToSet(v)
    BY <1>2, <2>1
  <2>3. ASSUME NEW x \in ToSet(u) \cup ToSet(v) PROVE x \in ToSet(w)
    BY <1>2, <2>1
  <2> QED BY <2>2, <2>3
<1>4. ASSUME Distinct(w) PROVE Distinct(u) /\ Distinct(v) /\ ToSet(u) \cap ToSet(v) = {}
  <2> HIDE DEF w, m, n
  <2>1. Distinct(u)
    BY <1>1, <1>2, <1>4 DEF Distinct
  <2>2. Distinct(v)
    <3> SUFFICES ASSUME NEW i \in 1..n, NEW j \in 1..n, v[i] = v[j] PROVE i = j
      BY <1>1 DEF Distinct
    <3>1. i + m = j + m
      BY ZenonT(60), <1>1, <1>2, <1>4 DEF Distinct
    <3> QED BY <1>1, <3>1
  <2>3. ASSUME NEW i \in 1..m, NEW j \in 1..n, u[i] = v[j] PROVE FALSE
    <3>1. i = j + m
      BY <1>1, <1>2, <1>4, <2>3 DEF Distinct
    <3> QED BY <1>1, <3>1
  <2>4. ToSet(u) \cap ToSet(v) = {}
    BY <1>1, <2>3 DEF ToSet
  <2> QED BY <2>1, <2>2, <2>4
<1>5. ASSUME Distinct(u), Distinct(v), ToSet(u) \cap ToSet(v) = {} PROVE Distinct(w)
  <2>1. \A i \in 1..m, j \in 1..n : u[i] # v[j]
    BY <1>1, <1>5 DEF ToSet
  <2> HIDE DEF w, m, n
  <2> SUFFICES ASSUME NEW i \in 1..m + n, NEW j \in 1..m + n, w[i] = w[j] PROVE i = j
    BY <1>1 DEF Distinct
  <2>2. CASE i \in 1..m /\ w[i] = u[i]
    <3>1. j \in 1..m /\ w[j] = u[j]
      BY <1>1, <1>2, <2>1, <2>2
    <3> QED BY <1>1, <1>5, <2>2, <3>1 DEF Distinct
  <2>3. CASE i - m \in 1..n /\ w[i] = v[i - m]
    <3>1. j - m \in 1..n /\ w[j] = v[j - m]
      BY <1>1, <1>2, <2>1, <2>3
    <3>2. i - m = j - m
      BY <1>1, <1>5, <2>3, <3>1 DEF Distinct
    <3> QED BY <1>1, <3>2
  <2> QED BY <1>2, <2>2, <2>3
<1> QED BY <1>1, <1>3, <1>4, <1>5

\* A queue of one.
LEMMA HoldsOne ==
  ASSUME NEW s \in Site
  PROVE  <<s>> \in Seq(Site) /\ ToSet(<<s>>) = {s} /\ Distinct(<<s>>) /\ Len(<<s>>) = 1
<1>1. PICK q : q = <<s>>
  OBVIOUS
<1>2. q \in Seq(Site) /\ Len(q) = 1 /\ q[1] = s
  BY <1>1
<1>3. DOMAIN q = 1..1 /\ \A x : x \in ToSet(q) <=> \E i \in 1..1 : q[i] = x
  BY <1>2, Holds
<1>4. ToSet(q) = {s} /\ Distinct(q)
  BY <1>2, <1>3 DEF Distinct
<1> QED BY <1>1, <1>2, <1>4

\* A site enters a queue at the end, or where the sites with priority end.
LEMMA Entered ==
  ASSUME NEW u \in Seq(Site), NEW v \in Seq(Site), NEW s \in Site,
         Distinct(u \o v), s \notin ToSet(u \o v), NEW q,
         q = Append(u, s) \o v \/ q = u \o Append(v, s)
  PROVE  q \in Seq(Site) /\ Distinct(q) /\ ToSet(q) = ToSet(u \o v) \cup {s}
<1>0. PICK o : o = <<s>>
  OBVIOUS
<1> DEFINE us == u \o o
           vs == v \o o
<1>1. Append(u, s) = us /\ Append(v, s) = vs
  BY <1>0, AppendIsConcat
<1>2. o \in Seq(Site) /\ ToSet(o) = {s} /\ Distinct(o)
  BY <1>0, HoldsOne
<1>3. /\ ToSet(u \o v) = ToSet(u) \cup ToSet(v)
      /\ Distinct(u) /\ Distinct(v) /\ ToSet(u) \cap ToSet(v) = {}
  BY HoldsBoth
<1>4. us \in Seq(Site) /\ ToSet(us) = ToSet(u) \cup {s} /\ Distinct(us)
  BY <1>2, <1>3, HoldsBoth
<1>5. vs \in Seq(Site) /\ ToSet(vs) = ToSet(v) \cup {s} /\ Distinct(vs)
  BY <1>2, <1>3, HoldsBoth
<1> HIDE DEF us, vs
<1>6. us \o v \in Seq(Site) /\ ToSet(us \o v) = ToSet(u \o v) \cup {s} /\ Distinct(us \o v)
  BY <1>3, <1>4, HoldsBoth
<1>7. u \o vs \in Seq(Site) /\ ToSet(u \o vs) = ToSet(u \o v) \cup {s} /\ Distinct(u \o vs)
  BY <1>3, <1>5, HoldsBoth
<1> QED BY <1>1, <1>6, <1>7

\* A queue is its head and the rest.
LEMMA HeadFirst ==
  ASSUME NEW q \in Seq(Site), q # <<>>, Distinct(q)
  PROVE  /\ Head(q) \in Site /\ Tail(q) \in Seq(Site)
         /\ ToSet(q) = ToSet(Tail(q)) \cup {Head(q)}
         /\ Head(q) \notin ToSet(Tail(q)) /\ Distinct(Tail(q))
<1>1. /\ Head(q) \in Site /\ Tail(q) \in Seq(Site)
      /\ Len(q) \in Nat /\ Len(q) >= 1 /\ Len(Tail(q)) = Len(q) - 1 /\ Head(q) = q[1]
      /\ \A i \in 1..Len(Tail(q)) : Tail(q)[i] = q[i + 1]
      /\ DOMAIN q = 1..Len(q) /\ DOMAIN Tail(q) = 1..Len(q) - 1
  <2>1. Len(q) \in Nat \ {0} /\ Head(q) = q[1]
    BY EmptySeq
  <2> QED BY <2>1, HeadTailProperties, LenProperties
<1>0. PICK t, n : t = Tail(q) /\ n = Len(q)
  OBVIOUS
<1>2. /\ \A i \in 1..n - 1 : t[i] = q[i + 1] /\ i + 1 \in 1..n
      /\ \A i \in 1..n : i = 1 \/ (i - 1 \in 1..n - 1 /\ q[i] = t[i - 1])
      /\ t \in Seq(Site) /\ Len(t) = n - 1 /\ n \in Nat /\ n >= 1
      /\ DOMAIN q = 1..n /\ DOMAIN t = 1..n - 1 /\ n = Len(q)
  BY <1>0, <1>1
<1>3. /\ \A x : x \in ToSet(q) <=> \E i \in 1..n : q[i] = x
      /\ \A x : x \in ToSet(t) <=> \E i \in 1..n - 1 : t[i] = x
  <2>1. \A x : x \in ToSet(q) <=> \E i \in 1..Len(q) : q[i] = x
    BY Holds
  <2>2. \A x : x \in ToSet(t) <=> \E i \in 1..Len(t) : t[i] = x
    BY <1>2, Holds
  <2> QED BY <1>2, <2>1, <2>2
<1>4. ToSet(q) = ToSet(t) \cup {q[1]}
  <2>1. ASSUME NEW x \in ToSet(q) PROVE x \in ToSet(t) \cup {q[1]}
    BY <1>2, <1>3
  <2>2. 1 \in 1..n
    BY <1>2
  <2>3. ASSUME NEW x \in ToSet(t) \cup {q[1]} PROVE x \in ToSet(q)
    BY <1>2, <1>3, <2>2
  <2> QED BY <2>1, <2>3
<1>5. q[1] \notin ToSet(t)
  <2> SUFFICES ASSUME NEW i \in 1..n - 1, t[i] = q[1] PROVE FALSE
    BY <1>3
  <2>1. i + 1 \in 1..n /\ 1 \in 1..n /\ q[i + 1] = q[1]
    BY <1>2
  <2>2. i + 1 = 1
    BY <1>2, <2>1 DEF Distinct
  <2> QED BY <1>2, <2>2
<1>6. Distinct(t)
  <2> SUFFICES ASSUME NEW i \in 1..n - 1, NEW j \in 1..n - 1, t[i] = t[j] PROVE i = j
    BY <1>2 DEF Distinct
  <2>1. i + 1 \in 1..n /\ j + 1 \in 1..n /\ q[i + 1] = q[j + 1]
    BY <1>2
  <2>2. i + 1 = j + 1
    BY <1>2, <2>1 DEF Distinct
  <2> QED BY <1>2, <2>2
<1> QED BY <1>0, <1>1, <1>4, <1>5, <1>6

\* A queue without repetition is as long as the set of its sites.
LEMMA Counted ==
  ASSUME NEW q \in Seq(Site), Distinct(q)
  PROVE  IsFiniteSet(ToSet(q)) /\ Cardinality(ToSet(q)) = Len(q)
<1>1. Len(q) \in Nat /\ q \in [1..Len(q) -> Site] /\ DOMAIN q = 1..Len(q)
  BY LenProperties
<1>2. q \in [1..Len(q) -> ToSet(q)]
  BY <1>1 DEF ToSet
<1>3. q \in Bijection(1..Len(q), ToSet(q))
  <2>1. \A x \in ToSet(q) : \E i \in 1..Len(q) : q[i] = x
    BY Holds
  <2>2. q \in Surjection(1..Len(q), ToSet(q))
    BY <1>2, <2>1 DEF Surjection
  <2>3. q \in Injection(1..Len(q), ToSet(q))
    BY <1>1, <1>2 DEF Injection, IsInjective, Distinct
  <2> QED BY <2>2, <2>3 DEF Bijection
<1>4. ExistsBijection(1..Len(q), ToSet(q))
  BY <1>3 DEF ExistsBijection
<1>5. IsFiniteSet(1..Len(q))
  BY <1>1, FS_Interval
<1> QED BY <1>1, <1>4, <1>5, FS_CountingElements, FS_Bijection

-----------------------------------------------------------------------------
(* What schedule_analysis does to an account. *)

Requests == [priority : BOOLEAN, interactive : BOOLEAN, level : Levels \ {"none"}]

\* An enrichment of s is queued, running or noted as a follow-up.
Covered(a, b, s) == \/ Enriches(a.want[s]) \/ Enriches(a.run[s])
                    \/ Enriches(a.follow[s]) \/ Enriches(b.follow[s])

\* Nothing that was asked for is taken back, and nothing that runs is replaced.
Stronger(a, b) ==
  /\ a.pending \subseteq b.pending
  /\ \A s \in Site :
       /\ Enriches(a.want[s]) => Enriches(b.want[s])
       /\ Enriches(a.run[s]) => Enriches(b.run[s])
       /\ Enriches(a.follow[s]) => Enriches(b.follow[s])
       /\ a.want[s] = "own" => b.want[s] = "own"
       /\ a.run[s] = "own" => b.run[s] = "own"
       /\ a.run[s] = "none" <=> b.run[s] = "none"
       /\ a.run[s] = "metadata" <=> b.run[s] = "metadata"

\* The queue while a request is placed: the sites with priority, then the rest; and the
\* sites with priority after s was admitted.
Whole(f, a) == f \o a.queue
InFront(r, f, s) == IF r.priority THEN Append(f, s) ELSE f

LEMMA StrongerAgain ==
  ASSUME NEW a, NEW b, NEW c, Stronger(a, b), Stronger(b, c)
  PROVE  Stronger(a, c)
BY DEF Stronger

\* An account with one level of one site changed: what is wanted, what runs, what
\* is to follow.
LEMMA WantSet ==
  ASSUME NEW a \in Account, NEW s \in Site, NEW l \in Levels
  PROVE  LET b == [a EXCEPT !.want[s] = l]
         IN  /\ b \in Account /\ b.want = [a.want EXCEPT ![s] = l]
             /\ b.task = a.task /\ b.queue = a.queue /\ b.pending = a.pending
             /\ b.overflow = a.overflow /\ b.run = a.run /\ b.follow = a.follow
             /\ b.want[s] = l /\ \A x \in Site \ {s} : b.want[x] = a.want[x]
<1>1. PICK f : f = [a.want EXCEPT ![s] = l]
  OBVIOUS
<1>2. f \in [Site -> Levels] /\ f[s] = l /\ \A x \in Site \ {s} : f[x] = a.want[x]
  BY <1>1 DEF Account
<1>3. PICK b : b = [a EXCEPT !.want[s] = l]
  OBVIOUS
<1>4. b = [a EXCEPT !.want = f]
  BY <1>1, <1>3
<1>5. b \in Account
  BY <1>2, <1>4 DEF Account
<1>6. /\ b.want = f /\ b.task = a.task /\ b.queue = a.queue /\ b.pending = a.pending
      /\ b.overflow = a.overflow /\ b.run = a.run /\ b.follow = a.follow
  BY <1>4 DEF Account
<1> QED BY <1>1, <1>2, <1>3, <1>5, <1>6

LEMMA RunSet ==
  ASSUME NEW a \in Account, NEW s \in Site, NEW l \in Levels
  PROVE  LET b == [a EXCEPT !.run[s] = l]
         IN  /\ b \in Account /\ b.run = [a.run EXCEPT ![s] = l]
             /\ b.task = a.task /\ b.queue = a.queue /\ b.pending = a.pending
             /\ b.overflow = a.overflow /\ b.want = a.want /\ b.follow = a.follow
             /\ b.run[s] = l /\ \A x \in Site \ {s} : b.run[x] = a.run[x]
<1>1. PICK f : f = [a.run EXCEPT ![s] = l]
  OBVIOUS
<1>2. f \in [Site -> Levels] /\ f[s] = l /\ \A x \in Site \ {s} : f[x] = a.run[x]
  BY <1>1 DEF Account
<1>3. PICK b : b = [a EXCEPT !.run[s] = l]
  OBVIOUS
<1>4. b = [a EXCEPT !.run = f]
  BY <1>1, <1>3
<1>5. b \in Account
  BY <1>2, <1>4 DEF Account
<1>6. /\ b.run = f /\ b.task = a.task /\ b.queue = a.queue /\ b.pending = a.pending
      /\ b.overflow = a.overflow /\ b.want = a.want /\ b.follow = a.follow
  BY <1>4 DEF Account
<1> QED BY <1>1, <1>2, <1>3, <1>5, <1>6

LEMMA FollowSet ==
  ASSUME NEW a \in Account, NEW s \in Site, NEW l \in Levels
  PROVE  LET b == [a EXCEPT !.follow[s] = l]
         IN  /\ b \in Account /\ b.follow = [a.follow EXCEPT ![s] = l]
             /\ b.task = a.task /\ b.queue = a.queue /\ b.pending = a.pending
             /\ b.overflow = a.overflow /\ b.run = a.run /\ b.want = a.want
             /\ b.follow[s] = l /\ \A x \in Site \ {s} : b.follow[x] = a.follow[x]
<1>1. PICK f : f = [a.follow EXCEPT ![s] = l]
  OBVIOUS
<1>2. f \in [Site -> Levels] /\ f[s] = l /\ \A x \in Site \ {s} : f[x] = a.follow[x]
  BY <1>1 DEF Account
<1>3. PICK b : b = [a EXCEPT !.follow[s] = l]
  OBVIOUS
<1>4. b = [a EXCEPT !.follow = f]
  BY <1>1, <1>3
<1>5. b \in Account
  BY <1>2, <1>4 DEF Account
<1>6. /\ b.follow = f /\ b.task = a.task /\ b.queue = a.queue /\ b.pending = a.pending
      /\ b.overflow = a.overflow /\ b.run = a.run /\ b.want = a.want
  BY <1>4 DEF Account
<1> QED BY <1>1, <1>2, <1>3, <1>5, <1>6


\* A request for a site that is queued or running raises its entry.
LEMMA RaisedFacts ==
  ASSUME NEW a \in Account, NEW q, AgreesWith(a, q), NEW s \in a.pending, NEW l \in Levels,
         s \in ToSet(q) <=> s \in Queued(a), NEW b, b = Raised(a, s, l)
  PROVE  /\ b \in Account /\ AgreesWith(b, q) /\ Stronger(a, b)
         /\ b.queue = a.queue /\ b.task = a.task /\ b.pending = a.pending
         /\ Enriches(l) => Enriches(b.want[s]) \/ Enriches(b.run[s]) \/ Enriches(b.follow[s])
         /\ l = "own" /\ a.run[s] # "metadata" => "own" \in {b.want[s], b.run[s]}
<1>1. /\ a.want \in [Site -> Levels] /\ a.run \in [Site -> Levels] /\ a.follow \in [Site -> Levels]
      /\ s \in Site
  BY DEF Account
<1>2. CASE ~Enriches(l)
  <2>1. b = a /\ l # "own"
    BY <1>2 DEF Raised, Enriches
  <2>2. Stronger(a, a)
    BY DEF Stronger
  <2> QED BY <1>2, <2>1, <2>2
<1>3. CASE Enriches(l) /\ s \in Queued(a)
  <2>1. PICK h \in Levels : /\ h = Higher(a.want[s], l) /\ Enriches(h)
                            /\ a.want[s] = "own" \/ l = "own" => h = "own"
    BY <1>1, <1>3, HigherFacts
  <2>2. b = [a EXCEPT !.want[s] = h]
    BY <1>3, <2>1 DEF Raised
  <2>3. /\ b \in Account
        /\ b.queue = a.queue /\ b.task = a.task /\ b.pending = a.pending /\ b.overflow = a.overflow
        /\ b.run = a.run /\ b.follow = a.follow
        /\ b.want[s] = h /\ \A x \in Site \ {s} : b.want[x] = a.want[x]
    BY <1>1, <2>2, WantSet
  <2>5. AgreesWith(b, q)
    BY <1>1, <1>3, <2>1, <2>3 DEF AgreesWith, Enriches
  <2>6. Stronger(a, b)
    BY <1>1, <1>3, <2>1, <2>3 DEF Stronger, Enriches
  <2>7. a.run[s] = "none" /\ (l = "own" => b.want[s] = "own")
    BY <1>1, <1>3, <2>1, <2>3 DEF AgreesWith
  <2> QED BY <1>3, <2>1, <2>3, <2>5, <2>6, <2>7
<1>4. CASE Enriches(l) /\ s \notin Queued(a) /\ a.run[s] = "metadata"
  <2>1. PICK h \in Levels : h = Higher(a.follow[s], l) /\ Enriches(h)
    BY <1>1, <1>4, HigherFacts
  <2>2. b = [a EXCEPT !.follow[s] = h]
    BY <1>4, <2>1 DEF Raised
  <2>3. /\ b \in Account
        /\ b.queue = a.queue /\ b.task = a.task /\ b.pending = a.pending /\ b.overflow = a.overflow
        /\ b.run = a.run /\ b.want = a.want
        /\ b.follow[s] = h /\ \A x \in Site \ {s} : b.follow[x] = a.follow[x]
    BY <1>1, <2>2, FollowSet
  <2>5. AgreesWith(b, q)
    BY <1>1, <1>4, <2>1, <2>3 DEF AgreesWith, Enriches
  <2>6. Stronger(a, b)
    BY <1>1, <1>4, <2>1, <2>3 DEF Stronger, Enriches
  <2> QED BY <1>4, <2>1, <2>3, <2>5, <2>6
<1>5. CASE Enriches(l) /\ s \notin Queued(a) /\ a.run[s] # "metadata"
  <2>0. a.run[s] # "none" /\ Enriches(a.run[s]) /\ a.follow[s] = "none"
    BY <1>1, <1>5 DEF AgreesWith, Enriches, Levels
  <2>1. PICK h \in Levels : /\ h = Higher(a.run[s], l) /\ Enriches(h)
                            /\ a.run[s] = "own" \/ l = "own" => h = "own"
    BY <1>1, <1>5, HigherFacts
  <2>2. b = [a EXCEPT !.run[s] = h]
    BY <1>5, <2>1 DEF Raised
  <2>3. /\ b \in Account
        /\ b.queue = a.queue /\ b.task = a.task /\ b.pending = a.pending /\ b.overflow = a.overflow
        /\ b.want = a.want /\ b.follow = a.follow
        /\ b.run[s] = h /\ \A x \in Site \ {s} : b.run[x] = a.run[x]
    BY <1>1, <2>2, RunSet
  <2>5. AgreesWith(b, q)
    BY <1>1, <1>5, <2>0, <2>1, <2>3 DEF AgreesWith, Enriches
  <2>6. Stronger(a, b)
    BY <1>1, <1>5, <2>0, <2>1, <2>3 DEF Stronger, Enriches
  <2> QED BY <1>5, <2>1, <2>3, <2>5, <2>6
<1> QED BY <1>2, <1>3, <1>4, <1>5

\* The limits that a site admitted to the queue has passed.
LEMMA RoomFor ==
  ASSUME NEW a, IsFiniteSet(a.overflow), Cardinality(a.overflow) <= Overflow, NEW s,
         NEW r, NEW others \in Elsewhere, ~Full(a, r, others), AccountFull(a, others)
  PROVE  IsFiniteSet(a.overflow \cup {s}) /\ Cardinality(a.overflow \cup {s}) <= Overflow
<1>1. Cardinality(a.overflow) + others.overflow < Overflow
  BY DEF Full
<1>2. others.overflow \in Nat /\ Overflow \in Nat /\ Cardinality(a.overflow) \in Nat
  BY QueueLimits, FS_CardinalityType
<1>3. Cardinality(a.overflow \cup {s}) \in {Cardinality(a.overflow), Cardinality(a.overflow) + 1}
  BY FS_AddElement
<1> QED BY <1>1, <1>2, <1>3, FS_AddElement

\* A site that is neither queued nor running gets an entry in the queue.
LEMMA AdmittedFacts ==
  ASSUME NEW a \in Account, NEW f \in Seq(Site), AgreesWith(a, Whole(f, a)),
         NEW s \in Site \ a.pending, NEW r \in Requests, NEW others \in Elsewhere,
         ~Full(a, r, others), NEW b, b = Admitted(a, r, s, others),
         NEW g, g = InFront(r, f, s)
  PROVE  /\ b \in Account /\ g \in Seq(Site) /\ AgreesWith(b, Whole(g, b))
         /\ Stronger(a, b) /\ b.task = a.task /\ b.pending = a.pending \cup {s}
         /\ b.want[s] = r.level /\ b.run = a.run /\ b.follow = a.follow
         /\ ToSet(g) \subseteq ToSet(f) \cup {s}
<1>1. PICK W, P, O, Q : /\ W = [a.want EXCEPT ![s] = r.level]
                        /\ P = a.pending \cup {s}
                        /\ O = IF AccountFull(a, others) THEN a.overflow \cup {s} ELSE a.overflow
                        /\ Q = IF r.priority THEN a.queue ELSE Append(a.queue, s)
  OBVIOUS
<1>2. b = [a EXCEPT !.pending = P, !.want = W, !.overflow = O, !.queue = Q]
  BY <1>1 DEF Admitted
<1>3. /\ W \in [Site -> Levels] /\ W[s] = r.level /\ \A x \in Site \ {s} : W[x] = a.want[x]
      /\ P \subseteq Site
  BY <1>1 DEF Account, Requests
<1>4. O \subseteq P /\ IsFiniteSet(O) /\ Cardinality(O) <= Overflow
  <2>1. a.overflow \subseteq a.pending /\ IsFiniteSet(a.overflow) /\ Cardinality(a.overflow) <= Overflow
    BY DEF AgreesWith
  <2>2. CASE AccountFull(a, others)
    BY <1>1, <2>1, <2>2, RoomFor
  <2>3. CASE ~AccountFull(a, others)
    BY <1>1, <2>1, <2>3
  <2> QED BY <2>2, <2>3
<1>5. a.queue \in Seq(Site) /\ Distinct(f \o a.queue) /\ f \o a.queue \in Seq(Site)
  BY DEF Account, AgreesWith, Whole
<1>6. s \notin ToSet(f \o a.queue)
  BY DEF AgreesWith, Whole
<1>7. PICK q : q = g \o Q
  OBVIOUS
<1>8. q = Append(f, s) \o a.queue \/ q = f \o Append(a.queue, s)
  BY <1>1, <1>7 DEF InFront
<1>9. q \in Seq(Site) /\ Distinct(q) /\ ToSet(q) = ToSet(f \o a.queue) \cup {s}
  <2>1. PICK v : v = a.queue
    OBVIOUS
  <2>2. v \in Seq(Site) /\ Distinct(f \o v) /\ s \notin ToSet(f \o v) /\ s \in Site
    BY <1>5, <1>6, <2>1
  <2>3. q = Append(f, s) \o v \/ q = f \o Append(v, s)
    BY <1>8, <2>1
  <2> HIDE <2>1
  <2>4. \A x : x = Append(f, s) \o v \/ x = f \o Append(v, s) =>
          x \in Seq(Site) /\ Distinct(x) /\ ToSet(x) = ToSet(f \o v) \cup {s}
    BY ONLY <2>2, f \in Seq(Site), Entered
  <2>5. q \in Seq(Site) /\ Distinct(q) /\ ToSet(q) = ToSet(f \o v) \cup {s}
    BY <2>3, <2>4
  <2> QED BY <2>1, <2>5
<1>10. /\ g \in Seq(Site) /\ Q \in Seq(Site) /\ ToSet(g) \subseteq ToSet(f) \cup {s}
  <2>1. PICK o : o = <<s>>
    OBVIOUS
  <2>2. o \in Seq(Site) /\ ToSet(o) = {s}
    BY <2>1, HoldsOne
  <2>3. f \o o \in Seq(Site) /\ ToSet(f \o o) = ToSet(f) \cup {s} /\ a.queue \o o \in Seq(Site)
    BY <1>5, <2>2, HoldsBoth
  <2>4. Append(f, s) = f \o o /\ Append(a.queue, s) = a.queue \o o
    BY <1>5, <2>1, AppendIsConcat
  <2> QED BY <1>1, <1>5, <2>3, <2>4 DEF InFront
<1>11. /\ b \in Account /\ b.queue = Q /\ b.pending = P /\ b.want = W /\ b.overflow = O
       /\ b.run = a.run /\ b.follow = a.follow /\ b.task = a.task
  BY <1>2, <1>3, <1>4, <1>10 DEF Account
<1>12. /\ a.want[s] = "none" /\ a.run[s] = "none"
  BY <1>5, <1>6 DEF AgreesWith, Whole
<1>13. r.level \in Levels \ {"none"}
  BY DEF Requests
<1>14. AgreesWith(b, q)
  <2> SUFFICES ASSUME NEW x \in Site
               PROVE  /\ W[x] # "none" <=> x \in ToSet(q)
                      /\ x \in ToSet(q) => a.run[x] = "none"
                      /\ x \in P <=> x \in ToSet(q) \/ a.run[x] # "none"
                      /\ a.follow[x] # "none" => a.run[x] = "metadata" /\ Enriches(a.follow[x])
    BY <1>4, <1>9, <1>11 DEF AgreesWith
  <2>1. /\ a.want[x] # "none" <=> x \in ToSet(f \o a.queue)
        /\ x \in ToSet(f \o a.queue) => a.run[x] = "none"
        /\ x \in a.pending <=> x \in ToSet(f \o a.queue) \/ a.run[x] # "none"
        /\ a.follow[x] # "none" => a.run[x] = "metadata" /\ Enriches(a.follow[x])
    BY DEF AgreesWith, Whole
  <2> QED BY <1>1, <1>3, <1>9, <1>12, <1>13, <2>1
<1>15. Stronger(a, b)
  BY <1>1, <1>3, <1>11, <1>12 DEF Stronger, Enriches
<1> QED BY <1>1, <1>3, <1>7, <1>10, <1>11, <1>14, <1>15 DEF Whole

Turns == [acct : Account, auto : Sweep, front : Seq(Site), accepted : SUBSET Site, rejected : SUBSET Site]

\* A sweep that a request met: the same, but for follow-ups added.
SweepTold(b, d) ==
  /\ d \in Sweep /\ d.task = b.task /\ d.candidates = b.candidates /\ d.excluded = b.excluded
  /\ d.pending = b.pending
  /\ \A s \in Site : Enriches(b.follow[s]) => Enriches(d.follow[s])

\* What the loop of schedule_analysis has made of account a and sweep b when it has
\* seen the sites of D: every one is accepted or rejected, what was accepted for an
\* enrichment is noted somewhere, and what is new in the queue has the level asked.
LoopOK(a, b, r, D, t) ==
  /\ t \in Turns
  /\ AgreesWith(t.acct, Whole(t.front, t.acct))
  /\ Leases(t.acct, t.auto)
  /\ ToSet(t.front) \subseteq D /\ t.acct.pending \subseteq a.pending \cup D
  /\ Stronger(a, t.acct) /\ t.acct.task = a.task
  /\ SweepTold(b, t.auto)
  /\ t.accepted \cup t.rejected = D
  /\ Enriches(r.level) => \A s \in t.accepted : Covered(t.acct, t.auto, s)
  /\ r.level = "own" => \A s \in t.accepted \ (a.pending \cup b.pending) : t.acct.want[s] = "own"

\* What is covered stays covered by an account and a sweep that are stronger.
LEMMA CoveredStill ==
  ASSUME NEW a, NEW b, NEW c, NEW d, Stronger(a, c), SweepTold(b, d), NEW s \in Site, Covered(a, b, s)
  PROVE  Covered(c, d, s)
BY DEF Stronger, SweepTold, Covered

\* A site joins a set of leased ones without meeting them.
LEMMA LeasesStill ==
  ASSUME NEW a, NEW b, NEW c, Leases(a, b), NEW s, s \notin b.pending,
         c.pending \subseteq a.pending \cup {s}
  PROVE  Leases(c, b)
BY DEF Leases

\* One turn of the loop.
LEMMA PlacedKeeps ==
  ASSUME NEW a \in Account, NEW b \in Sweep, NEW r \in Requests, NEW D, NEW t, LoopOK(a, b, r, D, t),
         NEW others \in Elsewhere, NEW s \in Site \ D, NEW u, u = Placed(r, others, t, s)
  PROVE  LoopOK(a, b, r, D \cup {s}, u)
<1>1. PICK ta, tb, tf, tq : ta = t.acct /\ tb = t.auto /\ tf = t.front /\ tq = Whole(tf, ta)
  OBVIOUS
<1>2. /\ ta \in Account /\ tb \in Sweep /\ tf \in Seq(Site) /\ AgreesWith(ta, tq) /\ Leases(ta, tb)
      /\ ToSet(tf) \subseteq D /\ ta.pending \subseteq a.pending \cup D /\ Stronger(a, ta) /\ ta.task = a.task /\ SweepTold(b, tb)
      /\ t.accepted \cup t.rejected = D /\ t.accepted \subseteq Site /\ t.rejected \subseteq Site
      /\ Enriches(r.level) => \A x \in t.accepted : Covered(ta, tb, x)
      /\ r.level = "own" => \A x \in t.accepted \ (a.pending \cup b.pending) : ta.want[x] = "own"
      /\ t \in Turns /\ r.level \in Levels /\ ta.queue \in Seq(Site)
  BY <1>1 DEF LoopOK, Turns, Requests, Account
<1>0. /\ t \in Turns /\ t.acct = ta /\ t.auto = tb /\ t.front = tf
      /\ t.accepted \cup {s} \subseteq Site /\ t.rejected \cup {s} \subseteq Site
      /\ ta \in Account /\ tb \in Sweep /\ tf \in Seq(Site)
  BY <1>1, <1>2
<1>3. CASE s \in ta.pending
  <2>1. PICK c : c = Raised(ta, s, r.level)
    OBVIOUS
  <2>2. u = [t EXCEPT !.acct = c, !.accepted = t.accepted \cup {s}]
    BY <1>1, <1>3, <2>1 DEF Placed
  <2>3. s \in ToSet(tq) <=> s \in Queued(ta)
    BY <1>1, <1>2, HoldsBoth DEF Queued, Whole
  <2>4. /\ c \in Account /\ AgreesWith(c, tq) /\ Stronger(ta, c)
        /\ c.queue = ta.queue /\ c.task = ta.task /\ c.pending = ta.pending
        /\ Enriches(r.level) => Enriches(c.want[s]) \/ Enriches(c.run[s]) \/ Enriches(c.follow[s])
    BY <1>2, <1>3, <2>1, <2>3, RaisedFacts
  <2>5. /\ u \in Turns /\ u.acct = c /\ u.auto = tb /\ u.front = tf
        /\ u.accepted = t.accepted \cup {s} /\ u.rejected = t.rejected
    BY <1>0, <2>2, <2>4 DEF Turns
  <2>6. Stronger(a, c)
    BY <1>2, <2>4, StrongerAgain
  <2>7. Leases(c, tb)
    BY <1>2, <2>4 DEF Leases
  <2>8. ASSUME Enriches(r.level), NEW x \in u.accepted PROVE Covered(c, tb, x)
    <3>1. CASE x = s
      BY <2>4, <2>8, <3>1 DEF Covered
    <3>2. CASE x \in t.accepted
      <4>1. SweepTold(tb, tb)
        BY <1>2 DEF SweepTold
      <4> QED BY <1>2, <2>4, <2>8, <3>2, <4>1, CoveredStill
    <3> QED BY <2>5, <2>8, <3>1, <3>2
  <2>9. ASSUME r.level = "own", NEW x \in u.accepted \ (a.pending \cup b.pending)
        PROVE  c.want[x] = "own"
    <3>1. CASE x \in t.accepted
      BY <1>2, <2>4, <2>9, <3>1 DEF Stronger
    <3>2. CASE x = s
      BY <1>2, <1>3, <2>9, <3>2
    <3> QED BY <2>5, <2>9, <3>1, <3>2
  <2>10. Whole(tf, c) = tq
    BY <1>1, <2>4 DEF Whole
  <2> QED BY <1>1, <1>2, <2>4, <2>5, <2>6, <2>7, <2>8, <2>9, <2>10 DEF LoopOK
<1>4. CASE s \notin ta.pending /\ s \in tb.pending
  <2>1. PICK h : h = IF Enriches(r.level) THEN Higher(tb.follow[s], r.level) ELSE tb.follow[s]
    OBVIOUS
  <2>2. PICK F : F = [tb.follow EXCEPT ![s] = h]
    OBVIOUS
  <2>3. PICK d : d = [tb EXCEPT !.follow = F]
    OBVIOUS
  <2>4. u = [t EXCEPT !.auto = d, !.accepted = t.accepted \cup {s}]
    BY <1>1, <1>4, <2>1, <2>2, <2>3 DEF Placed
  <2>5. /\ h \in Levels /\ (Enriches(r.level) => Enriches(h)) /\ (~Enriches(r.level) => h = tb.follow[s])
        /\ Enriches(tb.follow[s]) => Enriches(h)
    BY <1>2, <2>1, HigherFacts DEF Sweep
  <2>6. F \in [Site -> Levels] /\ F[s] = h /\ \A x \in Site \ {s} : F[x] = tb.follow[x]
    BY <1>2, <2>2, <2>5 DEF Sweep
  <2>7. /\ d \in Sweep /\ d.task = tb.task /\ d.candidates = tb.candidates /\ d.excluded = tb.excluded
        /\ d.pending = tb.pending /\ d.rescan = tb.rescan /\ d.follow = F
    BY <1>2, <2>3, <2>6 DEF Sweep
  <2>8. SweepTold(b, d) /\ SweepTold(tb, d)
    BY <1>2, <2>5, <2>6, <2>7 DEF SweepTold
  <2>9. Leases(ta, d)
    BY <1>2, <1>4, <2>5, <2>6, <2>7 DEF Leases, Enriches, Levels
  <2>10. /\ u \in Turns /\ u.acct = ta /\ u.auto = d /\ u.front = tf
         /\ u.accepted = t.accepted \cup {s} /\ u.rejected = t.rejected
    BY <1>0, <2>4, <2>7 DEF Turns
  <2>11. ASSUME Enriches(r.level), NEW x \in u.accepted PROVE Covered(ta, d, x)
    <3>1. CASE x = s
      BY <2>5, <2>6, <2>7, <2>11, <3>1 DEF Covered
    <3>2. CASE x \in t.accepted
      <4>1. Stronger(ta, ta)
        BY DEF Stronger
      <4> QED BY <1>2, <2>8, <2>11, <3>2, <4>1, CoveredStill
    <3> QED BY <2>10, <2>11, <3>1, <3>2
  <2>12. ASSUME r.level = "own", NEW x \in u.accepted \ (a.pending \cup b.pending)
         PROVE  ta.want[x] = "own"
    BY <1>2, <1>4, <2>10, <2>12 DEF SweepTold
  <2> QED BY <1>1, <1>2, <2>8, <2>9, <2>10, <2>11, <2>12 DEF LoopOK
<1>5. CASE s \notin ta.pending /\ s \notin tb.pending /\ Full(ta, r, others)
  <2>1. u = [t EXCEPT !.rejected = t.rejected \cup {s}]
    BY <1>1, <1>5 DEF Placed
  <2>2. /\ u \in Turns /\ u.acct = ta /\ u.auto = tb /\ u.front = tf
        /\ u.accepted = t.accepted /\ u.rejected = t.rejected \cup {s}
    BY <1>0, <2>1 DEF Turns
  <2> QED BY <1>1, <1>2, <2>2 DEF LoopOK
<1>6. CASE s \notin ta.pending /\ s \notin tb.pending /\ ~Full(ta, r, others)
  <2>1. PICK c, g : c = Admitted(ta, r, s, others) /\ g = InFront(r, tf, s)
    OBVIOUS
  <2>2. u = [t EXCEPT !.acct = c, !.accepted = t.accepted \cup {s}, !.front = g]
    BY <1>1, <1>6, <2>1 DEF Placed, InFront
  <2>3. /\ c \in Account /\ g \in Seq(Site) /\ AgreesWith(c, Whole(g, c))
        /\ Stronger(ta, c) /\ c.task = ta.task /\ c.pending = ta.pending \cup {s}
        /\ c.want[s] = r.level /\ ToSet(g) \subseteq ToSet(tf) \cup {s}
    <3>1. /\ ta \in Account /\ tf \in Seq(Site) /\ AgreesWith(ta, Whole(tf, ta))
          /\ s \in Site \ ta.pending
      BY <1>1, <1>2, <1>6
    <3>2. r \in Requests /\ others \in Elsewhere /\ ~Full(ta, r, others)
      BY <1>6
    <3> QED BY ONLY <3>1, <3>2, <2>1, AdmittedFacts
  <2>4. /\ u \in Turns /\ u.acct = c /\ u.auto = tb /\ u.front = g
        /\ u.accepted = t.accepted \cup {s} /\ u.rejected = t.rejected
    BY <1>0, <2>2, <2>3 DEF Turns
  <2>5. Stronger(a, c)
    BY <1>2, <2>3, StrongerAgain
  <2>6. Leases(c, tb)
    BY <1>2, <1>6, <2>3, LeasesStill
  <2>7. ASSUME Enriches(r.level), NEW x \in u.accepted PROVE Covered(c, tb, x)
    <3>1. CASE x = s
      BY <2>3, <2>7, <3>1 DEF Covered
    <3>2. CASE x \in t.accepted
      <4>1. SweepTold(tb, tb)
        BY <1>2 DEF SweepTold
      <4> QED BY <1>2, <2>3, <2>7, <3>2, <4>1, CoveredStill
    <3> QED BY <2>4, <2>7, <3>1, <3>2
  <2>8. ASSUME r.level = "own", NEW x \in u.accepted \ (a.pending \cup b.pending)
        PROVE  c.want[x] = "own"
    <3>1. CASE x \in t.accepted
      BY <1>2, <2>3, <2>8, <3>1 DEF Stronger
    <3> QED BY <2>3, <2>4, <2>8, <3>1
  <2> QED BY <1>1, <1>2, <2>3, <2>4, <2>5, <2>6, <2>7, <2>8 DEF LoopOK
<1> QED BY <1>3, <1>4, <1>5, <1>6

-----------------------------------------------------------------------------
(* The loop of schedule_analysis, by induction on the sites it has seen. *)

\* Induction over a set of numbers.
LEMMA NatSet ==
  ASSUME NEW S, 0 \in S, \A n \in Nat : n \in S => n + 1 \in S
  PROVE  Nat \subseteq S
<1> SUFFICES ASSUME ~(Nat \subseteq S) PROVE FALSE
  OBVIOUS
<1> DEFINE T == Nat \ S
<1>1. PICK m \in T : \A n \in T : ~(<<n, m>> \in OpToRel(<, Nat))
  BY NatLessThanWellFounded, WFMin
<1>2. m # 0 /\ m \in Nat /\ m \notin S
  OBVIOUS
<1>3. m - 1 \in Nat /\ m - 1 < m /\ (m - 1) + 1 = m
  BY <1>2
<1>4. m - 1 \in T
  BY <1>2, <1>3
<1> QED BY <1>1, <1>2, <1>3, <1>4 DEF OpToRel

\* The turns of the loop: turn[i] is what the first i sites have made of a and b.
Turning(turn, n, r, sites, a, b, others) ==
  turn = [i \in 0..n |-> IF i = 0 THEN Loop0(a, b) ELSE Placed(r, others, turn[i - 1], sites[i])]

\* There are such turns.
LEMMA TurnsExist ==
  ASSUME NEW n \in Nat, NEW r, NEW sites, NEW a, NEW b, NEW others
  PROVE  \E turn : Turning(turn, n, r, sites, a, b, others)
<1> DEFINE S == {k \in Nat : \E turn : Turning(turn, k, r, sites, a, b, others)}
<1>1. 0 \in S
  <2>1. PICK f : f = [i \in 0..0 |-> Loop0(a, b)]
    OBVIOUS
  <2>2. f = [i \in 0..0 |-> IF i = 0 THEN Loop0(a, b) ELSE Placed(r, others, f[i - 1], sites[i])]
    BY <2>1
  <2> QED BY <2>2 DEF Turning
<1>2. ASSUME NEW k \in Nat, k \in S PROVE k + 1 \in S
  <2>1. PICK f : f = [i \in 0..k |-> IF i = 0 THEN Loop0(a, b) ELSE Placed(r, others, f[i - 1], sites[i])]
    BY <1>2 DEF Turning
  <2>2. PICK g : g = [i \in 0..k + 1 |-> IF i <= k THEN f[i] ELSE Placed(r, others, f[k], sites[k + 1])]
    OBVIOUS
  <2>3. ASSUME NEW i \in 0..k + 1
        PROVE  g[i] = IF i = 0 THEN Loop0(a, b) ELSE Placed(r, others, g[i - 1], sites[i])
    <3>1. CASE i = 0
      BY <2>1, <2>2, <3>1
    <3>2. CASE i # 0 /\ i <= k
      <4>1. i - 1 \in 0..k /\ i - 1 \in 0..k + 1 /\ i \in 0..k /\ i - 1 <= k
        BY <3>2
      <4>2. g[i - 1] = f[i - 1] /\ g[i] = f[i]
        BY <2>2, <4>1
      <4>3. f[i] = Placed(r, others, f[i - 1], sites[i])
        BY <2>1, <3>2, <4>1
      <4> QED BY <3>2, <4>2, <4>3
    <3>3. CASE i = k + 1
      <4>1. g[k] = f[k] /\ g[k + 1] = Placed(r, others, f[k], sites[k + 1]) /\ i - 1 = k /\ i # 0
        BY <2>2, <3>3
      <4> QED BY <3>3, <4>1
    <3> QED BY <3>1, <3>2, <3>3
  <2>4. g = [i \in 0..k + 1 |-> IF i = 0 THEN Loop0(a, b) ELSE Placed(r, others, g[i - 1], sites[i])]
    BY <2>2, <2>3
  <2> QED BY <2>4 DEF Turning
<1>3. n \in S
  BY <1>1, <1>2, NatSet
<1> QED BY <1>3

\* The loop ends with its last turn.
LEMMA LoopEnds ==
  ASSUME NEW r, NEW sites \in Seq(Site), NEW a, NEW b, NEW others
  PROVE  \E turn : /\ Turning(turn, Len(sites), r, sites, a, b, others)
                   /\ LoopOver(r, sites, a, b, others) = turn[Len(sites)]
<1>1. Len(sites) \in Nat
  BY LenProperties
<1>2. \E turn : Turning(turn, Len(sites), r, sites, a, b, others)
  BY <1>1, TurnsExist
<1>3. PICK turn : /\ Turning(turn, Len(sites), r, sites, a, b, others)
                  /\ turn = CHOOSE f : Turning(f, Len(sites), r, sites, a, b, others)
  BY <1>2
<1>4. turn = CHOOSE f : f = [i \in 0..Len(sites) |->
                               IF i = 0 THEN Loop0(a, b) ELSE Placed(r, others, f[i - 1], sites[i])]
  BY <1>3 DEF Turning
<1>5. LoopOver(r, sites, a, b, others) = turn[Len(sites)]
  BY ONLY <1>4 DEF LoopOver
<1> QED BY <1>3, <1>5

\* The loop has seen every site once.
LEMMA LoopDone ==
  ASSUME NEW a, Agrees(a), NEW b, Leases(a, b), NEW r \in Requests, NEW others \in Elsewhere,
         NEW sites \in Seq(Site), Distinct(sites),
         NEW t, t = LoopOver(r, sites, a, b, others)
  PROVE  LoopOK(a, b, r, ToSet(sites), t)
<1> DEFINE D(k) == {sites[j] : j \in 1..k}
<1>1. /\ a \in Account /\ b \in Sweep /\ Len(sites) \in Nat /\ DOMAIN sites = 1..Len(sites)
      /\ \A j \in 1..Len(sites) : sites[j] \in Site
  BY LenProperties, ElementOfSeq DEF Agrees, Leases
<1>2. PICK turn : /\ Turning(turn, Len(sites), r, sites, a, b, others)
                  /\ t = turn[Len(sites)]
  BY LoopEnds
<1>3. /\ turn[0] = Loop0(a, b)
      /\ \A i \in 0..Len(sites) : i # 0 => turn[i] = Placed(r, others, turn[i - 1], sites[i])
  BY <1>1, <1>2 DEF Turning
<1> DEFINE S == {k \in Nat : k <= Len(sites) => LoopOK(a, b, r, D(k), turn[k])}
<1>4. 0 \in S
  <2>1. PICK u, e, qa : u = turn[0] /\ e = <<>> /\ qa = a.queue
    OBVIOUS
  <2>2. /\ u.acct = a /\ u.auto = b /\ u.front = e /\ u.accepted = {} /\ u.rejected = {}
        /\ u = [acct |-> a, auto |-> b, front |-> e, accepted |-> {}, rejected |-> {}]
    BY <1>3, <2>1 DEF Loop0
  <2>3. e \in Seq(Site) /\ ToSet(e) = {} /\ e \o qa = qa /\ qa \in Seq(Site)
    <3>1. qa \in Seq(Site) /\ e \in Seq(Site) /\ Len(e) = 0
      BY <1>1, <2>1, EmptySeq DEF Account
    <3>2. 1..0 = {}
      OBVIOUS
    <3>3. ToSet(e) = {}
      BY <3>1, <3>2, Holds
    <3> QED BY <2>1, <3>1, <3>3, ConcatEmptySeq
  <2>4. AgreesWith(a, Whole(e, a))
    BY <2>1, <2>3 DEF Whole, Agrees
  <2>5. Stronger(a, a) /\ SweepTold(b, b)
    BY <1>1 DEF Stronger, SweepTold
  <2>6. u \in Turns
    BY <1>1, <2>2, <2>3 DEF Turns
  <2>7. D(0) = {}
    OBVIOUS
  <2> HIDE DEF D
  <2>8. LoopOK(a, b, r, D(0), u)
    BY <2>2, <2>3, <2>4, <2>5, <2>6, <2>7 DEF LoopOK
  <2> QED BY <2>1, <2>8
<1>5. ASSUME NEW k \in Nat, k \in S PROVE k + 1 \in S
  <2> SUFFICES ASSUME k + 1 <= Len(sites) PROVE LoopOK(a, b, r, D(k + 1), turn[k + 1])
    OBVIOUS
  <2>1. /\ k <= Len(sites) /\ k + 1 \in 1..Len(sites) /\ k + 1 \in 0..Len(sites) /\ (k + 1) - 1 = k
        /\ 1..k \subseteq 1..Len(sites) /\ 1..k + 1 = (1..k) \cup {k + 1} /\ k + 1 \notin 1..k
    BY <1>1
  <2>2. LoopOK(a, b, r, D(k), turn[k])
    BY <1>5, <2>1
  <2>3. turn[k + 1] = Placed(r, others, turn[k], sites[k + 1])
    BY <1>3, <2>1
  <2>4. sites[k + 1] \in Site \ D(k)
    BY <1>1, <2>1 DEF Distinct
  <2>5. D(k + 1) = D(k) \cup {sites[k + 1]}
    BY <2>1
  <2> HIDE DEF D
  <2>6. LoopOK(a, b, r, D(k) \cup {sites[k + 1]}, turn[k + 1])
    BY <1>1, <2>2, <2>3, <2>4, PlacedKeeps
  <2> QED BY <2>5, <2>6
<1>6. Len(sites) \in S
  <2> HIDE DEF S
  <2> QED BY <1>1, <1>4, <1>5, NatSet
<1>7. D(Len(sites)) = ToSet(sites)
  BY <1>1 DEF ToSet
<1> HIDE DEF D
<1>8. LoopOK(a, b, r, D(Len(sites)), turn[Len(sites)])
  BY <1>1, <1>6
<1> QED BY <1>2, <1>7, <1>8

\* What a request leaves of an account and a sweep.
ScheduledOK(a, b, r, D, t) ==
  /\ Agrees(t.acct) /\ Leases(t.acct, t.auto)
  /\ Stronger(a, t.acct) /\ SweepTold(b, t.auto)
  /\ t.acct.task = a.task \/ (a.task \in {"none", "done"} /\ t.acct.task = "created")
  /\ t.accepted \cup t.rejected = D
  /\ Enriches(r.level) => \A s \in t.accepted : Covered(t.acct, t.auto, s)
  /\ r.level = "own" => \A s \in t.accepted \ (a.pending \cup b.pending) : t.acct.want[s] = "own"

LEMMA ScheduledFacts ==
  ASSUME NEW a, Agrees(a), NEW b, Leases(a, b), NEW r \in Requests, NEW others \in Elsewhere,
         NEW sites \in Seq(Site), Distinct(sites),
         NEW t, t = Scheduled(r, sites, a, b, others)
  PROVE  ScheduledOK(a, b, r, ToSet(sites), t)
<1>1. PICK u : u = LoopOver(r, sites, a, b, others)
  OBVIOUS
<1>2. LoopOK(a, b, r, ToSet(sites), u)
  BY <1>1, LoopDone
<1>3. PICK ua, q, c : ua = u.acct /\ q = Whole(u.front, u.acct) /\ c = [ua EXCEPT !.queue = q]
  OBVIOUS
<1>4. t = [u EXCEPT !.acct = Started(c)]
  BY <1>1, <1>3 DEF Scheduled, Whole
<1>5. u \in Turns /\ ua \in Account /\ q \in Seq(Site) /\ AgreesWith(ua, q)
  BY <1>2, <1>3 DEF LoopOK, Turns, AgreesWith
<1>6. PICK v : v = IF c.queue # <<>> /\ c.task \in {"none", "done"} THEN "created" ELSE c.task
  OBVIOUS
<1>7. /\ c \in Account /\ c.queue = q /\ c.task = ua.task /\ c.pending = ua.pending
      /\ c.overflow = ua.overflow /\ c.want = ua.want /\ c.run = ua.run /\ c.follow = ua.follow
  BY <1>3, <1>5 DEF Account
<1>8. PICK d : d = Started(c)
  OBVIOUS
<1>9. d = [c EXCEPT !.task = v]
  <2>1. c = [c EXCEPT !.task = c.task]
    BY <1>7 DEF Account
  <2> QED BY <1>6, <1>8, <2>1 DEF Started
<1>10. v \in {"none", "created", "running", "done"}
  BY <1>6, <1>7 DEF Account
<1>11. /\ d \in Account /\ d.queue = q /\ d.task = v /\ d.pending = ua.pending
       /\ d.overflow = ua.overflow /\ d.want = ua.want /\ d.run = ua.run /\ d.follow = ua.follow
  BY <1>7, <1>9, <1>10 DEF Account
<1>12. /\ t.acct = d /\ t.auto = u.auto /\ t.accepted = u.accepted /\ t.rejected = u.rejected
  BY <1>4, <1>5, <1>8 DEF Turns
<1>13. Agrees(d)
  BY <1>5, <1>11 DEF Agrees, AgreesWith
<1>14. Leases(d, u.auto)
  BY <1>2, <1>3, <1>11 DEF Leases, LoopOK
<1>15. Stronger(a, d)
  BY <1>2, <1>3, <1>11 DEF Stronger, LoopOK
<1>16. Enriches(r.level) => \A s \in u.accepted : Covered(d, u.auto, s)
  BY <1>2, <1>3, <1>11 DEF Covered, LoopOK
<1>17. r.level = "own" => \A s \in u.accepted \ (a.pending \cup b.pending) : d.want[s] = "own"
  BY <1>2, <1>3, <1>11 DEF LoopOK
<1>18. d.task = a.task \/ (a.task \in {"none", "done"} /\ d.task = "created")
  BY <1>2, <1>3, <1>6, <1>7, <1>11 DEF LoopOK
<1>19. SweepTold(b, u.auto) /\ u.accepted \cup u.rejected = ToSet(sites)
  BY <1>2 DEF LoopOK
<1> QED BY <1>12, <1>13, <1>14, <1>15, <1>16, <1>17, <1>18, <1>19 DEF ScheduledOK

\* The order in which a request names its sites.
LEMMA Ordered ==
  ASSUME NEW S \in SUBSET Site, NEW order \in SetToSeqs(S)
  PROVE  order \in Seq(Site) /\ Distinct(order)
<1>1. IsFiniteSet(S) /\ Cardinality(S) \in Nat
  BY FiniteLibrary, FS_Subset, FS_CardinalityType
<1>2. /\ order \in [1..Cardinality(S) -> Site]
      /\ \A i, j \in 1..Cardinality(S) : i # j => order[i] # order[j]
  BY DEF SetToSeqs
<1> QED BY <1>1, <1>2, SeqDef DEF Distinct

-----------------------------------------------------------------------------
(* What the consumers do to an account. *)

\* The account without its queue.
LEMMA EmptyAccount == /\ Agrees(NoAccount) /\ NoAccount.pending = {} /\ NoAccount.task = "none"
                      /\ \A s \in Site : NoAccount.want[s] = "none" /\ NoAccount.run[s] = "none"
<1>1. PICK e : e = <<>>
  OBVIOUS
<1>2. e \in Seq(Site) /\ Len(e) = 0
  BY <1>1, EmptySeq
<1>3. ToSet(e) = {} /\ DOMAIN e = {}
  <2>1. 1..0 = {}
    OBVIOUS
  <2> QED BY <1>2, <2>1, Holds
<1>4. IsFiniteSet({}) /\ Cardinality({}) = 0 /\ 0 <= Overflow
  BY FS_EmptySet, QueueLimits
<1>5. /\ NoAccount.queue = e /\ NoAccount.pending = {} /\ NoAccount.task = "none" /\ NoAccount.overflow = {}
      /\ \A s \in Site : NoAccount.want[s] = "none" /\ NoAccount.run[s] = "none" /\ NoAccount.follow[s] = "none"
      /\ NoLevels \in [Site -> Levels]
  BY <1>1 DEF NoAccount, NoLevels, Levels
<1>6. NoAccount \in Account
  <2>1. NoAccount = [task |-> "none", queue |-> e, pending |-> {}, overflow |-> {},
                     want |-> NoLevels, run |-> NoLevels, follow |-> NoLevels]
    BY <1>1 DEF NoAccount
  <2> HIDE DEF NoAccount
  <2> QED BY <1>2, <1>5, <2>1 DEF Account
<1> HIDE DEF NoAccount
<1>7. AgreesWith(NoAccount, e)
  BY <1>2, <1>3, <1>4, <1>5 DEF AgreesWith, Distinct
<1> QED BY <1>5, <1>6, <1>7 DEF Agrees

\* A consumer takes the head of the queue: its entry runs with what was wanted of it.
LEMMA PoppedFacts ==
  ASSUME NEW a, Agrees(a), a.queue # <<>>, NEW b, b = Popped(a), NEW h, h = Head(a.queue)
  PROVE  /\ Agrees(b) /\ b.task = a.task /\ b.pending = a.pending /\ b.follow = a.follow
         /\ h \in Site /\ h \in Queued(a)
         /\ b.want[h] = "none" /\ b.run[h] = a.want[h] /\ b.run[h] # "none"
         /\ \A x \in Site \ {h} : b.want[x] = a.want[x] /\ b.run[x] = a.run[x]
<1>1. PICK q, t : q = a.queue /\ t = Tail(q)
  OBVIOUS
<1>2. a \in Account /\ q \in Seq(Site) /\ q # <<>> /\ Distinct(q) /\ AgreesWith(a, q)
  BY <1>1 DEF Agrees, AgreesWith
<1>3. /\ h \in Site /\ t \in Seq(Site) /\ ToSet(q) = ToSet(t) \cup {h}
      /\ h \notin ToSet(t) /\ Distinct(t)
  BY <1>1, <1>2, HeadFirst
<1>4. PICK W, R : W = [a.want EXCEPT ![h] = "none"] /\ R = [a.run EXCEPT ![h] = a.want[h]]
  OBVIOUS
<1>5. b = [a EXCEPT !.queue = t, !.want = W, !.run = R]
  BY <1>1, <1>4 DEF Popped
<1>6. /\ W \in [Site -> Levels] /\ R \in [Site -> Levels] /\ W[h] = "none" /\ R[h] = a.want[h]
      /\ \A x \in Site \ {h} : W[x] = a.want[x] /\ R[x] = a.run[x]
  BY <1>2, <1>3, <1>4 DEF Account, Levels
<1>7. /\ b \in Account /\ b.queue = t /\ b.want = W /\ b.run = R /\ b.task = a.task
      /\ b.pending = a.pending /\ b.overflow = a.overflow /\ b.follow = a.follow
  BY <1>2, <1>3, <1>5, <1>6 DEF Account
<1>8. a.want[h] # "none" /\ a.run[h] = "none"
  BY <1>2, <1>3 DEF AgreesWith
<1>9. AgreesWith(b, t)
  <2> SUFFICES ASSUME NEW x \in Site
               PROVE  /\ W[x] # "none" <=> x \in ToSet(t)
                      /\ x \in ToSet(t) => R[x] = "none"
                      /\ x \in a.pending <=> x \in ToSet(t) \/ R[x] # "none"
                      /\ a.follow[x] # "none" => R[x] = "metadata" /\ Enriches(a.follow[x])
    BY <1>2, <1>3, <1>7 DEF AgreesWith
  <2>1. /\ a.want[x] # "none" <=> x \in ToSet(q)
        /\ x \in ToSet(q) => a.run[x] = "none"
        /\ x \in a.pending <=> x \in ToSet(q) \/ a.run[x] # "none"
        /\ a.follow[x] # "none" => a.run[x] = "metadata" /\ Enriches(a.follow[x])
    BY <1>2 DEF AgreesWith
  <2> QED BY <1>3, <1>6, <1>8, <2>1
<1> QED BY <1>1, <1>3, <1>6, <1>7, <1>8, <1>9 DEF Agrees, Queued

\* The entry of a site that ran is gone, or back in the queue with its follow-up.
LEMMA LeftFacts ==
  ASSUME NEW a, Agrees(a), NEW s \in Site, a.run[s] # "none", NEW b, b = Left(a, s)
  PROVE  /\ Agrees(b) /\ b.task = a.task /\ b.pending \subseteq a.pending
         /\ b.run[s] = "none"
         /\ Up /\ Enriches(a.follow[s]) => Enriches(b.want[s])
         /\ \A x \in Site \ {s} : /\ b.want[x] = a.want[x] /\ b.run[x] = a.run[x]
                                  /\ b.follow[x] = a.follow[x]
<1>1. PICK q : q = a.queue
  OBVIOUS
<1>2. a \in Account /\ q \in Seq(Site) /\ AgreesWith(a, q)
  BY <1>1 DEF Agrees, AgreesWith
<1>3. PICK R, F : R = [a.run EXCEPT ![s] = "none"] /\ F = [a.follow EXCEPT ![s] = "none"]
  OBVIOUS
<1>4. PICK P, O : P = a.pending \ {s} /\ O = a.overflow \ {s}
  OBVIOUS
<1>5. PICK c : c = [a EXCEPT !.pending = P, !.overflow = O, !.run = R, !.follow = F]
  OBVIOUS
<1>6. /\ R \in [Site -> Levels] /\ F \in [Site -> Levels] /\ R[s] = "none" /\ F[s] = "none"
      /\ \A x \in Site \ {s} : R[x] = a.run[x] /\ F[x] = a.follow[x]
  BY <1>2, <1>3 DEF Account, Levels
<1>7. /\ c \in Account /\ c.queue = q /\ c.want = a.want /\ c.run = R /\ c.task = a.task
      /\ c.pending = P /\ c.overflow = O /\ c.follow = F
  BY <1>1, <1>2, <1>4, <1>5, <1>6 DEF Account
<1>8. s \in a.pending /\ a.want[s] = "none" /\ s \notin ToSet(q)
  BY <1>2 DEF AgreesWith
<1>9. O \subseteq P /\ IsFiniteSet(O) /\ Cardinality(O) <= Overflow
  <2>1. a.overflow \subseteq a.pending /\ IsFiniteSet(a.overflow) /\ Cardinality(a.overflow) <= Overflow
    BY <1>2 DEF AgreesWith
  <2>2. IsFiniteSet(O) /\ Cardinality(O) <= Cardinality(a.overflow)
    BY <1>4, <2>1, FS_Subset
  <2>3. Cardinality(O) \in Nat /\ Cardinality(a.overflow) \in Nat /\ Overflow \in Nat
    BY <2>1, <2>2, FS_CardinalityType, QueueLimits
  <2> QED BY <1>4, <2>1, <2>2, <2>3
<1>10. CASE ~(Enriches(a.follow[s]) /\ Up)
  <2>1. b = c
    BY <1>3, <1>4, <1>5, <1>10 DEF Left
  <2>2. AgreesWith(c, q)
    <3> SUFFICES ASSUME NEW x \in Site
                 PROVE  /\ a.want[x] # "none" <=> x \in ToSet(q)
                        /\ x \in ToSet(q) => R[x] = "none"
                        /\ x \in P <=> x \in ToSet(q) \/ R[x] # "none"
                        /\ F[x] # "none" => R[x] = "metadata" /\ Enriches(F[x])
      BY <1>2, <1>7, <1>9 DEF AgreesWith
    <3>1. /\ a.want[x] # "none" <=> x \in ToSet(q)
          /\ x \in ToSet(q) => a.run[x] = "none"
          /\ x \in a.pending <=> x \in ToSet(q) \/ a.run[x] # "none"
          /\ a.follow[x] # "none" => a.run[x] = "metadata" /\ Enriches(a.follow[x])
      BY <1>2 DEF AgreesWith
    <3> QED BY <1>4, <1>6, <1>8, <3>1
  <2> QED BY <1>4, <1>6, <1>7, <1>10, <2>1, <2>2 DEF Agrees
<1>11. CASE Enriches(a.follow[s]) /\ Up
  <2>1. PICK o, W, p, Q : /\ o = <<s>> /\ W = [a.want EXCEPT ![s] = a.follow[s]]
                          /\ p = o \o q /\ Q = P \cup {s}
    OBVIOUS
  <2>2. b = [c EXCEPT !.pending = Q, !.want = W, !.queue = p]
    BY ZenonT(60), <1>3, <1>4, <1>5, <1>7, <1>11, <2>1 DEF Left
  <2>3. o \in Seq(Site) /\ ToSet(o) = {s} /\ Distinct(o)
    BY <2>1, HoldsOne
  <2>4. p \in Seq(Site) /\ ToSet(p) = ToSet(q) \cup {s} /\ Distinct(p)
    <3>1. Distinct(q) /\ ToSet(o) \cap ToSet(q) = {}
      BY <1>2, <1>8, <2>3 DEF AgreesWith
    <3>2. p = o \o q
      BY <2>1
    <3> QED BY <1>2, <2>3, <3>1, <3>2, HoldsBoth
  <2>5. /\ W \in [Site -> Levels] /\ W[s] = a.follow[s] /\ a.follow[s] # "none"
        /\ \A x \in Site \ {s} : W[x] = a.want[x]
    BY <1>2, <1>11, <2>1 DEF Account, Enriches
  <2>6. /\ b \in Account /\ b.queue = p /\ b.want = W /\ b.run = R /\ b.task = a.task
        /\ b.pending = Q /\ b.overflow = O /\ b.follow = F
    <3>1. Q \subseteq Site
      BY <1>2, <1>4, <2>1 DEF Account
    <3> QED BY <1>7, <2>2, <2>4, <2>5, <3>1 DEF Account
  <2>7. AgreesWith(b, p)
    <3> SUFFICES ASSUME NEW x \in Site
                 PROVE  /\ W[x] # "none" <=> x \in ToSet(p)
                        /\ x \in ToSet(p) => R[x] = "none"
                        /\ x \in Q <=> x \in ToSet(p) \/ R[x] # "none"
                        /\ F[x] # "none" => R[x] = "metadata" /\ Enriches(F[x])
      <4>1. O \subseteq Q
        BY <1>9, <2>1
      <4> QED BY <1>9, <2>4, <2>6, <4>1 DEF AgreesWith
    <3>1. /\ a.want[x] # "none" <=> x \in ToSet(q)
          /\ x \in ToSet(q) => a.run[x] = "none"
          /\ x \in a.pending <=> x \in ToSet(q) \/ a.run[x] # "none"
          /\ a.follow[x] # "none" => a.run[x] = "metadata" /\ Enriches(a.follow[x])
      BY <1>2 DEF AgreesWith
    <3>2. Q = P \cup {s} /\ P = a.pending \ {s}
      BY <1>4, <2>1
    <3> QED BY <1>6, <1>8, <2>4, <2>5, <3>1, <3>2
  <2>8. Q \subseteq a.pending
    BY <1>4, <1>8, <2>1
  <2> QED BY <1>6, <1>11, <2>5, <2>6, <2>7, <2>8 DEF Agrees
<1> QED BY <1>10, <1>11

-----------------------------------------------------------------------------
(* Callers and workers through a step. *)

\* A caller stays with its site, and does not begin to wait for an own enrichment.
Stays(k, n) == /\ n \in Call /\ n.site = k.site
               /\ n.pc = "out" <=> k.pc = "out"
               /\ n.pc \in {"join", "own"} => n.pc = k.pc

Results == {"complete", "failed", "none", "cancelled"}

LEMMA HeardFacts ==
  ASSUME NEW pc \in {"join", "own", "behind"}, NEW result \in Results
  PROVE  /\ Heard(pc, result) \in {"answered", "poll", "check", "look", "cancelled"}
         /\ Heard(pc, result) = "answered" => \/ pc \in {"join", "own"} /\ result # "cancelled"
                                              \/ result = "failed"
BY DEF Heard, Results

\* A caller that hears of a result no longer waits for it.
LEMMA ToldFacts ==
  ASSUME NEW c \in Caller, caller[c] \in Call, NEW s, NEW result \in Results,
         NEW n, n = Told(c, s, result)
  PROVE  /\ Stays(caller[c], n) /\ n.marked = caller[c].marked /\ n.served = caller[c].served
         /\ n.pc \in {"join", "own"} => caller[c].site # s
         /\ n.pc = "answered" /\ caller[c].pc # "answered" =>
              /\ caller[c].site = s
              /\ \/ caller[c].pc \in {"join", "own"} /\ result # "cancelled"
                 \/ result = "failed"
<1>1. PICK k : k = caller[c]
  OBVIOUS
<1>2. CASE Awaiting(c, s, {"join", "own", "behind"})
  <2>1. k.site = s /\ k.pc \in {"join", "own", "behind"} /\ k \in Call
    BY <1>1, <1>2 DEF Awaiting
  <2>2. PICK h : h = Heard(k.pc, result)
    OBVIOUS
  <2>3. n = [k EXCEPT !.pc = h]
    BY <1>1, <1>2, <2>2 DEF Told
  <2>4. /\ h \in {"answered", "poll", "check", "look", "cancelled"}
        /\ h = "answered" => \/ k.pc \in {"join", "own"} /\ result # "cancelled"
                             \/ result = "failed"
    BY <2>1, <2>2, HeardFacts
  <2>5. n \in Call /\ n.pc = h /\ n.site = k.site /\ n.marked = k.marked /\ n.served = k.served
    BY <2>1, <2>3, <2>4 DEF Call, CallerPC
  <2> QED BY <1>1, <2>1, <2>4, <2>5 DEF Stays
<1>3. CASE ~Awaiting(c, s, {"join", "own", "behind"})
  <2>1. n = k
    BY <1>1, <1>3 DEF Told
  <2> QED BY <1>1, <1>3, <2>1 DEF Stays, Awaiting
<1> QED BY <1>2, <1>3

\* What a completion does to the callers.
LEMMA Resolved ==
  ASSUME caller \in [Caller -> Call], NEW s, NEW result \in Results, NEW attempt \in BOOLEAN,
         NEW wrote \in BOOLEAN, Resolve(s, result, attempt, wrote)
  PROVE  /\ caller' \in [Caller -> Call]
         /\ \A c \in Caller :
              /\ Stays(caller[c], caller'[c])
              /\ caller'[c].pc \in {"join", "own"} => caller[c].site # s
              /\ caller'[c].pc = "answered" /\ caller[c].pc # "answered" =>
                   /\ caller[c].site = s /\ (attempt => caller'[c].served)
                   /\ \/ caller[c].pc \in {"join", "own"} /\ result # "cancelled"
                      \/ result = "failed"
<1>1. ASSUME NEW c \in Caller
      PROVE  /\ caller'[c] \in Call
             /\ Stays(caller[c], caller'[c])
             /\ caller'[c].pc \in {"join", "own"} => caller[c].site # s
             /\ caller'[c].pc = "answered" /\ caller[c].pc # "answered" =>
                  /\ caller[c].site = s /\ (attempt => caller'[c].served)
                  /\ \/ caller[c].pc \in {"join", "own"} /\ result # "cancelled"
                     \/ result = "failed"
  <2>1. PICK n, m : n = Told(c, s, result) /\ m = caller'[c]
    OBVIOUS
  <2>2. m = Noted(n, s, attempt, wrote)
    BY <2>1 DEF Resolve
  <2>3. /\ Stays(caller[c], n)
        /\ n.pc \in {"join", "own"} => caller[c].site # s
        /\ n.pc = "answered" /\ caller[c].pc # "answered" =>
              /\ caller[c].site = s
              /\ \/ caller[c].pc \in {"join", "own"} /\ result # "cancelled"
                 \/ result = "failed"
    BY <2>1, ToldFacts
  <2>4. n \in Call /\ n.site = caller[c].site
    BY <2>3 DEF Stays
  <2>5. m \in Call /\ m.pc = n.pc /\ m.site = n.site /\ (n.site = s /\ attempt => m.served)
    <3>1. CASE n.site # s
      BY <2>2, <2>4, <3>1 DEF Noted
    <3>2. CASE n.site = s
      <4>1. PICK x, y : x = (n.served \/ attempt) /\ y = (n.marked \/ wrote)
        OBVIOUS
      <4>2. x \in BOOLEAN /\ y \in BOOLEAN /\ (attempt => x)
        BY <2>4, <4>1 DEF Call
      <4>3. m = [n EXCEPT !.served = x, !.marked = y]
        BY <2>2, <3>2, <4>1 DEF Noted
      <4>4. m \in Call /\ m.pc = n.pc /\ m.site = n.site /\ m.served = x
        BY <2>4, <4>2, <4>3 DEF Call
      <4> QED BY <4>2, <4>4
    <3> QED BY <3>1, <3>2
  <2> QED BY <2>1, <2>3, <2>4, <2>5 DEF Stays
<1> QED BY <1>1 DEF Resolve

\* A caller that waits is answered in time if its enrichment is still asked for.
LEMMA WaitStill ==
  ASSUME WaitOK, \A c \in Caller : Stays(caller[c], caller'[c]),
         \A c \in Caller : caller'[c].pc \in {"join", "own"} =>
            ("own" \in {acct.want[caller[c].site], acct.run[caller[c].site]} =>
             "own" \in {acct'.want[caller[c].site], acct'.run[caller[c].site]})
  PROVE  WaitOK'
BY DEF WaitOK, Stays

\* Callers whose completion is dropped, or cancelled.
LEMMA Dropped ==
  ASSUME caller \in [Caller -> Call], NEW S,
         \/ caller' = Abandoned(S)
         \/ caller' = [c \in Caller |-> IF caller[c].site \in S THEN Told(c, caller[c].site, "cancelled")
                                        ELSE caller[c]]
  PROVE  /\ caller' \in [Caller -> Call]
         /\ \A c \in Caller :
              /\ Stays(caller[c], caller'[c])
              /\ caller'[c].pc \in {"join", "own"} => caller[c].site \notin S
              /\ caller'[c].pc = "answered" => caller[c].pc = "answered"
<1>1. CASE caller' = Abandoned(S)
  <2>1. ASSUME NEW c \in Caller
        PROVE  /\ caller'[c] \in Call /\ Stays(caller[c], caller'[c])
               /\ caller'[c].pc \in {"join", "own"} => caller[c].site \notin S
               /\ caller'[c].pc = "answered" => caller[c].pc = "answered"
    <3>1. PICK k, n : k = caller[c] /\ n = caller'[c]
      OBVIOUS
    <3>2. k \in Call /\ n = IF k.site \in S /\ k.pc \in {"join", "own", "behind"}
                           THEN [k EXCEPT !.pc = "lost"] ELSE k
      BY <1>1, <3>1 DEF Abandoned
    <3> QED BY <3>1, <3>2 DEF Call, CallerPC, Stays
  <2> QED BY <1>1, <2>1 DEF Abandoned
<1>2. CASE caller' = [c \in Caller |-> IF caller[c].site \in S THEN Told(c, caller[c].site, "cancelled")
                                       ELSE caller[c]]
  <2>1. ASSUME NEW c \in Caller
        PROVE  /\ caller'[c] \in Call /\ Stays(caller[c], caller'[c])
               /\ caller'[c].pc \in {"join", "own"} => caller[c].site \notin S
               /\ caller'[c].pc = "answered" => caller[c].pc = "answered"
    <3>1. CASE caller[c].site \in S
      <4>1. PICK n, s : n = Told(c, s, "cancelled") /\ s = caller[c].site
        OBVIOUS
      <4>2. caller'[c] = n /\ "cancelled" \in Results
        BY <1>2, <3>1, <4>1 DEF Results
      <4>3. /\ Stays(caller[c], n)
            /\ n.pc \in {"join", "own"} => caller[c].site # s
            /\ n.pc = "answered" => caller[c].pc = "answered"
        BY <4>1, <4>2, ToldFacts
      <4> QED BY <4>1, <4>2, <4>3 DEF Stays
    <3>2. CASE caller[c].site \notin S
      BY <1>2, <3>2 DEF Stays
    <3> QED BY <3>1, <3>2
  <2> QED BY <1>2, <2>1
<1> QED BY <1>1, <1>2

\* The entries that run stay what they are, but for requests that raise them.
SameRuns == \A s \in Site : /\ acct.run[s] = "none" <=> acct'.run[s] = "none"
                            /\ acct.run[s] = "metadata" <=> acct'.run[s] = "metadata"

\* Consumers keep working; sweepers keep working, or all are off and a sweep begins.
LEMMA WorkStill ==
  ASSUME Typed, acct' \in Account, WorkOK, LevelOK, SameRuns,
         worker' \in [Worker -> Task],
         \A w \in Worker : \/ worker'[w] = worker[w]
                           \/ /\ worker[w].pc \notin {"slot", "busy"}
                              /\ worker'[w].pc \notin {"slot", "busy"}
                              /\ w \in Consumer => worker'[w].pc # "query",
         \A w \in Sweeper : Working(w) => SiteOf(w) \in auto'.pending
  PROVE  WorkOK' /\ LevelOK'
<1>0. /\ \A w \in Worker : worker[w] \in Task
      /\ \A w \in Consumer \cup Sweeper : w \in Worker
      /\ \A s \in Site : acct.run[s] \in Levels /\ acct'.run[s] \in Levels
  BY DEF Typed, Account, Worker
<1>1. \A w \in Worker : /\ Working(w)' <=> Working(w)
                        /\ Working(w) => worker'[w] = worker[w] /\ SiteOf(w)' = SiteOf(w)
  BY DEF Working, SiteOf
<1>2. WorkOK'
  BY <1>0, <1>1 DEF WorkOK, SameRuns
<1>3. LevelOK'
  <2> SUFFICES ASSUME NEW w \in Consumer, worker'[w].pc = "busy", Enriches(acct'.run[SiteOf(w)'])
               PROVE  Enriches(worker'[w].level)
    BY DEF LevelOK
  <2>1. worker'[w] = worker[w] /\ worker[w].pc = "busy" /\ SiteOf(w)' = SiteOf(w)
    BY <1>0 DEF SiteOf
  <2>2. SiteOf(w) \in Site
    BY <1>0, <2>1 DEF WorkOK, Working
  <2>3. Enriches(acct.run[SiteOf(w)])
    BY <1>0, <2>1, <2>2 DEF SameRuns, Enriches, Levels
  <2> QED BY <2>1, <2>3 DEF LevelOK
<1> QED BY <1>2, <1>3

\* Claims in the rows are not made, and those that stay are of workers that stay.
LEMMA ClaimStill ==
  ASSUME ClaimOK,
         \A s \in Site : site'[s].owner \in Worker =>
            /\ site'[s].owner = site[s].owner /\ site'[s].status = site[s].status
            /\ worker[site[s].owner].pc = "busy" => worker'[site[s].owner] = worker[site[s].owner]
  PROVE  ClaimOK'
BY DEF ClaimOK, SiteOf

LEMMA InvNext ==
  ASSUME Typed', Agrees(acct'), Leases(acct', auto'), WorkOK', LevelOK', TaskOK', ClaimOK', WaitOK', OwedOK'
  PROVE  QueueInv'
BY DEF QueueInv, Agrees, AgreesWith, Leases

\* A step of callers alone.
LEMMA CallersMove ==
  ASSUME QueueInv, UNCHANGED <<site, acct, auto, worker, service, owed, announced>>,
         caller' \in [Caller -> Call], WaitOK'
  PROVE  QueueInv'
<1>1. Typed' /\ Agrees(acct') /\ Leases(acct', auto')
  BY DEF QueueInv, Typed, Worker
<1>2. WorkOK'
  BY DEF QueueInv, WorkOK, Working, SiteOf
<1>3. LevelOK' /\ TaskOK' /\ ClaimOK'
  BY DEF QueueInv, LevelOK, TaskOK, ClaimOK, SiteOf, Alive
<1>4. OwedOK'
  BY DEF QueueInv, OwedOK, Up
<1> QED BY <1>1, <1>2, <1>3, <1>4, InvNext

\* A caller moves on; it keeps its site, and a caller that joins joins an own enrichment.
LEMMA CallerMoves ==
  ASSUME Typed, WaitOK, NEW c \in Caller, NEW n \in Call, caller' = [caller EXCEPT ![c] = n],
         n.pc # "out" => n.site \in Site, n.pc \notin {"join", "own"},
         UNCHANGED acct
  PROVE  caller' \in [Caller -> Call] /\ WaitOK'
BY DEF Typed, WaitOK

\* A request to wait, and the steps of a caller that looks again, polls or gives up.
LEMMA WaitsKeep ==
  ASSUME QueueInv, NEW c \in Caller, NEW s \in Site,
         Ask(c, s) \/ JoinSweep(c) \/ Check(c) \/ Poll(c) \/ PollDeadline(c) \/ TurnedAway(c)
  PROVE  QueueInv'
<1>1. Typed /\ WaitOK /\ caller[c] \in Call
  BY DEF QueueInv, Typed
<1>2. PICK k : k = caller[c]
  OBVIOUS
<1>3. k \in Call /\ (k.pc # "out" => k.site \in Site) /\ Out \in Call
  BY <1>1, <1>2 DEF WaitOK, Out, Call, CallerPC
<1>4. UNCHANGED <<site, acct, auto, worker, service, owed, announced>>
  BY DEF Ask, JoinSweep, Check, Poll, PollDeadline, TurnedAway
<1>5. CASE Ask(c, s)
  <2>1. PICK n : n = [Out EXCEPT !.pc = "look", !.site = s]
    OBVIOUS
  <2>2. n \in Call /\ n.pc = "look" /\ n.site = s /\ caller' = [caller EXCEPT ![c] = n]
    BY <1>3, <1>5, <2>1 DEF Ask, Call, CallerPC, Out
  <2>3. caller' \in [Caller -> Call] /\ WaitOK'
    BY <1>1, <1>4, <2>2, CallerMoves
  <2> QED BY <1>4, <2>3, CallersMove
<1>6. CASE JoinSweep(c) \/ Check(c) \/ Poll(c) \/ PollDeadline(c) \/ TurnedAway(c)
  <2>1. \E p \in {"behind", "answered", "look", "full"} : caller' = [caller EXCEPT ![c].pc = p] /\ k.pc # "out"
    BY <1>2, <1>6 DEF JoinSweep, Check, Poll, PollDeadline, TurnedAway
  <2>2. PICK p \in {"behind", "answered", "look", "full"} : caller' = [caller EXCEPT ![c].pc = p] /\ k.pc # "out"
    BY <2>1
  <2>3. PICK n : n = [k EXCEPT !.pc = p]
    OBVIOUS
  <2>4. n \in Call /\ n.pc = p /\ n.site = k.site /\ caller' = [caller EXCEPT ![c] = n]
    BY <1>2, <1>3, <2>2, <2>3 DEF Call, CallerPC
  <2>5. caller' \in [Caller -> Call] /\ WaitOK'
    BY <1>1, <1>3, <1>4, <2>2, <2>4, CallerMoves
  <2> QED BY <1>4, <2>5, CallersMove
<1> QED BY <1>5, <1>6

-----------------------------------------------------------------------------
(* Requests: the queue is fed, a sweep is told or begins. *)

TaskAsked(a, b) == b.task = a.task \/ (a.task \in {"none", "done"} /\ b.task = "created")

LEMMA Requested ==
  ASSUME QueueInv, UNCHANGED <<site, service>>,
         Agrees(acct'), Leases(acct', auto'), Stronger(acct, acct'), TaskAsked(acct, acct'),
         \/ SweepTold(auto, auto') /\ worker' = worker
         \/ ~Alive(auto) /\ Alive(auto') /\ worker' = SweepersReady(TRUE),
         caller' \in [Caller -> Call], WaitOK', OwedOK',
         owed' \subseteq Site, announced' \subseteq {"sweep", "save"} \X Site
  PROVE  QueueInv'
<1>1. /\ Typed /\ TaskOK /\ WorkOK /\ LevelOK /\ ClaimOK /\ \A w \in Worker : worker[w] \in Task
      /\ acct' \in Account /\ auto' \in Sweep
  BY DEF QueueInv, Typed, Agrees, Leases
<1>2. /\ worker' \in [Worker -> Task]
      /\ \A w \in Worker : \/ worker'[w] = worker[w]
                           \/ w \in Sweeper /\ worker[w].pc = "off" /\ worker'[w].pc = "ready"
  <2>1. CASE worker' = worker
    BY <1>1, <2>1 DEF Typed
  <2>2. CASE ~Alive(auto) /\ worker' = SweepersReady(TRUE)
    <3>1. [Off EXCEPT !.pc = "ready"] \in Task /\ [Off EXCEPT !.pc = "ready"].pc = "ready"
      BY DEF Off, Task, Levels
    <3>2. \A w \in Sweeper : worker[w].pc = "off"
      BY <1>1, <2>2 DEF TaskOK
    <3> QED BY <1>1, <2>2, <3>1, <3>2 DEF SweepersReady
  <2> QED BY <2>1, <2>2
<1>3. SameRuns
  BY DEF Stronger, SameRuns
<1>4. \A w \in Sweeper : Working(w) => SiteOf(w) \in auto'.pending
  BY <1>1 DEF TaskOK, Working, WorkOK, SweepTold
<1>5. \A w \in Consumer : w \notin Sweeper /\ w \in Worker
  BY Workers DEF Worker
<1>6. WorkOK' /\ LevelOK'
  <2>1. \A w \in Worker : \/ worker'[w] = worker[w]
                          \/ /\ worker[w].pc \notin {"slot", "busy"}
                             /\ worker'[w].pc \notin {"slot", "busy"}
                             /\ w \in Consumer => worker'[w].pc # "query"
    BY <1>2
  <2> QED BY <1>1, <1>2, <1>3, <1>4, <2>1, WorkStill
<1>7. TaskOK'
  <2>1. acct'.task \in {"none", "created", "done"} => \A w \in Consumer : worker'[w].pc = "off"
    BY <1>1, <1>2, <1>5 DEF TaskOK, TaskAsked
  <2>2. ~Alive(auto') => \A w \in Sweeper : worker'[w].pc = "off"
    BY <1>1 DEF TaskOK, SweepTold, Alive
  <2> QED BY <2>1, <2>2 DEF TaskOK, Alive
<1>8. ClaimOK'
  <2>1. \A w \in Worker : worker[w].pc = "busy" => worker'[w] = worker[w]
    BY <1>2
  <2> QED BY <1>1, <2>1, ClaimStill
<1>9. Typed'
  BY <1>1, <1>2 DEF Typed, Worker
<1> QED BY <1>6, <1>7, <1>8, <1>9, InvNext

\* What a request leaves covered, callers included.
LEMMA RequestOwes ==
  ASSUME QueueInv, NEW r \in Requests, NEW D \in SUBSET Site, NEW t, ScheduledOK(acct, auto, r, D, t)
  PROVE  /\ Up => \A s \in owed \cup Owes(r, t) : Covered(t.acct, t.auto, s)
         /\ owed \cup Owes(r, t) \subseteq Site /\ t.accepted \subseteq Site
<1>1. owed \subseteq Site /\ t.accepted \subseteq Site
  BY DEF QueueInv, Typed, ScheduledOK
<1>2. ASSUME Up, NEW s \in owed PROVE Covered(t.acct, t.auto, s)
  <2>1. Covered(acct, auto, s)
    BY <1>2 DEF QueueInv, OwedOK, Covered
  <2> QED BY <1>1, <2>1, CoveredStill DEF ScheduledOK
<1>3. \A s \in Owes(r, t) : Covered(t.acct, t.auto, s)
  BY DEF Owes, ScheduledOK
<1> QED BY <1>1, <1>2, <1>3 DEF Owes

\* Whoever waited for an own enrichment still does.
LEMMA RequestWaits ==
  ASSUME QueueInv, Stronger(acct, acct'), \A c \in Caller : Stays(caller[c], caller'[c])
  PROVE  WaitOK'
<1>1. \A c \in Caller : caller'[c].pc \in {"join", "own"} => caller[c].site \in Site
  BY DEF QueueInv, WaitOK, Stays
<1> QED BY <1>1, WaitStill DEF QueueInv, Stronger

\* A sweep that begins.
LEMMA SweepBegins ==
  ASSUME NEW d, d = [NoSweep EXCEPT !.task = "running"]
  PROVE  /\ d \in Sweep /\ Alive(d) /\ d.pending = {} /\ \A s \in Site : d.follow[s] = "none"
         /\ NoSweep \in Sweep /\ ~Alive(NoSweep) /\ NoSweep.pending = {}
         /\ \A s \in Site : NoSweep.follow[s] = "none"
BY DEF NoSweep, Sweep, Alive, NoLevels, Levels

\* A handler that schedules and ensures a sweep.
LEMMA HandleKeeps ==
  ASSUME QueueInv, NEW r \in Requests, NEW sites \in Seq(Site), Distinct(sites),
         NEW always \in BOOLEAN, NEW rescan \in BOOLEAN, Handle(r, sites, always, rescan)
  PROVE  QueueInv'
<1> DEFINE ensures(t) == always \/ t.rejected # {}
<1>1. PICK others, t, d :
        /\ others \in Elsewhere
        /\ t = Scheduled(r, sites, acct, auto, others)
        /\ d = IF ensures(t) THEN Ensured(t.auto, rescan) ELSE t.auto
        /\ acct' = t.acct /\ auto' = d
        /\ worker' = SweepersReady(Alive(d) /\ ~Alive(auto))
        /\ owed' = (owed \cup Owes(r, t)) \ Replaced(d)
        /\ caller' = Abandoned(Replaced(d))
        /\ announced' = announced
              \cup (IF ensures(t) /\ rescan /\ Up THEN {"sweep"} \X (New \ t.acct.pending) ELSE {})
              \cup (IF r.interactive /\ Up THEN {"save"} \X (New \cap t.accepted) ELSE {})
  BY ZenonT(60) DEF Handle
<1>2. UNCHANGED <<site, service>>
  BY DEF Handle
<1>3. Agrees(acct) /\ Leases(acct, auto) /\ Typed /\ TaskOK /\ caller \in [Caller -> Call]
      /\ \A w \in Worker : worker[w] \in Task
  BY DEF QueueInv, Typed
<1>4. ToSet(sites) \subseteq Site
  BY Holds
<1>5. ScheduledOK(acct, auto, r, ToSet(sites), t)
  BY <1>1, <1>3, ScheduledFacts
<1>6. /\ Up => \A s \in owed \cup Owes(r, t) : Covered(t.acct, t.auto, s)
      /\ owed \cup Owes(r, t) \subseteq Site
  BY <1>4, <1>5, RequestOwes
<1>7. /\ Agrees(t.acct) /\ Leases(t.acct, t.auto) /\ Stronger(acct, t.acct) /\ SweepTold(auto, t.auto)
      /\ TaskAsked(acct, t.acct) /\ t.auto \in Sweep
  BY <1>5 DEF ScheduledOK, TaskAsked, Leases
<1>8. Stronger(acct, acct') /\ Agrees(acct') /\ TaskAsked(acct, acct')
  BY <1>1, <1>7
<1>9. caller' \in [Caller -> Call] /\ \A c \in Caller : Stays(caller[c], caller'[c])
  BY <1>1, <1>3, Dropped
<1>10. WaitOK'
  BY <1>8, <1>9, RequestWaits
<1>11. announced' \subseteq {"sweep", "save"} \X Site
  <2>1. New \subseteq Site
    BY DEF New
  <2> QED BY <1>1, <1>3, <2>1 DEF Typed
<1>12. owed' \subseteq Site
  BY <1>1, <1>6
<1>13. CASE ~(Alive(d) /\ ~Alive(auto))
  <2>1. worker' = worker /\ Replaced(d) = {}
    BY <1>1, <1>3, <1>13 DEF SweepersReady, Replaced, Typed
  <2>2. PICK v : v = (t.auto.rescan \/ rescan)
    OBVIOUS
  <2>3. d = t.auto \/ d = [t.auto EXCEPT !.rescan = v]
    <3>1. Alive(t.auto) <=> Alive(auto)
      BY <1>7 DEF SweepTold, Alive
    <3>2. CASE ensures(t) /\ Up /\ ~Alive(t.auto)
      <4>1. d = [NoSweep EXCEPT !.task = "running"]
        BY <1>1, <3>2 DEF Ensured
      <4> QED BY <1>13, <3>1, <3>2, <4>1, SweepBegins
    <3> QED BY <1>1, <2>2, <3>2 DEF Ensured
  <2>4. v \in BOOLEAN
    BY <1>7, <2>2 DEF Sweep
  <2>5. /\ d \in Sweep /\ d.task = t.auto.task /\ d.pending = t.auto.pending /\ d.follow = t.auto.follow
        /\ d.candidates = t.auto.candidates /\ d.excluded = t.auto.excluded
    BY <1>7, <2>3, <2>4 DEF Sweep
  <2>6. SweepTold(auto, auto') /\ Leases(acct', auto')
    BY <1>1, <1>7, <2>5 DEF SweepTold, Leases
  <2>7. OwedOK'
    BY <1>1, <1>2, <1>6, <2>5 DEF OwedOK, Covered, Up
  <2> QED BY <1>2, <1>8, <1>9, <1>10, <1>11, <1>12, <2>1, <2>6, <2>7, Requested
<1>14. CASE Alive(d) /\ ~Alive(auto)
  <2>1. worker' = SweepersReady(TRUE) /\ Replaced(d) = auto.pending
    BY <1>1, <1>14 DEF Replaced
  <2>2. ~Alive(t.auto)
    BY <1>7, <1>14 DEF SweepTold, Alive
  <2>3. d = [NoSweep EXCEPT !.task = "running"]
    BY <1>1, <1>14, <2>2 DEF Ensured
  <2>4. d \in Sweep /\ d.pending = {} /\ \A s \in Site : d.follow[s] = "none"
    BY <2>3, SweepBegins
  <2>5. Leases(acct', auto')
    BY <1>1, <2>4 DEF Leases
  <2>6. OwedOK'
    <3> SUFFICES ASSUME Up, NEW s \in owed'
                 PROVE  Enriches(acct'.want[s]) \/ Enriches(acct'.run[s]) \/ Enriches(acct'.follow[s])
      BY <1>2 DEF OwedOK, Up
    <3>1. Covered(t.acct, t.auto, s) /\ s \in Site /\ s \notin auto.pending
      BY <1>1, <1>6, <2>1
    <3>2. s \notin t.auto.pending /\ ~Enriches(t.auto.follow[s])
      BY <1>7, <3>1 DEF SweepTold, Leases, Enriches
    <3> QED BY <1>1, <3>1, <3>2 DEF Covered
  <2> QED BY <1>1, <1>2, <1>8, <1>9, <1>10, <1>11, <1>12, <1>14, <2>1, <2>5, <2>6, Requested
<1> QED BY <1>13, <1>14

\* The five requests that feed the queue.
LEMMA AsksKeep == QueueInv /\ Asks => QueueInv'
<1> SUFFICES ASSUME QueueInv, Asks PROVE QueueInv'
  OBVIOUS
<1>1. \A p, i \in BOOLEAN, l \in Levels \ {"none"} : Request(p, i, l) \in Requests
  BY DEF Request, Requests
<1>2. {"own", "bulk", "metadata"} \subseteq Levels \ {"none"} /\ New \subseteq Site
  BY DEF Levels, New
<1>3. ASSUME NEW s \in Site, Save(s) PROVE QueueInv'
  <2>1. PICK sites : sites = <<s>>
    OBVIOUS
  <2>2. sites \in Seq(Site) /\ Distinct(sites)
    BY <2>1, HoldsOne
  <2>3. Handle(Request(TRUE, TRUE, "own"), sites, FALSE, TRUE)
    BY <1>3, <2>1 DEF Save
  <2> HIDE <2>1
  <2> QED BY <1>1, <1>2, <2>2, <2>3, HandleKeeps
<1>4. ASSUME NEW S \in SUBSET Site, NEW order \in SetToSeqs(S), NEW p \in BOOLEAN,
             NEW l \in {"bulk", "metadata"}, NEW always \in BOOLEAN, NEW rescan \in BOOLEAN,
             Handle(Request(p, FALSE, l), order, always, rescan)
      PROVE  QueueInv'
  <2>1. order \in Seq(Site) /\ Distinct(order)
    BY Ordered
  <2> QED BY <1>1, <1>2, <1>4, <2>1, HandleKeeps
<1>5. CASE List
  BY <1>2, <1>4, <1>5 DEF List
<1>6. CASE SaveBatch
  BY <1>2, <1>4, <1>6 DEF SaveBatch
<1>7. CASE AnalyzeMissing
  <2>1. PICK S : S = {s \in Site \ Busy : site[s].status \in {"new", "failed"}}
    OBVIOUS
  <2>2. S \in SUBSET Site /\ \E order \in SetToSeqs(S) : Handle(Request(FALSE, FALSE, "metadata"), order, FALSE, TRUE)
    BY <1>7, <2>1 DEF AnalyzeMissing
  <2> QED BY <1>4, <2>2
<1>8. CASE Imported
  BY <1>2, <1>4, <1>8 DEF Imported
<1> QED BY <1>3, <1>5, <1>6, <1>7, <1>8 DEF Asks

\* A caller whose enrichment is now asked for waits for it.
LEMMA CallerJoins ==
  ASSUME QueueInv, Stronger(acct, acct'), NEW c \in Caller, NEW n \in Call,
         caller' = [caller EXCEPT ![c] = n], n.pc # "out" => n.site \in Site,
         n.pc \in {"join", "own"} => "own" \in {acct'.want[n.site], acct'.run[n.site]}
  PROVE  caller' \in [Caller -> Call] /\ WaitOK'
<1>1. caller \in [Caller -> Call] /\ WaitOK
  BY DEF QueueInv, Typed
<1>2. caller' \in [Caller -> Call] /\ caller'[c] = n /\ \A k \in Caller \ {c} : caller'[k] = caller[k]
  BY <1>1
<1>3. ASSUME NEW k \in Caller \ {c}
      PROVE  /\ caller'[k].pc # "out" => caller'[k].site \in Site
             /\ caller'[k].pc \in {"join", "own"} =>
                   "own" \in {acct'.want[caller'[k].site], acct'.run[caller'[k].site]}
  BY <1>1, <1>2 DEF WaitOK, Stronger
<1> QED BY <1>2, <1>3 DEF WaitOK

\* A caller joins an analysis, or waits behind a metadata pass.
LEMMA JoinKeeps ==
  ASSUME QueueInv, NEW c \in Caller, Join(c)
  PROVE  QueueInv'
<1>1. PICK s, k : s = caller[c].site /\ k = caller[c]
  OBVIOUS
<1>2. /\ k \in Call /\ s \in acct.pending /\ s \in Site /\ k.pc = "look" /\ k.site = s
      /\ Agrees(acct) /\ Leases(acct, auto) /\ acct \in Account /\ Typed
  BY <1>1 DEF QueueInv, Typed, Join, WaitOK, Agrees, Account
<1>3. UNCHANGED <<site, auto, worker, service, announced>>
  BY DEF Join
<1>4. CASE acct.run[s] = "metadata"
  <2>1. acct' = acct /\ owed' = owed /\ caller' = [caller EXCEPT ![c].pc = "behind"]
    BY <1>1, <1>4 DEF Join
  <2>2. PICK n : n = [k EXCEPT !.pc = "behind"]
    OBVIOUS
  <2>3. n \in Call /\ n.pc = "behind" /\ n.site = s /\ caller' = [caller EXCEPT ![c] = n]
    BY <1>1, <1>2, <2>1, <2>2 DEF Call, CallerPC
  <2>4. caller' \in [Caller -> Call] /\ WaitOK'
    BY <1>2, <2>1, <2>3, CallerMoves DEF QueueInv
  <2> QED BY <1>3, <2>1, <2>4, CallersMove
<1>5. CASE acct.run[s] # "metadata"
  <2>1. /\ acct' = Raised(acct, s, "own") /\ owed' = owed \cup {s}
        /\ caller' = [caller EXCEPT ![c].pc = "join"]
    BY <1>1, <1>5 DEF Join
  <2>2. PICK b, q : b = Raised(acct, s, "own") /\ q = acct.queue
    OBVIOUS
  <2>3. "own" \in Levels /\ Enriches("own") /\ (s \in ToSet(q) <=> s \in Queued(acct)) /\ AgreesWith(acct, q)
    BY <1>2, <2>2 DEF Levels, Enriches, Queued, Agrees
  <2>4. /\ b \in Account /\ AgreesWith(b, q) /\ Stronger(acct, b)
        /\ b.queue = q /\ b.task = acct.task /\ b.pending = acct.pending
        /\ Enriches(b.want[s]) \/ Enriches(b.run[s]) \/ Enriches(b.follow[s])
        /\ "own" \in {b.want[s], b.run[s]}
    BY <1>2, <1>5, <2>2, <2>3, RaisedFacts
  <2>5. /\ Agrees(acct') /\ Leases(acct', auto') /\ Stronger(acct, acct') /\ TaskAsked(acct, acct')
        /\ SweepTold(auto, auto')
    BY <1>2, <1>3, <2>1, <2>2, <2>4 DEF Agrees, Leases, TaskAsked, SweepTold
  <2>6. PICK n : n = [k EXCEPT !.pc = "join"]
    OBVIOUS
  <2>7. n \in Call /\ n.pc = "join" /\ n.site = s /\ caller' = [caller EXCEPT ![c] = n]
    BY <1>1, <1>2, <2>1, <2>6 DEF Call, CallerPC
  <2>8. caller' \in [Caller -> Call] /\ WaitOK'
    BY <1>2, <2>1, <2>2, <2>4, <2>5, <2>7, CallerJoins
  <2>9. OwedOK'
    <3> SUFFICES ASSUME Up, NEW x \in owed \cup {s} PROVE Covered(acct', auto', x)
      BY <1>3, <2>1 DEF OwedOK, Up, Covered
    <3>1. CASE x = s
      BY <2>1, <2>2, <2>4, <3>1 DEF Covered
    <3>2. CASE x \in owed
      <4>1. Covered(acct, auto, x) /\ x \in Site
        BY <3>2 DEF QueueInv, OwedOK, Covered, Typed
      <4> QED BY <2>5, <4>1, CoveredStill
    <3> QED BY <3>1, <3>2
  <2>10. owed' \subseteq Site /\ announced' \subseteq {"sweep", "save"} \X Site
    BY <1>2, <1>3, <2>1 DEF Typed
  <2> QED BY <1>3, <2>5, <2>8, <2>9, <2>10, Requested
<1> QED BY <1>4, <1>5

\* A caller asks for a place in the queue.
LEMMA AskQueueKeeps ==
  ASSUME QueueInv, NEW c \in Caller, AskQueue(c)
  PROVE  QueueInv'
<1>1. PICK s, k, sites, r :
        s = caller[c].site /\ k = caller[c] /\ sites = <<s>> /\ r = Request(TRUE, TRUE, "own")
  OBVIOUS
<1>2. /\ k \in Call /\ s \notin acct.pending /\ s \notin auto.pending /\ s \in Site
      /\ k.pc = "look" /\ k.site = s
      /\ Agrees(acct) /\ Leases(acct, auto) /\ Typed /\ UNCHANGED <<site, auto, worker, service, announced>>
  BY <1>1 DEF QueueInv, Typed, AskQueue, WaitOK, Busy
<1>3. PICK others \in Elsewhere :
        LET t == Scheduled(r, sites, acct, auto, others)
        IN  /\ acct' = t.acct
            /\ owed' = owed \cup t.accepted
            /\ caller' = [caller EXCEPT ![c].pc = IF t.rejected # {} THEN "full" ELSE "own"]
  BY <1>1, Zenon DEF AskQueue
<1>4. PICK t : t = Scheduled(r, sites, acct, auto, others)
  OBVIOUS
<1>5. /\ acct' = t.acct /\ owed' = owed \cup t.accepted
      /\ caller' = [caller EXCEPT ![c].pc = IF t.rejected # {} THEN "full" ELSE "own"]
  BY <1>3, <1>4
<1>6. r \in Requests /\ r.level = "own" /\ Enriches(r.level)
  BY <1>1 DEF Request, Requests, Levels, Enriches
<1>7. sites \in Seq(Site) /\ Distinct(sites) /\ ToSet(sites) = {s}
  BY <1>1, <1>2, HoldsOne
<1>8. ScheduledOK(acct, auto, r, {s}, t)
  <2> HIDE <1>1
  <2>1. others \in Elsewhere
    OBVIOUS
  <2>2. ScheduledOK(acct, auto, r, ToSet(sites), t)
    BY <1>2, <1>4, <1>6, <1>7, <2>1, ScheduledFacts
  <2> QED BY <1>7, <2>2
<1>9. /\ Up => \A x \in owed \cup Owes(r, t) : Covered(t.acct, t.auto, x)
      /\ owed \cup Owes(r, t) \subseteq Site
  <2>1. {s} \in SUBSET Site
    BY <1>2
  <2> QED BY <1>6, <1>8, <2>1, RequestOwes
<1>10. Owes(r, t) = t.accepted
  BY <1>6 DEF Owes
<1>11. /\ Agrees(t.acct) /\ Leases(t.acct, t.auto) /\ Stronger(acct, t.acct)
       /\ SweepTold(auto, t.auto) /\ TaskAsked(acct, t.acct)
       /\ t.accepted \cup t.rejected = {s}
       /\ \A x \in t.accepted \ (acct.pending \cup auto.pending) : t.acct.want[x] = "own"
  BY <1>6, <1>8 DEF ScheduledOK, TaskAsked
<1>12. PICK p, n : p = (IF t.rejected # {} THEN "full" ELSE "own") /\ n = [k EXCEPT !.pc = p]
  OBVIOUS
<1>13. /\ n \in Call /\ n.pc = p /\ n.site = s /\ caller' = [caller EXCEPT ![c] = n]
       /\ p \in {"full", "own"} /\ (p = "own" => s \in t.accepted)
  <2>1. p \in {"full", "own"} /\ (p = "own" => s \in t.accepted)
    BY <1>11, <1>12
  <2> QED BY <1>1, <1>2, <1>5, <1>12, <2>1 DEF Call, CallerPC
<1>14. caller' \in [Caller -> Call] /\ WaitOK'
  <2>1. p = "own" => acct'.want[s] = "own"
    BY <1>2, <1>5, <1>11, <1>13
  <2>2. Stronger(acct, acct')
    BY <1>5, <1>11
  <2> QED BY <1>2, <1>13, <2>1, <2>2, CallerJoins
<1>15. Leases(acct', auto') /\ SweepTold(auto, auto')
  BY <1>2, <1>5, <1>11 DEF Leases, SweepTold
<1>16. OwedOK'
  <2> SUFFICES ASSUME Up, NEW x \in owed \cup {s}, x \in owed' PROVE Covered(acct', auto', x)
    BY <1>2, <1>5, <1>11 DEF OwedOK, Up, Covered
  <2>1. CASE x \in owed
    <3>1. Covered(acct, auto, x) /\ x \in Site
      BY <2>1 DEF QueueInv, OwedOK, Covered, Typed
    <3> QED BY <1>5, <1>11, <1>15, <3>1, CoveredStill
  <2>2. CASE x = s
    <3>1. Covered(t.acct, t.auto, s)
      BY <1>5, <1>9, <1>10, <2>2
    <3>2. ~Enriches(t.auto.follow[s])
      BY <1>2, <1>11 DEF Leases, SweepTold, Enriches
    <3> QED BY <1>5, <2>2, <3>1, <3>2 DEF Covered
  <2> QED BY <2>1, <2>2
<1>17. owed' \subseteq Site /\ announced' \subseteq {"sweep", "save"} \X Site
  BY <1>2, <1>5, <1>9, <1>10 DEF Typed
<1> QED BY <1>2, <1>5, <1>11, <1>14, <1>15, <1>16, <1>17, Requested

-----------------------------------------------------------------------------
(* The environment: rows that others write, and the stop of the service. *)

\* Rows change that no worker of this process claims.
LEMMA RowsMove ==
  ASSUME QueueInv, UNCHANGED <<acct, auto, worker, service, owed>>,
         site' \in [Site -> Row], \A s \in Site : site'[s].owner \in Worker => site'[s] = site[s],
         announced' \subseteq announced,
         caller' \in [Caller -> Call], \A c \in Caller : Stays(caller[c], caller'[c])
  PROVE  QueueInv'
<1>1. Typed' /\ Agrees(acct') /\ Leases(acct', auto')
  BY DEF QueueInv, Typed, Worker
<1>2. WorkOK'
  BY DEF QueueInv, WorkOK, Working, SiteOf
<1>3. LevelOK' /\ TaskOK'
  BY DEF QueueInv, LevelOK, TaskOK, SiteOf, Alive
<1>4. ClaimOK'
  BY ClaimStill DEF QueueInv
<1>5. WaitOK'
  BY WaitStill DEF QueueInv
<1>6. OwedOK'
  BY DEF QueueInv, OwedOK, Up
<1> QED BY <1>1, <1>2, <1>3, <1>4, <1>5, <1>6, InvNext

\* A row that ends, as a worker or another process leaves it.
LEMMA RowEnds ==
  ASSUME site \in [Site -> Row], NEW s \in Site, NEW status \in Status, NEW enriched \in BOOLEAN,
         Ended(s, status, enriched)
  PROVE  site' \in [Site -> Row] /\ site'[s].owner = NoOne /\ \A x \in Site \ {s} : site'[x] = site[x]
<1>1. PICK e : e = (site[s].enriched \/ enriched)
  OBVIOUS
<1>2. PICK n : n = [status |-> status, owner |-> NoOne, enriched |-> e]
  OBVIOUS
<1>3. e \in BOOLEAN
  BY <1>1 DEF Row
<1>4. n \in Row /\ n.owner = NoOne
  BY <1>2, <1>3 DEF Row
<1>5. site' = [site EXCEPT ![s] = n]
  BY <1>1, <1>2 DEF Ended
<1> QED BY <1>4, <1>5

LEMMA EnvironmentKeeps ==
  ASSUME QueueInv,
         \/ \E S \in SUBSET Site : Commit(S)
         \/ \E s \in Site : Edit(s, "new") \/ Edit(s, "gone") \/ ForeignClaims(s) \/ ForeignEnds(s)
  PROVE  QueueInv'
<1>1. /\ site \in [Site -> Row] /\ caller \in [Caller -> Call] /\ ClaimOK
      /\ NoOne \notin Worker /\ Foreign \notin Worker
  BY Workers DEF QueueInv, Typed, Worker
<1>2. \A c \in Caller : Stays(caller[c], caller[c])
  BY <1>1 DEF Stays
<1>3. ASSUME NEW S \in SUBSET Site, Commit(S) PROVE QueueInv'
  <2>1. UNCHANGED <<acct, auto, worker, caller, service, owed, announced>>
    BY <1>3 DEF Commit
  <2>2. ASSUME NEW s \in Site PROVE site'[s] \in Row /\ (site'[s].owner \in Worker => site'[s] = site[s])
    <3>1. CASE s \in S
      <4>1. PICK k, n : k = site[s] /\ n = [k EXCEPT !.status = "new"]
        OBVIOUS
      <4>2. site'[s] = n /\ k.status = "absent" /\ k \in Row
        BY <1>1, <1>3, <3>1, <4>1 DEF Commit
      <4>3. n \in Row /\ n.owner = k.owner
        BY <4>1, <4>2 DEF Row, Status
      <4>4. k.owner \notin Worker
        BY <1>1, <4>1, <4>2 DEF ClaimOK
      <4> QED BY <4>2, <4>3, <4>4
    <3>2. CASE s \notin S
      BY <1>1, <1>3, <3>2 DEF Commit
    <3> QED BY <3>1, <3>2
  <2>3. site' \in [Site -> Row]
    BY <1>3, <2>2 DEF Commit
  <2> QED BY <1>1, <1>2, <2>1, <2>2, <2>3, RowsMove
<1>4. ASSUME NEW s \in Site, Edit(s, "new") \/ Edit(s, "gone") PROVE QueueInv'
  <2>1. UNCHANGED <<acct, auto, worker, caller, service, owed>> /\ announced' \subseteq announced
    BY <1>4 DEF Edit, Without
  <2>2. \E n \in Row : n.owner = NoOne /\ site' = [site EXCEPT ![s] = n]
    <3>1. \A st \in {"new", "gone"} : [status |-> st, owner |-> NoOne, enriched |-> FALSE] \in Row
      BY DEF Row, Status
    <3> QED BY <1>4, <3>1 DEF Edit
  <2>3. site' \in [Site -> Row] /\ \A x \in Site : site'[x].owner \in Worker => site'[x] = site[x]
    BY <1>1, <2>2
  <2> QED BY <1>1, <1>2, <2>1, <2>3, RowsMove
<1>5. ASSUME NEW s \in Site, ForeignClaims(s) PROVE QueueInv'
  <2>1. UNCHANGED <<acct, auto, worker, caller, service, owed>> /\ announced' \subseteq announced
    BY <1>5 DEF ForeignClaims, Without
  <2>2. PICK k, n : k = site[s] /\ n = [k EXCEPT !.status = "pending", !.owner = Foreign]
    OBVIOUS
  <2>3. n \in Row /\ n.owner = Foreign
    BY <1>1, <2>2 DEF Row, Status
  <2>4. site' = [site EXCEPT ![s] = n]
    BY <1>5, <2>2 DEF ForeignClaims
  <2>5. site' \in [Site -> Row] /\ \A x \in Site : site'[x].owner \in Worker => site'[x] = site[x]
    BY <1>1, <2>3, <2>4
  <2> QED BY <1>1, <1>2, <2>1, <2>5, RowsMove
<1>6. ASSUME NEW s \in Site, ForeignEnds(s) PROVE QueueInv'
  <2>1. UNCHANGED <<acct, auto, worker, service, owed>> /\ announced' = announced
    BY <1>6 DEF ForeignEnds
  <2>2. PICK status \in {"new", "complete", "failed", "stale"}, enriched \in BOOLEAN :
           /\ Ended(s, status, enriched)
           /\ caller' = [c \in Caller |-> Noted(caller[c], s, FALSE, enriched)]
    BY <1>6 DEF ForeignEnds
  <2>3. /\ site' \in [Site -> Row] /\ site'[s].owner = NoOne
        /\ \A x \in Site \ {s} : site'[x] = site[x]
    <3>1. status \in Status
      BY DEF Status
    <3> QED BY <1>1, <2>2, <3>1, RowEnds
  <2>4. ASSUME NEW c \in Caller PROVE caller'[c] \in Call /\ Stays(caller[c], caller'[c])
    <3>1. PICK k, x, y : k = caller[c] /\ x = (k.served \/ FALSE) /\ y = (k.marked \/ enriched)
      OBVIOUS
    <3>2. k \in Call /\ x \in BOOLEAN /\ y \in BOOLEAN
      BY <1>1, <3>1 DEF Call
    <3>3. caller'[c] = k \/ caller'[c] = [k EXCEPT !.served = x, !.marked = y]
      BY <2>2, <3>1 DEF Noted
    <3> QED BY <3>1, <3>2, <3>3 DEF Call, Stays
  <2>5. caller' \in [Caller -> Call]
    BY <2>2, <2>4
  <2> QED BY <1>1, <2>1, <2>3, <2>4, <2>5, RowsMove
<1> QED BY <1>3, <1>4, <1>5, <1>6

\* The service is told to stop; an idle process stays as it is.
LEMMA StopKeeps ==
  ASSUME QueueInv, Stop \/ UNCHANGED vars
  PROVE  QueueInv'
<1>1. /\ UNCHANGED <<site, acct, auto, worker, caller, owed>> /\ announced' \subseteq announced
      /\ service' \in {"up", "stopping", "down"} /\ (service' = "up" => service = "up")
  BY DEF QueueInv, Typed, Stop, vars
<1>2. Typed' /\ Agrees(acct') /\ Leases(acct', auto')
  BY <1>1 DEF QueueInv, Typed, Worker
<1>3. WorkOK'
  BY <1>1 DEF QueueInv, WorkOK, Working, SiteOf
<1>4. LevelOK' /\ TaskOK' /\ ClaimOK' /\ WaitOK'
  BY <1>1 DEF QueueInv, LevelOK, TaskOK, ClaimOK, WaitOK, SiteOf, Alive
<1>5. OwedOK'
  BY <1>1 DEF QueueInv, OwedOK, Up
<1> QED BY <1>2, <1>3, <1>4, <1>5, InvNext

-----------------------------------------------------------------------------
(* Tasks that begin, look for work and end. *)

\* Workers without a site begin, look for one or leave.
Idling == \A w \in Worker : \/ worker'[w] = worker[w]
                            \/ /\ worker[w].pc \notin {"slot", "busy"}
                               /\ worker'[w].pc \notin {"slot", "busy"}
                               /\ w \in Consumer => worker'[w].pc # "query"

LEMMA IdleStep ==
  ASSUME QueueInv, UNCHANGED site, service' \in {"up", "stopping", "down"},
         Agrees(acct'), Leases(acct', auto'), SameRuns,
         worker' \in [Worker -> Task], Idling,
         \A w \in Sweeper : Working(w) => SiteOf(w) \in auto'.pending,
         TaskOK', WaitOK', OwedOK', caller' \in [Caller -> Call],
         owed' \subseteq Site, announced' \subseteq {"sweep", "save"} \X Site
  PROVE  QueueInv'
<1>1. /\ Typed /\ WorkOK /\ LevelOK /\ ClaimOK /\ acct' \in Account /\ auto' \in Sweep
  BY DEF QueueInv, Agrees, Leases
<1>2. Typed'
  BY <1>1 DEF Typed, Worker
<1>3. WorkOK' /\ LevelOK'
  BY <1>1, WorkStill DEF Idling
<1>4. ClaimOK'
  <2>1. \A w \in Worker : worker[w].pc = "busy" => worker'[w] = worker[w]
    BY DEF Idling
  <2> QED BY <1>1, <2>1, ClaimStill
<1> QED BY <1>2, <1>3, <1>4, InvNext

\* The task of an account begins or ends.
LEMMA TaskSet ==
  ASSUME NEW a, Agrees(a), NEW v \in {"none", "created", "running", "done"}, NEW c, c = [a EXCEPT !.task = v]
  PROVE  /\ Agrees(c) /\ c.task = v /\ c.queue = a.queue /\ c.pending = a.pending /\ c.want = a.want
         /\ c.run = a.run /\ c.follow = a.follow
<1>1. /\ c \in Account /\ c.task = v /\ c.queue = a.queue /\ c.pending = a.pending /\ c.want = a.want
      /\ c.run = a.run /\ c.follow = a.follow /\ c.overflow = a.overflow /\ AgreesWith(a, a.queue)
  BY DEF Agrees, Account
<1>2. AgreesWith(c, c.queue)
  BY <1>1 DEF AgreesWith
<1> QED BY <1>1, <1>2 DEF Agrees

\* A step that changes no entry of the account.
LEMMA SameEntries ==
  ASSUME QueueInv, UNCHANGED <<site, service, auto>>,
         Agrees(acct'), acct'.pending = acct.pending, acct'.want = acct.want, acct'.run = acct.run,
         acct'.follow = acct.follow,
         worker' \in [Worker -> Task], Idling, TaskOK', UNCHANGED <<caller, owed, announced>>
  PROVE  QueueInv'
<1>1. Typed /\ Leases(acct, auto) /\ WorkOK /\ WaitOK /\ OwedOK
  BY DEF QueueInv
<1>2. SameRuns
  BY DEF SameRuns
<1>3. Leases(acct', auto')
  BY <1>1 DEF Leases
<1>4. \A w \in Sweeper : Working(w) => SiteOf(w) \in auto'.pending
  BY <1>1 DEF WorkOK
<1>5. WaitOK' /\ OwedOK'
  BY <1>1 DEF WaitOK, OwedOK, Up
<1>6. caller' \in [Caller -> Call] /\ owed' \subseteq Site /\ announced' \subseteq {"sweep", "save"} \X Site
      /\ service' \in {"up", "stopping", "down"}
  BY <1>1 DEF Typed
<1> QED BY <1>2, <1>3, <1>4, <1>5, <1>6, IdleStep

\* The consumers begin, and their task ends after the last of them.
LEMMA ConsumersKeep ==
  ASSUME QueueInv, Spawn \/ AccountEnds
  PROVE  QueueInv'
<1>1. Agrees(acct) /\ Typed /\ TaskOK /\ \A w \in Worker : worker[w] \in Task
  BY DEF QueueInv, Typed
<1>2. UNCHANGED <<site, service, auto, caller, owed, announced>>
  BY DEF Spawn, AccountEnds
<1>3. CASE Spawn
  <2>1. PICK C \in SUBSET Consumer :
           worker' = [w \in Worker |-> IF w \in C THEN [Off EXCEPT !.pc = "ready"] ELSE worker[w]]
    BY <1>3 DEF Spawn
  <2>2. acct' = [acct EXCEPT !.task = "running"] /\ acct.task = "created"
    BY <1>3 DEF Spawn
  <2>3. PICK n : n = [Off EXCEPT !.pc = "ready"]
    OBVIOUS
  <2>4. n \in Task /\ n.pc = "ready"
    BY <2>3 DEF Off, Task, Levels
  <2>5. \A w \in C : worker[w].pc = "off" /\ w \in Worker /\ w \notin Sweeper
    BY <1>1, <2>2, Workers DEF TaskOK, Worker
  <2>6. worker' \in [Worker -> Task] /\ Idling
    BY <1>1, <2>1, <2>3, <2>4, <2>5 DEF Idling
  <2>7. \A w \in Sweeper : worker'[w] = worker[w]
    BY <2>1, <2>5 DEF Worker
  <2>8. /\ Agrees(acct') /\ acct'.task = "running" /\ acct'.pending = acct.pending
        /\ acct'.want = acct.want /\ acct'.run = acct.run /\ acct'.follow = acct.follow
    BY <1>1, <2>2, TaskSet
  <2>9. TaskOK'
    BY <1>1, <1>2, <2>7, <2>8 DEF TaskOK, Alive
  <2> QED BY <1>2, <2>6, <2>8, <2>9, SameEntries
<1>4. CASE AccountEnds
  <2>1. acct' = [acct EXCEPT !.task = "done"] /\ worker' = worker /\ \A w \in Consumer : worker[w].pc = "off"
    BY <1>4 DEF AccountEnds
  <2>2. /\ Agrees(acct') /\ acct'.task = "done" /\ acct'.pending = acct.pending
        /\ acct'.want = acct.want /\ acct'.run = acct.run /\ acct'.follow = acct.follow
    BY <1>1, <2>1, TaskSet
  <2>3. worker' \in [Worker -> Task] /\ Idling
    BY <1>1, <2>1 DEF Idling, Typed
  <2>4. TaskOK'
    BY <1>1, <1>2, <2>1 DEF TaskOK, Alive
  <2> QED BY <1>2, <2>2, <2>3, <2>4, SameEntries
<1> QED BY <1>3, <1>4

\* Nothing runs when every consumer is off.
LEMMA NothingRuns ==
  ASSUME QueueInv, \A w \in Consumer : worker[w].pc = "off"
  PROVE  /\ \A s \in Site : acct.run[s] = "none" /\ acct.follow[s] = "none"
         /\ \A s \in Site : s \in acct.pending <=> acct.want[s] # "none"
<1>1. WorkOK /\ AgreesWith(acct, acct.queue)
  BY DEF QueueInv, Agrees
<1>2. \A s \in Site : acct.run[s] = "none"
  BY <1>1 DEF WorkOK, Working
<1> QED BY <1>1, <1>2 DEF AgreesWith

\* The account goes, with nothing running, and no caller waits for it any more.
LEMMA AccountGoes ==
  ASSUME QueueInv, acct' = NoAccount, UNCHANGED <<site, worker>>, \A w \in Consumer : worker[w].pc = "off",
         caller' \in [Caller -> Call], \A c \in Caller : Stays(caller[c], caller'[c]),
         \A c \in Caller : caller'[c].pc \in {"join", "own"} => caller[c].site \notin acct.pending,
         auto' \in Sweep, \A s \in Site : auto'.follow[s] # "none" => s \in auto'.pending /\ Enriches(auto'.follow[s]),
         \A w \in Sweeper : Working(w) => SiteOf(w) \in auto'.pending,
         ~Alive(auto') => \A w \in Sweeper : worker[w].pc = "off",
         service' \in {"up", "stopping", "down"}, owed' \subseteq Site, announced' = announced,
         Up' => \A s \in owed' : Enriches(auto'.follow[s])
  PROVE  QueueInv'
<1>1. /\ Typed /\ WaitOK /\ \A s \in Site : acct.run[s] = "none"
      /\ \A s \in Site : s \in acct.pending <=> acct.want[s] # "none"
  BY NothingRuns DEF QueueInv
<1>2. /\ Agrees(acct') /\ acct'.pending = {} /\ acct'.task = "none"
      /\ \A s \in Site : acct'.want[s] = "none" /\ acct'.run[s] = "none"
  BY EmptyAccount
<1> HIDE DEF NoAccount
<1>3. SameRuns
  BY <1>1, <1>2 DEF SameRuns
<1>4. Leases(acct', auto')
  BY <1>2 DEF Leases
<1>5. worker' \in [Worker -> Task] /\ Idling
  BY <1>1 DEF Typed, Idling
<1>6. TaskOK'
  BY DEF TaskOK, Alive
<1>7. WaitOK'
  <2>1. \A c \in Caller : caller'[c].pc \notin {"join", "own"}
    BY <1>1 DEF WaitOK, Stays
  <2> QED BY <1>1, <2>1, WaitStill
<1>8. OwedOK'
  BY DEF OwedOK
<1>9. announced' \subseteq {"sweep", "save"} \X Site /\ UNCHANGED site
  BY <1>1 DEF Typed
<1> QED BY <1>2, <1>3, <1>4, <1>5, <1>6, <1>7, <1>8, <1>9, IdleStep

\* The callback of the account's task: another one, or the account goes.
LEMMA AccountFinishedKeeps ==
  ASSUME QueueInv, AccountFinished
  PROVE  QueueInv'
<1>1. /\ Typed /\ TaskOK /\ Agrees(acct) /\ Leases(acct, auto) /\ WorkOK /\ OwedOK
      /\ acct.task = "done" /\ UNCHANGED <<site, auto, worker, service, owed, announced>>
      /\ \A w \in Consumer : worker[w].pc = "off"
  BY DEF QueueInv, AccountFinished, TaskOK
<1>2. CASE acct' = Started(acct) /\ caller' = caller
  <2>1. acct' = acct \/ acct' = [acct EXCEPT !.task = "created"]
    BY <1>2 DEF Started
  <2>2. /\ Agrees(acct') /\ acct'.pending = acct.pending /\ acct'.want = acct.want /\ acct'.run = acct.run
        /\ acct'.follow = acct.follow /\ acct'.task \in {"done", "created"}
    BY <1>1, <2>1, TaskSet
  <2>3. worker' \in [Worker -> Task] /\ Idling
    BY <1>1 DEF Idling, Typed
  <2>4. TaskOK'
    BY <1>1, <2>2 DEF TaskOK, Alive
  <2> QED BY <1>1, <1>2, <2>2, <2>3, <2>4, SameEntries
<1>3. CASE acct' = NoAccount /\ caller' = Abandoned(acct.pending) /\ (acct.pending = {} \/ ~Up)
  <2>1. /\ caller' \in [Caller -> Call]
        /\ \A c \in Caller : Stays(caller[c], caller'[c])
        /\ \A c \in Caller : caller'[c].pc \in {"join", "own"} => caller[c].site \notin acct.pending
    <3>1. caller \in [Caller -> Call]
      BY <1>1 DEF Typed
    <3> QED BY <1>3, <3>1, Dropped
  <2>2. /\ auto' \in Sweep
        /\ \A s \in Site : auto'.follow[s] # "none" => s \in auto'.pending /\ Enriches(auto'.follow[s])
        /\ \A w \in Sweeper : Working(w) => SiteOf(w) \in auto'.pending
        /\ ~Alive(auto') => \A w \in Sweeper : worker[w].pc = "off"
    BY <1>1 DEF Leases, WorkOK, TaskOK, Alive
  <2>3. service' \in {"up", "stopping", "down"} /\ owed' \subseteq Site
    BY <1>1 DEF Typed
  <2>4. Up' => \A s \in owed' : Enriches(auto'.follow[s])
    <3> SUFFICES ASSUME Up, NEW s \in owed PROVE Enriches(auto.follow[s])
      BY <1>1 DEF Up
    <3>1. acct.want[s] = "none" /\ acct.run[s] = "none" /\ acct.follow[s] = "none"
      BY <1>1, <1>3, NothingRuns DEF Typed
    <3> QED BY <1>1, <3>1 DEF OwedOK, Enriches
  <2> QED BY <1>1, <1>3, <2>1, <2>2, <2>3, <2>4, AccountGoes
<1> QED BY <1>2, <1>3 DEF AccountFinished

\* The registries are cleared.
LEMMA DownKeeps ==
  ASSUME QueueInv, Down
  PROVE  QueueInv'
<1>1. /\ Typed /\ acct' = NoAccount /\ auto' = NoSweep /\ owed' = {} /\ service' = "down"
      /\ UNCHANGED <<site, worker, announced>> /\ \A w \in Worker : worker[w].pc = "off"
      /\ caller' = [c \in Caller |-> IF caller[c].site \in Busy THEN Told(c, caller[c].site, "cancelled") ELSE caller[c]]
  BY DEF QueueInv, Down
<1>2. /\ caller' \in [Caller -> Call]
      /\ \A c \in Caller : Stays(caller[c], caller'[c])
      /\ \A c \in Caller : caller'[c].pc \in {"join", "own"} => caller[c].site \notin acct.pending
  <2>1. caller \in [Caller -> Call] /\ acct.pending \subseteq Busy
    BY <1>1 DEF Typed, Busy
  <2>2. \A c \in Caller : /\ caller' \in [Caller -> Call] /\ Stays(caller[c], caller'[c])
                          /\ caller'[c].pc \in {"join", "own"} => caller[c].site \notin Busy
    BY <1>1, <2>1, Dropped
  <2>3. caller' \in [Caller -> Call]
    BY <1>1, <2>1, Dropped
  <2> QED BY <2>1, <2>2, <2>3
<1>3. /\ auto' \in Sweep /\ \A s \in Site : auto'.follow[s] = "none"
  BY <1>1, SweepBegins
<1>4. /\ \A w \in Sweeper : ~Working(w) /\ worker[w].pc = "off"
      /\ \A w \in Consumer : worker[w].pc = "off"
  BY <1>1 DEF Working, Worker
<1>5. /\ \A s \in Site : auto'.follow[s] # "none" => s \in auto'.pending /\ Enriches(auto'.follow[s])
      /\ \A w \in Sweeper : Working(w) => SiteOf(w) \in auto'.pending
      /\ ~Alive(auto') => \A w \in Sweeper : worker[w].pc = "off"
      /\ service' \in {"up", "stopping", "down"} /\ owed' \subseteq Site
      /\ (Up' => \A s \in owed' : Enriches(auto'.follow[s]))
  BY <1>1, <1>3, <1>4
<1> QED BY <1>1, <1>2, <1>3, <1>4, <1>5, AccountGoes

-----------------------------------------------------------------------------
(* The sweep. *)

\* The sweep changes, but for its follow-ups; workers without a site move.
LEMMA SweepStep ==
  ASSUME QueueInv, UNCHANGED <<site, acct, service, caller, owed>>, auto' \in Sweep,
         auto'.pending = auto.pending, auto'.follow = auto.follow,
         worker' \in [Worker -> Task], Idling, \A w \in Consumer : worker[w].pc = "off" => worker'[w].pc = "off",
         ~Alive(auto') => \A w \in Sweeper : worker'[w].pc = "off",
         announced' \subseteq announced
  PROVE  QueueInv'
<1>1. Typed /\ Agrees(acct) /\ Leases(acct, auto) /\ WorkOK /\ WaitOK /\ OwedOK /\ TaskOK
  BY DEF QueueInv
<1>2. Agrees(acct') /\ Leases(acct', auto') /\ SameRuns
  BY <1>1 DEF Leases, SameRuns
<1>3. \A w \in Sweeper : Working(w) => SiteOf(w) \in auto'.pending
  BY <1>1 DEF WorkOK
<1>4. WaitOK' /\ OwedOK' /\ TaskOK'
  BY <1>1 DEF WaitOK, OwedOK, Up, TaskOK, Alive
<1>5. caller' \in [Caller -> Call] /\ owed' \subseteq Site /\ announced' \subseteq {"sweep", "save"} \X Site
      /\ service' \in {"up", "stopping", "down"} /\ UNCHANGED site
  BY <1>1 DEF Typed
<1> QED BY <1>2, <1>3, <1>4, <1>5, IdleStep

\* A sweeper takes a site that nobody has.
LEMMA LeasedKeeps ==
  ASSUME QueueInv, NEW w \in Sweeper, worker[w].pc \in {"ready", "query"},
         NEW s \in Site \ Busy, NEW S \in SUBSET Site, Leased(w, [auto EXCEPT !.candidates = S], s),
         UNCHANGED <<site, acct, caller, service, owed, announced>>
  PROVE  QueueInv'
<1>1. /\ Typed /\ Agrees(acct) /\ Leases(acct, auto) /\ WorkOK /\ LevelOK /\ TaskOK /\ ClaimOK /\ WaitOK
      /\ OwedOK /\ auto \in Sweep /\ w \in Worker /\ \A v \in Worker : worker[v] \in Task
  BY DEF QueueInv, Leases, Typed, Worker
<1>2. PICK C, P : C = S \ {s} /\ P = auto.pending \cup {s}
  OBVIOUS
<1>3. auto' = [auto EXCEPT !.candidates = C, !.pending = P]
  <2>1. PICK b : b = [auto EXCEPT !.candidates = S]
    OBVIOUS
  <2>2. b \in Sweep /\ b.candidates = S /\ b.pending = auto.pending
    BY <1>1, <2>1 DEF Sweep
  <2>3. auto' = [b EXCEPT !.candidates = C, !.pending = P]
    BY <1>2, <2>1, <2>2 DEF Leased
  <2> QED BY <1>1, <2>1, <2>3 DEF Sweep
<1>4. /\ auto' \in Sweep /\ auto'.pending = P /\ auto'.follow = auto.follow /\ auto'.task = auto.task
  BY <1>1, <1>2, <1>3 DEF Sweep
<1>5. Leases(acct', auto')
  BY <1>1, <1>2, <1>4 DEF Leases, Busy
<1>6. PICK n : n = IF auto.task = "failing" THEN Off ELSE [pc |-> "slot", site |-> s, level |-> "none"]
  OBVIOUS
<1>7. n \in Task /\ n.pc \in {"off", "slot"} /\ (n.pc = "slot" => n.site = s)
  BY <1>6 DEF Task, Off, Levels
<1>8. worker' = [worker EXCEPT ![w] = n]
  BY <1>6 DEF Leased
<1>9. /\ worker' \in [Worker -> Task] /\ worker'[w] = n /\ \A v \in Worker \ {w} : worker'[v] = worker[v]
      /\ \A v \in Consumer : v # w /\ v \in Worker
  BY <1>1, <1>7, <1>8, Workers DEF Typed, Worker
<1>10. \A v \in Worker : Working(v) => SiteOf(v) \in Site /\ SiteOf(v) \in Busy
  <2>1. \A x \in Site : acct.run[x] # "none" => x \in acct.pending
    BY <1>1 DEF Agrees, AgreesWith
  <2> QED BY <1>1, <2>1 DEF WorkOK, Worker, Busy
<1>11. ~Working(w) /\ (Working(w)' => SiteOf(w)' = s)
  BY <1>7, <1>9 DEF Working, SiteOf
<1>12. \A v \in Worker \ {w} : (Working(v)' <=> Working(v)) /\ SiteOf(v)' = SiteOf(v)
  BY <1>9 DEF Working, SiteOf
<1>13. WorkOK'
  <2>1. /\ \A v \in Worker : Working(v)' => SiteOf(v)' \in Site
        /\ \A v \in Sweeper : Working(v)' => SiteOf(v)' \in auto'.pending
    BY <1>1, <1>2, <1>4, <1>10, <1>11, <1>12 DEF WorkOK, Worker
  <2>2. \A v, u \in Worker : v # u /\ Working(v)' /\ Working(u)' => SiteOf(v)' # SiteOf(u)'
    BY <1>1, <1>10, <1>11, <1>12 DEF WorkOK
  <2>3. /\ \A v \in Consumer : Working(v)' => acct'.run[SiteOf(v)'] # "none"
        /\ \A x \in Site : acct'.run[x] # "none" => \E v \in Consumer : Working(v)' /\ SiteOf(v)' = x
        /\ \A v \in Consumer : worker'[v].pc # "query"
    BY <1>1, <1>9, <1>12 DEF WorkOK
  <2> QED BY <2>1, <2>2, <2>3 DEF WorkOK
<1>14. LevelOK' /\ WaitOK'
  BY <1>1, <1>9 DEF LevelOK, WaitOK, SiteOf
<1>15. TaskOK'
  <2>1. Alive(auto)
    BY <1>1 DEF TaskOK
  <2> QED BY <1>1, <1>4, <1>9, <2>1 DEF TaskOK, Alive
<1>16. ClaimOK'
  <2>1. \A v \in Worker : worker[v].pc = "busy" => worker'[v] = worker[v]
    BY <1>9
  <2> QED BY <1>1, <2>1, ClaimStill
<1>17. OwedOK'
  BY <1>1, <1>4 DEF OwedOK, Up
<1>18. Typed' /\ Agrees(acct')
  BY <1>1, <1>4, <1>9 DEF Typed, Worker
<1> QED BY <1>5, <1>13, <1>14, <1>15, <1>16, <1>17, <1>18, InvNext

\* A sweeper looks again for sites.
LEMMA LookAgainKeeps ==
  ASSUME QueueInv, NEW w \in Sweeper, worker[w].pc \in {"ready", "query"}, LookAgain(w),
         UNCHANGED <<site, acct, caller, service, owed, announced>>
  PROVE  QueueInv'
<1>1. Typed /\ Leases(acct, auto) /\ Agrees(acct) /\ auto \in Sweep /\ w \in Worker /\ worker[w] \in Task /\ TaskOK
  BY DEF QueueInv, Leases, Typed, Worker
<1>2. Busy \subseteq Site /\ \A v \in Consumer : v # w /\ v \in Worker
  BY <1>1, Workers DEF Busy, Agrees, Account, Sweep, Worker
<1>3. /\ auto' \in Sweep /\ auto'.pending = auto.pending /\ auto'.follow = auto.follow /\ auto'.task = auto.task
  BY <1>1, <1>2 DEF LookAgain, Sweep
<1>4. PICK k, n : k = worker[w] /\ n = [k EXCEPT !.pc = "query"]
  OBVIOUS
<1>5. n \in Task /\ n.pc = "query" /\ worker' = [worker EXCEPT ![w] = n]
  BY <1>1, <1>4 DEF LookAgain, Task
<1>6. worker' \in [Worker -> Task] /\ worker'[w] = n /\ \A v \in Worker \ {w} : worker'[v] = worker[v]
  BY <1>1, <1>5 DEF Typed
<1>7. Idling
  BY <1>2, <1>5, <1>6 DEF Idling
<1>8. Alive(auto')
  BY <1>1, <1>3 DEF TaskOK, Alive
<1> QED BY <1>2, <1>3, <1>6, <1>7, <1>8, SweepStep

\* A worker without a site leaves.
LEMMA LeavesIdle ==
  ASSUME QueueInv, NEW w \in Worker, worker[w].pc \in {"ready", "query"},
         worker' = [worker EXCEPT ![w] = Off]
  PROVE  /\ worker' \in [Worker -> Task] /\ Idling
         /\ \A v \in Consumer : worker[v].pc = "off" => worker'[v].pc = "off"
         /\ ~Alive(auto) => \A v \in Sweeper : worker'[v].pc = "off"
<1>1. worker \in [Worker -> Task] /\ TaskOK /\ Off \in Task /\ Off.pc = "off"
  BY DEF QueueInv, Typed, Off, Task, Levels
<1> HIDE DEF Off
<1>2. \A v \in Consumer \cup Sweeper : v \in Worker
  BY DEF Worker
<1> QED BY <1>1, <1>2 DEF Idling, TaskOK

LEMMA PickKeeps ==
  ASSUME QueueInv, NEW w \in Sweeper, worker[w].pc \in {"ready", "query"},
         NEW found \in SUBSET Site, Pick(w, found),
         UNCHANGED <<site, acct, caller, service, owed, announced>>
  PROVE  QueueInv'
<1>1. CASE LookAgain(w)
  BY <1>1, LookAgainKeeps
<1>2. ASSUME NEW s \in found \ Busy, NEW skipped \in SUBSET (found \cap Busy),
             Leased(w, [auto EXCEPT !.candidates = found \ skipped], s)
      PROVE  QueueInv'
  <2>1. s \in Site \ Busy /\ found \ skipped \in SUBSET Site
    OBVIOUS
  <2> QED BY <1>2, <2>1, LeasedKeeps
<1> QED BY <1>1, <1>2 DEF Pick

\* A sweeper takes a candidate, or looks for more in the rows.
LEMMA SweepersKeep ==
  ASSUME QueueInv, NEW w \in Worker, Lease(w) \/ Discover(w) \/ DiscoveryFails(w) \/ Idles(w)
  PROVE  QueueInv'
<1>1. Typed /\ auto \in Sweep /\ auto.candidates \in SUBSET Site
  BY DEF QueueInv, Typed, Sweep
<1>2. CASE Lease(w)
  BY <1>1, <1>2, PickKeeps DEF Lease
<1>3. CASE Discover(w)
  <2>1. w \in Sweeper /\ worker[w].pc = "query" /\ UNCHANGED <<site, acct, caller, service, owed, announced>>
    BY <1>3 DEF Discover
  <2>2. \/ \E found \in SUBSET Site : Pick(w, found)
        \/ worker' = [worker EXCEPT ![w] = Off] /\ auto' = auto
    BY <1>3 DEF Discover, Discoverable
  <2>3. CASE worker' = [worker EXCEPT ![w] = Off] /\ auto' = auto
    <3>1. /\ worker' \in [Worker -> Task] /\ Idling
          /\ \A v \in Consumer : worker[v].pc = "off" => worker'[v].pc = "off"
          /\ ~Alive(auto') => \A v \in Sweeper : worker'[v].pc = "off"
      BY <2>1, <2>3, LeavesIdle
    <3> QED BY <1>1, <2>1, <2>3, <3>1, SweepStep
  <2> QED BY <2>1, <2>2, <2>3, PickKeeps
<1>4. CASE DiscoveryFails(w)
  <2>1. /\ worker[w].pc = "query" /\ worker' = [worker EXCEPT ![w] = Off]
        /\ UNCHANGED <<site, acct, caller, service, owed, announced>>
        /\ auto' = [auto EXCEPT !.task = "failing"]
    BY <1>4 DEF DiscoveryFails
  <2>2. /\ worker' \in [Worker -> Task] /\ Idling
        /\ \A v \in Consumer : worker[v].pc = "off" => worker'[v].pc = "off"
    BY <2>1, LeavesIdle
  <2>3. auto' \in Sweep /\ auto'.pending = auto.pending /\ auto'.follow = auto.follow /\ auto'.task = "failing"
    BY <1>1, <2>1 DEF Sweep
  <2>4. Alive(auto')
    BY <2>3 DEF Alive
  <2> QED BY <2>1, <2>2, <2>3, <2>4, SweepStep
<1>5. CASE Idles(w)
  <2>1. /\ worker[w].pc \in {"ready", "query"} /\ worker' = [worker EXCEPT ![w] = Off]
        /\ UNCHANGED <<site, acct, auto, caller, service, owed, announced>>
    BY <1>5 DEF Idles
  <2>2. /\ worker' \in [Worker -> Task] /\ Idling
        /\ \A v \in Consumer : worker[v].pc = "off" => worker'[v].pc = "off"
        /\ ~Alive(auto') => \A v \in Sweeper : worker'[v].pc = "off"
    BY <2>1, LeavesIdle
  <2> QED BY <1>1, <2>1, <2>2, SweepStep
<1> QED BY <1>2, <1>3, <1>4, <1>5

\* A pass is over: another one, or the end.
LEMMA SweepPassKeeps ==
  ASSUME QueueInv, SweepPass
  PROVE  QueueInv'
<1>1. /\ Typed /\ auto \in Sweep /\ \A w \in Sweeper : worker[w].pc = "off"
      /\ UNCHANGED <<site, acct, service, caller, owed>> /\ Alive(auto) /\ \A w \in Worker : worker[w] \in Task
  BY DEF QueueInv, Typed, SweepPass
<1>2. announced' \subseteq announced
  BY DEF SweepPass
<1>3. CASE auto' = [auto EXCEPT !.rescan = FALSE] /\ worker' = SweepersReady(TRUE)
  <2>1. auto' \in Sweep /\ auto'.pending = auto.pending /\ auto'.follow = auto.follow /\ Alive(auto')
    BY <1>1, <1>3 DEF Sweep, Alive
  <2>2. [Off EXCEPT !.pc = "ready"] \in Task /\ [Off EXCEPT !.pc = "ready"].pc = "ready"
    BY DEF Off, Task, Levels
  <2>3. worker' \in [Worker -> Task] /\ Idling /\ \A w \in Consumer : worker'[w] = worker[w]
    BY <1>1, <1>3, <2>2, Workers DEF SweepersReady, Idling, Worker
  <2> QED BY <1>1, <1>2, <2>1, <2>3, SweepStep
<1>4. CASE auto' = [auto EXCEPT !.task = "done"] /\ worker' = SweepersReady(FALSE)
  <2>1. auto' \in Sweep /\ auto'.pending = auto.pending /\ auto'.follow = auto.follow
    BY <1>1, <1>4 DEF Sweep
  <2>2. worker' = worker
    BY <1>1, <1>4 DEF SweepersReady, Typed
  <2>3. worker' \in [Worker -> Task] /\ Idling
    BY <1>1, <2>2 DEF Idling, Typed
  <2> QED BY <1>1, <1>2, <2>1, <2>2, <2>3, SweepStep
<1>5. \/ auto' = [auto EXCEPT !.rescan = FALSE] /\ worker' = SweepersReady(TRUE)
      \/ auto' = [auto EXCEPT !.task = "done"] /\ worker' = SweepersReady(FALSE)
  BY Zenon DEF SweepPass
<1> QED BY <1>3, <1>4, <1>5

\* The callback of a sweep clears what it left.
LEMMA SweepFinishedKeeps ==
  ASSUME QueueInv, SweepFinished
  PROVE  QueueInv'
<1>1. /\ Typed /\ Agrees(acct) /\ Leases(acct, auto) /\ WorkOK /\ WaitOK /\ TaskOK /\ OwedOK
      /\ auto.task = "done" /\ auto' = NoSweep
      /\ UNCHANGED <<site, acct, worker, service, announced>>
      /\ caller' = [c \in Caller |-> IF caller[c].site \in auto.pending THEN Told(c, caller[c].site, "cancelled") ELSE caller[c]]
      /\ owed' = owed \ {s \in Site : auto.follow[s] # "none"}
  BY DEF QueueInv, SweepFinished
<1>2. caller' \in [Caller -> Call] /\ \A c \in Caller : Stays(caller[c], caller'[c])
  BY <1>1, Dropped DEF Typed
<1>3. /\ auto' \in Sweep /\ auto'.pending = {} /\ \A s \in Site : auto'.follow[s] = "none"
  BY <1>1, SweepBegins
<1>4. \A w \in Sweeper : worker[w].pc = "off"
  BY <1>1 DEF TaskOK, Alive
<1>5. Agrees(acct') /\ Leases(acct', auto') /\ SameRuns
  BY <1>1, <1>3 DEF Leases, SameRuns
<1>6. worker' \in [Worker -> Task] /\ Idling /\ \A w \in Sweeper : Working(w) => SiteOf(w) \in auto'.pending
  BY <1>1, <1>4 DEF Typed, Idling, Working
<1>7. TaskOK'
  BY <1>1, <1>4 DEF TaskOK
<1>8. WaitOK'
  BY <1>1, <1>2, WaitStill
<1>9. OwedOK'
  BY <1>1 DEF OwedOK, Up, Enriches, Typed
<1>10. owed' \subseteq Site /\ announced' \subseteq {"sweep", "save"} \X Site
       /\ service' \in {"up", "stopping", "down"} /\ UNCHANGED site
  BY <1>1 DEF Typed
<1> QED BY <1>2, <1>5, <1>6, <1>7, <1>8, <1>9, <1>10, IdleStep

-----------------------------------------------------------------------------
(* A worker takes a site, starts and ends. *)

\* The entries that run in a are those the consumers other than w work on.
OthersRun(a, w) ==
  /\ \A v \in Consumer \ {w} : Working(v) => a.run[SiteOf(v)] # "none"
  /\ \A v \in Consumer \ {w} : Working(v) => a.run[SiteOf(v)] = acct.run[SiteOf(v)]
  /\ \A s \in Site : a.run[s] # "none" => \E v \in Consumer \ {w} : Working(v) /\ SiteOf(v) = s

\* What is asked of an entry of a, or runs, is asked of it in b, or runs.
Carried(a, b) == \A s \in Site :
  /\ Enriches(a.want[s]) \/ Enriches(a.run[s]) => Enriches(b.want[s]) \/ Enriches(b.run[s])
  /\ "own" \in {a.want[s], a.run[s]} => "own" \in {b.want[s], b.run[s]}
  /\ b.follow[s] = a.follow[s]

\* A consumer that has no entry takes the next one, or leaves.
LEMMA TakesNext ==
  ASSUME QueueInv, NEW w \in Consumer, NEW a, Agrees(a), a.pending \subseteq acct.pending, OthersRun(a, w),
         a.task = acct.task, acct.task = "running", auto' = auto,
         \/ acct' = a /\ worker' = [worker EXCEPT ![w] = Off]
         \/ acct' = Next1(a) /\ worker' = Took(a, w)
  PROVE  /\ worker' \in [Worker -> Task] /\ \A v \in Worker \ {w} : worker'[v] = worker[v]
         /\ worker'[w].pc \in {"off", "slot"}
         /\ WorkOK' /\ LevelOK' /\ TaskOK' /\ Agrees(acct') /\ Leases(acct', auto') /\ Carried(a, acct')
<1>1. /\ Typed /\ WorkOK /\ LevelOK /\ TaskOK /\ Leases(acct, auto) /\ w \in Worker /\ w \notin Sweeper
      /\ a \in Account /\ AgreesWith(a, a.queue) /\ worker \in [Worker -> Task]
      /\ \A v \in Consumer \cup Sweeper : v \in Worker
  BY Workers DEF QueueInv, Typed, Worker, Agrees
<1>2. CASE acct' = a /\ worker' = [worker EXCEPT ![w] = Off]
  <2>1. Off \in Task /\ Off.pc = "off"
    BY DEF Off, Task, Levels
  <2>2. /\ worker' \in [Worker -> Task] /\ worker'[w].pc = "off"
        /\ \A v \in Worker \ {w} : worker'[v] = worker[v]
    BY <1>1, <1>2, <2>1
  <2>3. ~Working(w)' /\ \A v \in Worker \ {w} : (Working(v)' <=> Working(v)) /\ SiteOf(v)' = SiteOf(v)
    BY <2>2 DEF Working, SiteOf
  <2>4. WorkOK'
    <3>1. /\ \A v \in Worker : Working(v)' => SiteOf(v)' \in Site
          /\ \A v, u \in Worker : v # u /\ Working(v)' /\ Working(u)' => SiteOf(v)' # SiteOf(u)'
          /\ \A v \in Sweeper : Working(v)' => SiteOf(v)' \in auto'.pending
          /\ \A v \in Consumer : worker'[v].pc # "query"
      BY <1>1, <2>2, <2>3 DEF WorkOK
    <3>2. /\ \A v \in Consumer : Working(v)' => acct'.run[SiteOf(v)'] # "none"
          /\ \A x \in Site : acct'.run[x] # "none" => \E v \in Consumer : Working(v)' /\ SiteOf(v)' = x
      BY <1>1, <1>2, <2>3 DEF OthersRun
    <3> QED BY <3>1, <3>2 DEF WorkOK
  <2>5. LevelOK'
    BY <1>1, <1>2, <2>2, <2>3 DEF LevelOK, OthersRun, Working
  <2>6. TaskOK'
    BY <1>1, <1>2, <2>2 DEF TaskOK, Alive
  <2>7. Leases(acct', auto') /\ Carried(a, acct')
    BY <1>1, <1>2 DEF Leases, Carried
  <2> QED BY <1>2, <2>2, <2>4, <2>5, <2>6, <2>7
<1>3. CASE acct' = Next1(a) /\ worker' = Took(a, w) /\ a.queue = <<>>
  <2>1. acct' = a /\ worker' = [worker EXCEPT ![w] = Off]
    BY <1>3 DEF Next1, Took
  <2> QED BY <1>2, <2>1
<1>4. CASE acct' = Next1(a) /\ worker' = Took(a, w) /\ a.queue # <<>>
  <2>1. PICK h, b, n : h = Head(a.queue) /\ b = Popped(a) /\ n = [pc |-> "slot", site |-> h, level |-> "none"]
    OBVIOUS
  <2>2. acct' = b /\ worker' = [worker EXCEPT ![w] = n]
    BY <1>4, <2>1 DEF Next1, Took
  <2>3. /\ Agrees(b) /\ b.task = a.task /\ b.pending = a.pending /\ b.follow = a.follow
        /\ h \in Site /\ h \in Queued(a)
        /\ b.want[h] = "none" /\ b.run[h] = a.want[h] /\ b.run[h] # "none"
        /\ \A x \in Site \ {h} : b.want[x] = a.want[x] /\ b.run[x] = a.run[x]
    BY <1>4, <2>1, PoppedFacts
  <2>4. n \in Task /\ n.pc = "slot" /\ n.site = h
    BY <2>1, <2>3 DEF Task, Levels
  <2>5. /\ worker' \in [Worker -> Task] /\ worker'[w] = n
        /\ \A v \in Worker \ {w} : worker'[v] = worker[v]
    BY <1>1, <2>2, <2>4
  <2>6. /\ Working(w)' /\ SiteOf(w)' = h
        /\ \A v \in Worker \ {w} : (Working(v)' <=> Working(v)) /\ SiteOf(v)' = SiteOf(v)
    BY <2>4, <2>5 DEF Working, SiteOf
  <2>7. a.run[h] = "none" /\ h \in a.pending
    BY <1>1, <2>3 DEF AgreesWith, Queued
  <2>8. \A v \in Worker \ {w} : Working(v) => SiteOf(v) # h
    <3>1. \A v \in Consumer \ {w} : Working(v) => SiteOf(v) # h
      BY <2>7 DEF OthersRun
    <3>2. \A v \in Sweeper : Working(v) => SiteOf(v) # h
      BY <1>1, <2>7 DEF WorkOK, Leases
    <3> QED BY <3>1, <3>2 DEF Worker
  <2>9. WorkOK'
    <3>1. /\ \A v \in Worker : Working(v)' => SiteOf(v)' \in Site
          /\ \A v \in Sweeper : Working(v)' => SiteOf(v)' \in auto'.pending
          /\ \A v \in Consumer : worker'[v].pc # "query"
      BY <1>1, <2>3, <2>4, <2>5, <2>6 DEF WorkOK
    <3>2. \A v, u \in Worker : v # u /\ Working(v)' /\ Working(u)' => SiteOf(v)' # SiteOf(u)'
      BY <1>1, <2>6, <2>8 DEF WorkOK
    <3>3. ASSUME NEW v \in Consumer, Working(v)' PROVE acct'.run[SiteOf(v)'] # "none"
      BY <1>1, <2>2, <2>3, <2>6, <2>8, <3>1, <3>3 DEF OthersRun
    <3>4. ASSUME NEW x \in Site, acct'.run[x] # "none"
          PROVE  \E v \in Consumer : Working(v)' /\ SiteOf(v)' = x
      <4>1. CASE x = h
        BY <2>6, <4>1
      <4>2. CASE x # h
        <5>1. a.run[x] # "none"
          BY <2>2, <2>3, <3>4, <4>2
        <5> QED BY <1>1, <2>6, <5>1 DEF OthersRun
      <4> QED BY <4>1, <4>2
    <3> QED BY <3>1, <3>2, <3>3, <3>4 DEF WorkOK
  <2>10. LevelOK'
    <3> SUFFICES ASSUME NEW v \in Consumer, worker'[v].pc = "busy", Enriches(acct'.run[SiteOf(v)'])
                 PROVE  Enriches(worker'[v].level)
      BY DEF LevelOK
    <3>1. v # w /\ worker'[v] = worker[v] /\ Working(v) /\ SiteOf(v)' = SiteOf(v) /\ v \in Worker
      BY <1>1, <2>4, <2>5, <2>6 DEF Working
    <3>2. SiteOf(v) \in Site /\ SiteOf(v) # h
      BY <1>1, <2>8, <3>1 DEF WorkOK
    <3>3. Enriches(acct.run[SiteOf(v)])
      BY <2>2, <2>3, <3>1, <3>2 DEF OthersRun
    <3> QED BY <1>1, <3>1, <3>3 DEF LevelOK
  <2>11. TaskOK'
    BY <1>1, <2>2, <2>3, <2>5 DEF TaskOK, Alive
  <2>12. Leases(acct', auto')
    BY <1>1, <2>2, <2>3 DEF Leases
  <2>13. Carried(a, acct')
    <3> SUFFICES ASSUME NEW s \in Site
                 PROVE  /\ Enriches(a.want[s]) \/ Enriches(a.run[s]) => Enriches(b.want[s]) \/ Enriches(b.run[s])
                        /\ "own" \in {a.want[s], a.run[s]} => "own" \in {b.want[s], b.run[s]}
      BY <2>2, <2>3 DEF Carried
    <3> QED BY <2>3, <2>7 DEF Enriches
  <2> QED BY <2>2, <2>3, <2>4, <2>5, <2>9, <2>10, <2>11, <2>12, <2>13
<1> QED BY <1>2, <1>3, <1>4

\* The task of an account runs while a consumer is there.
LEMMA TaskRuns ==
  ASSUME QueueInv, NEW w \in Consumer, worker[w].pc # "off"
  PROVE  acct.task = "running"
BY DEF QueueInv, TaskOK, Agrees, Account

LEMMA TakeKeeps ==
  ASSUME QueueInv, NEW w \in Worker, Take(w)
  PROVE  QueueInv'
<1>1. /\ Typed /\ WorkOK /\ WaitOK /\ OwedOK /\ ClaimOK /\ Agrees(acct) /\ w \in Consumer
      /\ worker[w].pc = "ready" /\ auto' = auto /\ acct' = Next1(acct) /\ worker' = Took(acct, w)
      /\ UNCHANGED <<site, caller, service, owed, announced>>
  BY DEF QueueInv, Take
<1>2. acct.task = "running"
  BY <1>1, TaskRuns
<1>3. OthersRun(acct, w)
  BY <1>1 DEF OthersRun, WorkOK, Working
<1>4. /\ worker' \in [Worker -> Task] /\ \A v \in Worker \ {w} : worker'[v] = worker[v]
      /\ WorkOK' /\ LevelOK' /\ TaskOK' /\ Agrees(acct') /\ Leases(acct', auto') /\ Carried(acct, acct')
  BY <1>1, <1>2, <1>3, TakesNext
<1>5. ClaimOK'
  <2>1. \A v \in Worker : worker[v].pc = "busy" => worker'[v] = worker[v]
    BY <1>1, <1>4
  <2> QED BY <1>1, <2>1, ClaimStill
<1>6. WaitOK'
  BY <1>1, <1>4 DEF WaitOK, Carried
<1>7. OwedOK'
  BY <1>1, <1>4 DEF OwedOK, Up, Carried, Typed
<1>8. Typed'
  BY <1>1, <1>4 DEF Typed, Agrees, Worker
<1> QED BY <1>4, <1>5, <1>6, <1>7, <1>8, InvNext

\* The entry of a consumer ends; it takes the next one, or leaves.
LEMMA ConsumerLeavesKeeps ==
  ASSUME QueueInv, NEW w \in Consumer, Working(w), NEW cancelled \in BOOLEAN, ConsumerLeaves(w, cancelled),
         site' \in [Site -> Row],
         \A x \in Site : site'[x].owner \in Worker => site'[x] = site[x] /\ site'[x].owner # w,
         caller' \in [Caller -> Call], \A c \in Caller : Stays(caller[c], caller'[c]),
         \A c \in Caller : caller'[c].pc \in {"join", "own"} => caller[c].site # SiteOf(w),
         UNCHANGED <<service, announced>>
  PROVE  QueueInv'
<1>1. PICK s : s = SiteOf(w)
  OBVIOUS
<1>2. PICK a : a = Left(acct, s)
  OBVIOUS
<1>3. /\ auto' = auto
      /\ \/ acct' = a /\ worker' = [worker EXCEPT ![w] = Off]
         \/ acct' = Next1(a) /\ worker' = Took(a, w)
      /\ owed' \subseteq owed
      /\ s \in owed' => ~Enriches(acct.run[s]) /\ Up
  BY <1>1, <1>2 DEF ConsumerLeaves
<1>4. /\ Typed /\ WorkOK /\ WaitOK /\ OwedOK /\ ClaimOK /\ Agrees(acct) /\ Leases(acct, auto)
      /\ w \in Worker /\ s \in Site /\ acct.run[s] # "none"
  BY <1>1 DEF QueueInv, WorkOK, Worker
<1>5. /\ Agrees(a) /\ a.task = acct.task /\ a.pending \subseteq acct.pending
      /\ a.run[s] = "none"
      /\ Up /\ Enriches(acct.follow[s]) => Enriches(a.want[s])
      /\ \A x \in Site \ {s} : /\ a.want[x] = acct.want[x] /\ a.run[x] = acct.run[x]
                               /\ a.follow[x] = acct.follow[x]
  BY <1>2, <1>4, LeftFacts
<1>6. acct.task = "running"
  BY TaskRuns DEF Working
<1>7. OthersRun(a, w)
  <2>1. \A v \in Consumer \ {w} : Working(v) => SiteOf(v) \in Site \ {s}
    BY <1>1, <1>4 DEF WorkOK, Worker
  <2>2. ASSUME NEW x \in Site, a.run[x] # "none"
        PROVE  \E v \in Consumer \ {w} : Working(v) /\ SiteOf(v) = x
    <3>1. x # s /\ acct.run[x] # "none"
      BY <1>5, <2>2
    <3>2. PICK v \in Consumer : Working(v) /\ SiteOf(v) = x
      BY <1>4, <3>1 DEF WorkOK
    <3> QED BY <1>1, <3>1, <3>2
  <2> QED BY <1>4, <1>5, <2>1, <2>2 DEF OthersRun, WorkOK
<1>8. /\ worker' \in [Worker -> Task] /\ \A v \in Worker \ {w} : worker'[v] = worker[v]
      /\ WorkOK' /\ LevelOK' /\ TaskOK' /\ Agrees(acct') /\ Leases(acct', auto') /\ Carried(a, acct')
  BY <1>3, <1>5, <1>6, <1>7, TakesNext
<1>9. ClaimOK'
  <2>1. \A v \in Worker \ {w} : worker'[v] = worker[v]
    BY <1>8
  <2> QED BY <1>4, <2>1, ClaimStill
<1>10. WaitOK'
  <2>1. \A c \in Caller : caller'[c].pc \in {"join", "own"} => caller[c].site \in Site \ {s}
    BY <1>1, <1>4 DEF WaitOK, Stays
  <2> QED BY <1>4, <1>5, <1>8, <2>1, WaitStill DEF Carried
<1>11. OwedOK'
  <2> SUFFICES ASSUME Up, NEW x \in owed' PROVE Covered(acct', auto', x)
    BY DEF OwedOK, Up, Covered
  <2>1. Covered(acct, auto, x) /\ x \in Site
    BY <1>3, <1>4 DEF OwedOK, Covered, Typed
  <2>2. CASE x # s
    BY <1>3, <1>5, <1>8, <2>1, <2>2 DEF Covered, Carried
  <2>3. CASE x = s
    <3>1. s \in acct.pending /\ acct.want[s] = "none"
      BY <1>4 DEF Agrees, AgreesWith
    <3>2. ~Enriches(auto.follow[s]) /\ ~Enriches(acct.want[s])
      BY <1>4, <3>1 DEF Leases, Enriches
    <3>3. Enriches(a.want[s])
      BY <1>3, <1>5, <2>1, <2>3, <3>2 DEF Covered
    <3> QED BY <1>4, <1>8, <2>3, <3>3 DEF Covered, Carried
  <2> QED BY <2>2, <2>3
<1>12. Typed'
  BY <1>3, <1>4, <1>8 DEF Typed, Agrees, Worker
<1> QED BY <1>8, <1>9, <1>10, <1>11, <1>12, InvNext

\* What becomes of the follow-up of a lease that ends.
FollowUp(s, b, level, r) ==
  \/ /\ ~Enriches(level) \/ ~Up
     /\ auto' = b /\ acct' = acct
     /\ owed' = IF Up THEN owed ELSE owed \ {s}
  \/ /\ Enriches(level) /\ Up
     /\ \E others \in Elsewhere :
          LET t == Scheduled(r, <<s>>, acct, b, others)
          IN  auto' = t.auto /\ acct' = t.acct /\ owed' = owed \ t.rejected

\* The lease of a sweeper ends; a follow-up asks the queue for a place.
LEMMA LeaseEnds ==
  ASSUME QueueInv, NEW w \in Sweeper, Working(w), NEW cancelled \in BOOLEAN, SweeperLeaves(w, cancelled),
         service' = service
  PROVE  /\ Agrees(acct') /\ Leases(acct', auto') /\ Stronger(acct, acct') /\ TaskAsked(acct, acct')
         /\ auto'.pending = auto.pending \ {SiteOf(w)} /\ auto'.task = auto.task
         /\ owed' \subseteq Site /\ OwedOK'
<1>1. PICK s : s = SiteOf(w)
  OBVIOUS
<1>2. /\ Typed /\ OwedOK /\ Agrees(acct) /\ Leases(acct, auto) /\ auto \in Sweep
      /\ s \in Site /\ s \in auto.pending /\ s \notin acct.pending
  BY <1>1 DEF QueueInv, WorkOK, Leases, Worker
<1>13. PICK b : b = [auto EXCEPT !.pending = @ \ {s}, !.follow[s] = "none"]
  OBVIOUS
<1>14. PICK F, P : F = [auto.follow EXCEPT ![s] = "none"] /\ P = auto.pending \ {s}
  OBVIOUS
<1>3. /\ F = [auto.follow EXCEPT ![s] = "none"] /\ P = auto.pending \ {s}
      /\ b = [auto EXCEPT !.pending = P, !.follow = F]
  BY <1>2, <1>13, <1>14 DEF Sweep
<1>4. F \in [Site -> Levels] /\ F[s] = "none" /\ \A x \in Site \ {s} : F[x] = auto.follow[x]
  BY <1>2, <1>3 DEF Sweep, Levels
<1>5. b \in Sweep /\ b.pending = P /\ b.follow = F /\ b.task = auto.task
  BY <1>2, <1>3, <1>4 DEF Sweep
<1>6. Leases(acct, b)
  BY <1>2, <1>3, <1>4, <1>5 DEF Leases
<1>7. PICK level, r : level = auto.follow[s] /\ r = Request(TRUE, level = "own", level)
  OBVIOUS
<1>8. \/ /\ ~Enriches(level) \/ ~Up
         /\ auto' = b /\ acct' = acct
         /\ owed' = IF Up THEN owed ELSE owed \ {s}
      \/ /\ Enriches(level) /\ Up
         /\ \E others \in Elsewhere :
              LET t == Scheduled(r, <<s>>, acct, b, others)
              IN  auto' = t.auto /\ acct' = t.acct /\ owed' = owed \ t.rejected
  <2>1. FollowUp(SiteOf(w), [auto EXCEPT !.pending = @ \ {SiteOf(w)}, !.follow[SiteOf(w)] = "none"],
                 auto.follow[SiteOf(w)],
                 Request(TRUE, auto.follow[SiteOf(w)] = "own", auto.follow[SiteOf(w)]))
    BY Zenon DEF SweeperLeaves, FollowUp
  <2>2. FollowUp(s, b, level, r)
    BY <1>1, <1>7, <1>13, <2>1, Zenon
  <2> QED BY <2>2, Zenon DEF FollowUp
<1>9. \A x \in owed : Up => Covered(acct, auto, x)
  BY <1>2 DEF OwedOK, Covered
<1>10. CASE /\ ~Enriches(level) \/ ~Up
            /\ auto' = b /\ acct' = acct
            /\ owed' = IF Up THEN owed ELSE owed \ {s}
  <2>1. Stronger(acct, acct') /\ TaskAsked(acct, acct')
    BY <1>10 DEF Stronger, TaskAsked
  <2>2. OwedOK'
    <3> SUFFICES ASSUME Up, NEW x \in owed PROVE Covered(acct, b, x)
      BY <1>10 DEF OwedOK, Up, Covered
    <3>1. Covered(acct, auto, x) /\ x \in Site
      BY <1>2, <1>9 DEF Typed
    <3> QED BY <1>4, <1>5, <1>7, <1>10, <3>1 DEF Covered
  <2> QED BY <1>1, <1>2, <1>3, <1>5, <1>6, <1>10, <2>1, <2>2 DEF Typed
<1>11. CASE /\ Enriches(level) /\ Up
            /\ \E others \in Elsewhere :
                 LET t == Scheduled(r, <<s>>, acct, b, others)
                 IN  auto' = t.auto /\ acct' = t.acct /\ owed' = owed \ t.rejected
  <2>1. PICK sites : sites = <<s>>
    OBVIOUS
  <2>2. PICK others \in Elsewhere :
          LET t == Scheduled(r, sites, acct, b, others)
          IN  auto' = t.auto /\ acct' = t.acct /\ owed' = owed \ t.rejected
    BY <1>11, <2>1, Zenon
  <2>3. PICK t : t = Scheduled(r, sites, acct, b, others)
    OBVIOUS
  <2>4. auto' = t.auto /\ acct' = t.acct /\ owed' = owed \ t.rejected
    BY <2>2, <2>3
  <2>5. r \in Requests /\ r.level = level /\ Enriches(r.level)
    <3>1. level \in Levels \ {"none"}
      BY <1>2, <1>7, <1>11 DEF Sweep, Enriches
    <3> QED BY <1>7, <1>11, <3>1 DEF Request, Requests
  <2>6. sites \in Seq(Site) /\ Distinct(sites) /\ ToSet(sites) = {s}
    BY <1>2, <2>1, HoldsOne
  <2>7. ScheduledOK(acct, b, r, {s}, t)
    <3> HIDE <2>1
    <3>1. others \in Elsewhere
      OBVIOUS
    <3>2. ScheduledOK(acct, b, r, ToSet(sites), t)
      BY <1>2, <1>6, <2>3, <2>5, <2>6, <3>1, ScheduledFacts
    <3> QED BY <2>6, <3>2
  <2>8. /\ Agrees(acct') /\ Leases(acct', auto') /\ Stronger(acct, acct') /\ TaskAsked(acct, acct')
        /\ SweepTold(b, auto') /\ t.accepted \cup t.rejected = {s}
        /\ \A x \in t.accepted : Covered(acct', auto', x)
    BY <2>4, <2>5, <2>7 DEF ScheduledOK, TaskAsked
  <2>9. auto'.pending = auto.pending \ {s} /\ auto'.task = auto.task
    BY <1>3, <1>5, <2>8 DEF SweepTold
  <2>10. OwedOK'
    <3> SUFFICES ASSUME Up, NEW x \in owed \ t.rejected PROVE Covered(acct', auto', x)
      BY <2>4 DEF OwedOK, Up, Covered
    <3>1. Covered(acct, auto, x) /\ x \in Site
      BY <1>2, <1>9 DEF Typed
    <3>2. CASE x = s
      <4>1. s \in t.accepted
        BY <2>8, <3>2
      <4> QED BY <2>8, <3>2, <4>1
    <3>3. CASE x # s
      <4>1. Covered(acct, b, x)
        BY <1>4, <1>5, <3>1, <3>3 DEF Covered
      <4> QED BY <2>8, <3>1, <4>1, CoveredStill
    <3> QED BY <3>2, <3>3
  <2> QED BY <1>1, <1>2, <2>4, <2>8, <2>9, <2>10 DEF Typed
<1> QED BY <1>8, <1>10, <1>11

LEMMA SweeperLeavesKeeps ==
  ASSUME QueueInv, NEW w \in Sweeper, Working(w), NEW cancelled \in BOOLEAN, SweeperLeaves(w, cancelled),
         site' \in [Site -> Row],
         \A x \in Site : site'[x].owner \in Worker => site'[x] = site[x] /\ site'[x].owner # w,
         caller' \in [Caller -> Call], \A c \in Caller : Stays(caller[c], caller'[c]),
         UNCHANGED <<service, announced>>
  PROVE  QueueInv'
<1>1. PICK s : s = SiteOf(w)
  OBVIOUS
<1>2. /\ Typed /\ WorkOK /\ LevelOK /\ TaskOK /\ ClaimOK
      /\ w \in Worker /\ \A v \in Consumer : v # w /\ v \in Worker
      /\ \A v \in Worker : worker[v] \in Task
      /\ \A x \in Site : acct.run[x] \in Levels
  BY Workers DEF QueueInv, Worker, Typed, Account
<1>3. /\ Agrees(acct') /\ Leases(acct', auto') /\ Stronger(acct, acct') /\ TaskAsked(acct, acct')
      /\ auto'.pending = auto.pending \ {s} /\ auto'.task = auto.task
      /\ owed' \subseteq Site /\ OwedOK'
  BY <1>1, LeaseEnds
<1>4. PICK n : n = IF cancelled THEN Off ELSE [Off EXCEPT !.pc = "ready"]
  OBVIOUS
<1>5. n \in Task /\ n.pc \in {"off", "ready"}
  BY <1>4 DEF Off, Task, Levels
<1>6. worker' = [worker EXCEPT ![w] = n]
  BY <1>4 DEF SweeperLeaves
<1>7. worker' \in [Worker -> Task] /\ worker'[w] = n /\ \A v \in Worker \ {w} : worker'[v] = worker[v]
  BY <1>2, <1>5, <1>6 DEF Typed
<1>8. ~Working(w)' /\ \A v \in Worker \ {w} : (Working(v)' <=> Working(v)) /\ SiteOf(v)' = SiteOf(v)
  BY <1>5, <1>7 DEF Working, SiteOf
<1>9. /\ \A x \in Site : acct'.run[x] = "none" <=> acct.run[x] = "none"
      /\ \A x \in Site : acct'.run[x] = "metadata" <=> acct.run[x] = "metadata"
      /\ \A x \in Site : acct'.run[x] \in Levels
  BY <1>3 DEF Stronger, Agrees, Account
<1>10. WorkOK'
  <2>1. /\ \A v \in Worker : Working(v)' => SiteOf(v)' \in Site
        /\ \A v, u \in Worker : v # u /\ Working(v)' /\ Working(u)' => SiteOf(v)' # SiteOf(u)'
    BY <1>2, <1>8 DEF WorkOK
  <2>2. /\ \A v \in Consumer : Working(v)' => acct'.run[SiteOf(v)'] # "none"
        /\ \A v \in Consumer : worker'[v].pc # "query"
    BY <1>2, <1>7, <1>8, <1>9 DEF WorkOK
  <2>3. \A x \in Site : acct'.run[x] # "none" => \E v \in Consumer : Working(v)' /\ SiteOf(v)' = x
    BY <1>2, <1>8, <1>9 DEF WorkOK
  <2>4. \A v \in Sweeper : Working(v)' => SiteOf(v)' \in auto'.pending
    BY <1>1, <1>2, <1>3, <1>8 DEF WorkOK, Worker
  <2> QED BY <2>1, <2>2, <2>3, <2>4 DEF WorkOK
<1>11. LevelOK'
  <2> SUFFICES ASSUME NEW v \in Consumer, worker'[v].pc = "busy", Enriches(acct'.run[SiteOf(v)'])
               PROVE  Enriches(worker'[v].level)
    BY DEF LevelOK
  <2>1. worker'[v] = worker[v] /\ Working(v) /\ SiteOf(v)' = SiteOf(v) /\ v \in Worker
    BY <1>2, <1>7, <1>8 DEF Working
  <2>2. SiteOf(v) \in Site
    BY <1>2, <2>1 DEF WorkOK
  <2>3. Enriches(acct.run[SiteOf(v)])
    BY <1>2, <1>9, <2>1, <2>2 DEF Enriches, Levels
  <2> QED BY <1>2, <2>1, <2>3 DEF LevelOK
<1>12. TaskOK'
  <2>1. Alive(auto)
    BY <1>2 DEF TaskOK, Working
  <2> QED BY <1>2, <1>3, <1>7, <2>1 DEF TaskOK, TaskAsked, Alive
<1>13. ClaimOK'
  <2>1. \A v \in Worker \ {w} : worker'[v] = worker[v]
    BY <1>7
  <2> QED BY <1>2, <2>1, ClaimStill
<1>14. WaitOK'
  BY <1>3, RequestWaits
<1>15. Typed'
  BY <1>2, <1>3, <1>7 DEF Typed, Agrees, Leases, Worker
<1> QED BY <1>3, <1>10, <1>11, <1>12, <1>13, <1>14, <1>15, InvNext

\* A worker gets a permit and the row: the claim is its own, and it does what its
\* entry asks at that moment.
LEMMA StartKeeps ==
  ASSUME QueueInv, NEW w \in Worker, Start(w)
  PROVE  QueueInv'
<1>1. PICK s, k, row, level : s = SiteOf(w) /\ k = worker[w] /\ row = site[s] /\ level = LevelAtStart(w)
  OBVIOUS
<1>2. /\ Typed /\ WorkOK /\ LevelOK /\ TaskOK /\ ClaimOK /\ WaitOK /\ OwedOK
      /\ UNCHANGED <<acct, auto, caller, service, owed>> /\ announced' \subseteq announced
  BY DEF QueueInv, Start, Without
<1>3. k \in Task /\ k.pc = "slot" /\ k.site = s /\ s \in Site /\ row \in Row /\ Working(w)
  BY <1>1, <1>2 DEF Typed, WorkOK, Start, MayStart, Working, SiteOf
<1>4. level \in Levels /\ (w \in Consumer => level = acct.run[s])
  BY <1>1, <1>2, <1>3 DEF LevelAtStart, Typed, Account, Levels
<1>5. row.owner \notin Worker
  <2>1. row.status # "pending"
    BY <1>1 DEF Start, Claimable
  <2> QED BY <1>1, <1>2, <1>3, <2>1 DEF ClaimOK
<1>6. PICK n, m : n = [k EXCEPT !.pc = "busy", !.level = level]
                  /\ m = [row EXCEPT !.status = "pending", !.owner = w]
  OBVIOUS
<1>7. /\ n \in Task /\ n.pc = "busy" /\ n.site = s /\ n.level = level
      /\ m \in Row /\ m.status = "pending" /\ m.owner = w
  BY <1>3, <1>4, <1>6 DEF Task, Row, Status
<1>8. worker' = [worker EXCEPT ![w] = n] /\ site' = [site EXCEPT ![s] = m]
  BY <1>1, <1>2, <1>6 DEF Start, Typed
<1>9. /\ worker' \in [Worker -> Task] /\ worker'[w] = n /\ \A v \in Worker \ {w} : worker'[v] = worker[v]
      /\ site' \in [Site -> Row] /\ site'[s] = m /\ \A x \in Site \ {s} : site'[x] = site[x]
  BY <1>2, <1>3, <1>7, <1>8 DEF Typed
<1>10. \A v \in Worker : (Working(v)' <=> Working(v)) /\ SiteOf(v)' = SiteOf(v)
  BY <1>1, <1>3, <1>7, <1>9 DEF Working, SiteOf
<1>11. Typed' /\ Agrees(acct') /\ Leases(acct', auto')
  BY <1>2, <1>9 DEF Typed, QueueInv, Worker
<1>12. WorkOK'
  <2>1. \A v \in Consumer : worker'[v].pc # "query"
    BY <1>2, <1>7, <1>9 DEF WorkOK, Worker
  <2> QED BY <1>2, <1>10, <2>1 DEF WorkOK, Worker
<1>13. LevelOK'
  <2> SUFFICES ASSUME NEW v \in Consumer, worker'[v].pc = "busy", Enriches(acct.run[SiteOf(v)'])
               PROVE  Enriches(worker'[v].level)
    BY <1>2 DEF LevelOK
  <2>1. CASE v = w
    BY <1>1, <1>3, <1>4, <1>7, <1>9, <1>10, <2>1
  <2>2. CASE v # w
    BY <1>2, <1>9, <1>10, <2>2 DEF LevelOK, Worker
  <2> QED BY <2>1, <2>2
<1>14. TaskOK'
  BY <1>2, <1>3, <1>1, <1>9 DEF TaskOK, Alive, Worker
<1>15. ClaimOK'
  <2> SUFFICES ASSUME NEW x \in Site, site'[x].owner \in Worker
               PROVE  /\ site'[x].status = "pending" /\ worker'[site'[x].owner].pc = "busy"
                      /\ worker'[site'[x].owner].site = x
    BY DEF ClaimOK, SiteOf
  <2>1. CASE x = s
    BY <1>7, <1>9, <2>1
  <2>2. CASE x # s
    <3>1. site'[x] = site[x] /\ site[x].owner # w
      BY <1>1, <1>2, <1>3, <1>9, <2>2 DEF ClaimOK
    <3> QED BY <1>2, <1>9, <3>1 DEF ClaimOK, SiteOf
  <2> QED BY <2>1, <2>2
<1>16. WaitOK' /\ OwedOK'
  BY <1>2 DEF WaitOK, OwedOK, Up
<1> QED BY <1>11, <1>12, <1>13, <1>14, <1>15, <1>16, InvNext

\* When work ends no row keeps a claim of that worker.
LEMMA RowLeft ==
  ASSUME QueueInv, NEW w \in Worker, Working(w),
         \/ site' = site /\ ~(worker[w].pc = "busy" /\ Mine(w))
         \/ \E status \in Status, enriched \in BOOLEAN : Ended(SiteOf(w), status, enriched)
  PROVE  /\ site' \in [Site -> Row]
         /\ \A x \in Site : site'[x].owner \in Worker => site'[x] = site[x] /\ site'[x].owner # w
<1>1. /\ site \in [Site -> Row] /\ ClaimOK /\ SiteOf(w) \in Site /\ NoOne \notin Worker
  BY Workers DEF QueueInv, Typed, WorkOK, Worker
<1>2. CASE site' = site /\ ~(worker[w].pc = "busy" /\ Mine(w))
  BY <1>1, <1>2 DEF ClaimOK, Mine
<1>3. CASE \E status \in Status, enriched \in BOOLEAN : Ended(SiteOf(w), status, enriched)
  <2>1. PICK s : s = SiteOf(w)
    OBVIOUS
  <2>2. s \in Site
    BY <1>1, <2>1
  <2>3. PICK status \in Status, enriched \in BOOLEAN : Ended(s, status, enriched)
    BY <1>3, <2>1
  <2>4. site' \in [Site -> Row] /\ site'[s].owner = NoOne /\ \A x \in Site \ {s} : site'[x] = site[x]
    BY <1>1, <2>2, <2>3, RowEnds
  <2> QED BY <1>1, <2>1, <2>4 DEF ClaimOK
<1> QED BY <1>2, <1>3

\* Work on a site ends, however it ends.
LEMMA LeavesKeeps ==
  ASSUME QueueInv, NEW w \in Worker, Working(w), NEW cancelled \in BOOLEAN, Leaves(w, cancelled),
         \/ site' = site /\ ~(worker[w].pc = "busy" /\ Mine(w))
         \/ \E status \in Status, enriched \in BOOLEAN : Ended(SiteOf(w), status, enriched),
         NEW result \in Results, NEW attempt \in BOOLEAN, NEW wrote \in BOOLEAN,
         Resolve(SiteOf(w), result, attempt, wrote),
         UNCHANGED <<service, announced>>
  PROVE  QueueInv'
<1>1. /\ site' \in [Site -> Row]
      /\ \A x \in Site : site'[x].owner \in Worker => site'[x] = site[x] /\ site'[x].owner # w
  BY RowLeft
<1>2. caller \in [Caller -> Call]
  BY DEF QueueInv, Typed
<1>3. PICK s : s = SiteOf(w)
  OBVIOUS
<1>4. Resolve(s, result, attempt, wrote)
  BY <1>3
<1>5. /\ caller' \in [Caller -> Call] /\ \A c \in Caller : Stays(caller[c], caller'[c])
      /\ \A c \in Caller : caller'[c].pc \in {"join", "own"} => caller[c].site # SiteOf(w)
  BY <1>2, <1>3, <1>4, Resolved
<1>6. CASE w \in Consumer
  BY <1>1, <1>5, <1>6, ConsumerLeavesKeeps DEF Leaves
<1>7. CASE w \notin Consumer
  BY <1>1, <1>5, <1>7, SweeperLeavesKeeps DEF Leaves, Worker
<1> QED BY <1>6, <1>7

LEMMA WorkEndsKeeps ==
  ASSUME QueueInv, NEW w \in Worker,
         Refused(w) \/ Breaks(w) \/ Cancelled(w) \/ \E status \in {"complete", "failed"} : Return(w, status)
  PROVE  QueueInv'
<1>1. \A l : Enriches(l) \in BOOLEAN
  BY DEF Enriches
<1>2. CASE Refused(w)
  <2>1. Working(w) /\ site' = site /\ Leaves(w, FALSE) /\ UNCHANGED <<service, announced>>
        /\ Resolve(SiteOf(w), "none", Enriches(LevelAtStart(w)), FALSE) /\ worker[w].pc = "slot"
    BY <1>2 DEF Refused, MayStart, Working
  <2>2. "none" \in Results
    BY DEF Results
  <2> QED BY <1>1, <2>1, <2>2, LeavesKeeps
<1>3. CASE Breaks(w)
  <2>1. Working(w) /\ Leaves(w, FALSE) /\ UNCHANGED <<service, announced>>
        /\ Resolve(SiteOf(w), "none", Enriches(worker[w].level), FALSE)
        /\ IF Mine(w) THEN Ended(SiteOf(w), "failed", FALSE) ELSE site' = site
    BY <1>3 DEF Breaks, Working
  <2>2. "none" \in Results /\ "failed" \in Status
    BY DEF Results, Status
  <2> QED BY <1>1, <2>1, <2>2, LeavesKeeps
<1>4. CASE Cancelled(w)
  <2>1. Working(w) /\ Leaves(w, TRUE) /\ UNCHANGED <<service, announced>>
        /\ Resolve(SiteOf(w), "cancelled", FALSE, FALSE)
    BY <1>4 DEF Cancelled
  <2>2. \/ site' = site /\ ~(worker[w].pc = "busy" /\ Mine(w))
        \/ Ended(SiteOf(w), "new", FALSE) \/ Ended(SiteOf(w), "complete", TRUE) \/ Ended(SiteOf(w), "stale", FALSE)
    BY <1>4 DEF Cancelled
  <2>3. "cancelled" \in Results /\ {"new", "complete", "stale"} \subseteq Status
    BY DEF Results, Status
  <2> QED BY <2>1, <2>2, <2>3, LeavesKeeps
<1>5. ASSUME NEW status \in {"complete", "failed"}, Return(w, status) PROVE QueueInv'
  <2>1. Working(w) /\ Leaves(w, FALSE) /\ UNCHANGED <<service, announced>>
    BY <1>5 DEF Return, Working
  <2>2. PICK answers \in BOOLEAN :
          /\ IF Mine(w) THEN Ended(SiteOf(w), status, answers) ELSE site' = site
          /\ Resolve(SiteOf(w), IF worker[w].level = "bulk" /\ ~Mine(w) THEN "none" ELSE status,
                     Enriches(worker[w].level) \/ status = "failed", answers /\ Mine(w))
    BY <1>5, Zenon DEF Return
  <2>3. PICK result, attempt, wrote :
          /\ result = IF worker[w].level = "bulk" /\ ~Mine(w) THEN "none" ELSE status
          /\ attempt = (Enriches(worker[w].level) \/ status = "failed")
          /\ wrote = (answers /\ Mine(w))
    OBVIOUS
  <2>4. Resolve(SiteOf(w), result, attempt, wrote)
    BY <2>2, <2>3, Zenon
  <2>5. result \in Results /\ attempt \in BOOLEAN /\ wrote \in BOOLEAN
    BY <2>3 DEF Results
  <2>6. status \in Status
    BY DEF Status
  <2>7. \/ site' = site /\ ~(worker[w].pc = "busy" /\ Mine(w))
        \/ \E st \in Status, enriched \in BOOLEAN : Ended(SiteOf(w), st, enriched)
    BY <2>2, <2>6
  <2> QED BY <2>1, <2>4, <2>5, <2>7, LeavesKeeps
<1> QED BY <1>2, <1>3, <1>4, <1>5

-----------------------------------------------------------------------------
(* The invariant. *)

LEMMA InitOK == Init => QueueInv
<1> SUFFICES ASSUME Init PROVE QueueInv
  OBVIOUS
<1>1. /\ acct = NoAccount /\ auto = NoSweep /\ owed = {} /\ announced = {} /\ service = "up"
      /\ worker = [w \in Worker |-> Off] /\ caller = [c \in Caller |-> Out]
      /\ site \in [Site -> {[status |-> st, owner |-> NoOne, enriched |-> FALSE] : st \in Initial}]
  BY DEF Init
<1>2. /\ site \in [Site -> Row] /\ \A s \in Site : site[s].owner = NoOne
  <2>1. ASSUME NEW s \in Site PROVE site[s] \in Row /\ site[s].owner = NoOne
    <3>1. PICK st \in Initial : site[s] = [status |-> st, owner |-> NoOne, enriched |-> FALSE]
      BY <1>1
    <3>2. st \in Status
      BY InitialStatus
    <3> QED BY <3>1, <3>2 DEF Row
  <2> QED BY <1>1, <2>1
<1>3. Off \in Task /\ Off.pc = "off" /\ Out \in Call /\ Out.pc = "out"
  BY DEF Off, Out, Task, Call, CallerPC, Levels
<1>4. Agrees(NoAccount) /\ NoAccount.pending = {} /\ NoAccount.task = "none"
      /\ \A s \in Site : NoAccount.run[s] = "none"
  BY EmptyAccount DEF NoAccount, NoLevels
<1>5. NoSweep \in Sweep /\ NoSweep.pending = {} /\ \A s \in Site : NoSweep.follow[s] = "none"
  BY DEF NoSweep, Sweep, NoLevels, Levels
<1>6. Leases(NoAccount, NoSweep)
  BY <1>5 DEF Leases
<1>7. Typed
  BY <1>1, <1>2, <1>3, <1>4, <1>5 DEF Typed, Agrees
<1>8. \A w \in Worker : worker[w].pc = "off"
  BY <1>1, <1>3
<1>9. WorkOK /\ LevelOK /\ TaskOK
  BY <1>1, <1>4, <1>8 DEF WorkOK, LevelOK, TaskOK, Working, Worker
<1>10. ClaimOK
  BY <1>2, Workers DEF ClaimOK, Worker
<1>11. WaitOK /\ OwedOK
  BY <1>1, <1>3 DEF WaitOK, OwedOK
<1> QED BY <1>1, <1>4, <1>6, <1>7, <1>9, <1>10, <1>11 DEF QueueInv

LEMMA NextKeeps == QueueInv /\ [Next]_vars => QueueInv'
<1> SUFFICES ASSUME QueueInv, [Next]_vars PROVE QueueInv'
  OBVIOUS
<1>1. CASE Asks
  BY <1>1, AsksKeep
<1>2. CASE Loop
  BY <1>2, ConsumersKeep, AccountFinishedKeeps, SweepPassKeeps, SweepFinishedKeeps, DownKeeps DEF Loop
<1>3. ASSUME NEW w \in Worker, Works(w) PROVE QueueInv'
  BY <1>3, TakeKeeps, StartKeeps, WorkEndsKeeps, SweepersKeep DEF Works
<1>4. ASSUME NEW c \in Caller, Waits(c) PROVE QueueInv'
  <2>1. CASE Join(c)
    BY <2>1, JoinKeeps
  <2>2. CASE AskQueue(c)
    BY <2>2, AskQueueKeeps
  <2>3. CASE JoinSweep(c) \/ Check(c) \/ Poll(c) \/ PollDeadline(c) \/ TurnedAway(c)
    <3>1. caller[c].pc # "out"
      BY <2>3 DEF JoinSweep, Check, Poll, PollDeadline, TurnedAway
    <3>2. caller[c].site \in Site
      BY <3>1 DEF QueueInv, WaitOK
    <3> QED BY <2>3, <3>2, WaitsKeep
  <2> QED BY <1>4, <2>1, <2>2, <2>3 DEF Waits
<1>5. CASE \E s \in Site : ForeignEnds(s)
  BY <1>5, EnvironmentKeeps
<1>6. CASE Stop \/ Quiet \/ UNCHANGED vars
  BY <1>6, StopKeeps DEF Quiet
<1>7. ASSUME NEW w \in Worker, Breaks(w) \/ DiscoveryFails(w) PROVE QueueInv'
  BY <1>7, WorkEndsKeeps, SweepersKeep
<1>8. CASE \E c \in Caller, s \in Site : Ask(c, s)
  BY <1>8, WaitsKeep
<1>9. CASE \E S \in SUBSET Site : Commit(S)
  BY <1>9, EnvironmentKeeps
<1>10. CASE \E s \in Site : Edit(s, "new") \/ Edit(s, "gone") \/ ForeignClaims(s)
  BY <1>10, EnvironmentKeeps
<1> QED BY <1>1, <1>2, <1>3, <1>4, <1>5, <1>6, <1>7, <1>8, <1>9, <1>10 DEF Next, Ready

\* In every reachable state the maps of the queue, the leases of the sweep, the
\* claims in the rows, the workers and the callers fit together.
THEOREM Invariant == Spec => []QueueInv
<1>1. Init => QueueInv
  BY InitOK
<1>2. QueueInv /\ [Next]_vars => QueueInv'
  BY NextKeeps
<1> QED BY <1>1, <1>2, PTL DEF Spec

\* Every variable keeps its type, and a row that this process claimed is being
\* worked on (TypeOK): no cancelled, failed or edited analysis leaves its stamp.
THEOREM Types == Spec => []TypeOK
<1>1. QueueInv => TypeOK
  <2> SUFFICES ASSUME QueueInv PROVE TypeOK
    OBVIOUS
  <2>1. ToSet(Level) = Levels
    BY LevelRank
  <2>2. acct \in Account /\ auto \in Sweep
    BY DEF QueueInv, Typed
  <2>3. \A s \in Site : LET w == site[s].owner IN
          w \in Worker => site[s].status = "pending" /\ worker[w].pc = "busy" /\ SiteOf(w) = s
    BY DEF QueueInv, ClaimOK
  <2>4. site \in [Site -> [status : Status, owner : Worker \cup {Foreign, NoOne}, enriched : BOOLEAN]]
    BY DEF QueueInv, Typed, Row
  <2>5. /\ acct.task \in {"none", "created", "running", "done"}
        /\ acct.queue \in Seq(Site) /\ acct.pending \subseteq Site /\ acct.overflow \subseteq Site
        /\ {acct.want, acct.run, acct.follow, auto.follow} \subseteq [Site -> ToSet(Level)]
    BY <2>1, <2>2 DEF Account, Sweep
  <2>6. /\ auto.task \in {"none", "running", "failing", "done"} /\ auto.rescan \in BOOLEAN
        /\ {auto.candidates, auto.excluded, auto.pending, owed} \subseteq SUBSET Site
    BY <2>2 DEF QueueInv, Typed, Sweep
  <2>7. worker \in [Worker -> [pc : {"off", "ready", "query", "slot", "busy"},
                               site : Site \cup {NoOne}, level : ToSet(Level)]]
    BY <2>1 DEF QueueInv, Typed, Task
  <2>8. /\ announced \subseteq {"sweep", "save"} \X Site /\ service \in {"up", "stopping", "down"}
        /\ caller \in [Caller -> [pc : CallerPC, site : Site \cup {NoOne}, marked : BOOLEAN, served : BOOLEAN]]
    BY DEF QueueInv, Typed, Call
  <2> QED BY <2>3, <2>4, <2>5, <2>6, <2>7, <2>8 DEF TypeOK
<1> QED BY <1>1, Invariant, PTL

\* The queue and the sweep never work on one site at a time, and neither do two
\* workers of either (NoDoubleFetch): a page is fetched once.
THEOREM OneFetch == Spec => []NoDoubleFetch
<1>1. QueueInv => NoDoubleFetch
  BY DEF QueueInv, Leases, WorkOK, NoDoubleFetch
<1> QED BY <1>1, Invariant, PTL

\* The maps of an account describe the same entries and stay within their limits
\* (QueueAgrees), whatever was upgraded, followed up, cancelled or restarted.
THEOREM MapsAgree == Spec => []QueueAgrees
<1>1. QueueInv => QueueAgrees
  <2> SUFFICES ASSUME QueueInv PROVE QueueAgrees
    OBVIOUS
  <2>1. Agrees(acct) /\ acct \in Account /\ WorkOK
    BY DEF QueueInv, Typed
  <2>2. acct.queue \in Seq(Site) /\ Distinct(acct.queue) /\ acct.pending \subseteq Site
        /\ Queued(acct) = ToSet(acct.queue)
    BY <2>1 DEF Agrees, AgreesWith, Account, Queued
  <2>3. Queued(acct) \subseteq Site /\ Cardinality(Queued(acct)) = Len(acct.queue)
    BY <2>2, Counted, Holds
  <2>4. acct.pending = Queued(acct) \cup {s \in Site : acct.run[s] # "none"}
    BY <2>1, <2>2, <2>3 DEF Agrees, AgreesWith
  <2>5. \A s \in Site : /\ acct.want[s] # "none" <=> s \in Queued(acct)
                        /\ acct.run[s] # "none" <=> \E w \in Consumer : Working(w) /\ SiteOf(w) = s
                        /\ acct.follow[s] # "none" => acct.run[s] = "metadata" /\ Enriches(acct.follow[s])
    BY <2>1, <2>2 DEF Agrees, AgreesWith, WorkOK
  <2>6. acct.overflow \subseteq acct.pending /\ Cardinality(acct.overflow) <= Overflow
    BY <2>1 DEF Agrees, AgreesWith
  <2> QED BY <2>3, <2>4, <2>5, <2>6 DEF QueueAgrees
<1> QED BY <1>1, Invariant, PTL

\* An enrichment that a request was told is queued is queued, running, or noted as
\* the follow-up of the work that runs (NoLostEnrichment).
THEOREM NothingOwedIsLost == Spec => []NoLostEnrichment
<1>1. QueueInv => NoLostEnrichment
  BY DEF QueueInv, OwedOK, NoLostEnrichment
<1> QED BY <1>1, Invariant, PTL

\* Only the start of an analysis makes a consumer that waits for its permit busy.
LEMMA OnlyStartWorks ==
  ASSUME QueueInv, [Next]_vars, NEW w \in Consumer, worker[w].pc = "slot", worker'[w].pc = "busy"
  PROVE  Start(w)
<1>1. /\ w \in Worker /\ w \notin Sweeper /\ \A v \in Worker : worker[v] \in Task
      /\ worker \in [Worker -> Task]
  BY Workers DEF Worker, QueueInv, Typed
<1>2. ~(worker'[w] = worker[w]) /\ ~(worker'[w].pc \in {"off", "ready", "query", "slot"})
  OBVIOUS
<1>3. ASSUME NEW started PROVE worker' # SweepersReady(started)
  BY <1>1, <1>2 DEF SweepersReady
<1>4. worker' # worker
  BY <1>2
<1>5. ~Asks
  BY ZenonT(60), <1>3 DEF Asks, List, SaveBatch, AnalyzeMissing, Imported, Save, Handle
<1>6. ~Loop
  <2>1. ~Spawn
    BY <1>1, <1>2 DEF Spawn, Off
  <2>2. ~SweepPass
    BY <1>3 DEF SweepPass
  <2> QED BY <1>4, <2>1, <2>2 DEF Loop, AccountEnds, AccountFinished, SweepFinished, Down
<1>7. \A c \in Caller : ~Waits(c)
  BY <1>4 DEF Waits, Join, JoinSweep, AskQueue, Check, Poll, PollDeadline, TurnedAway
<1>8. /\ \A s \in Site : ~ForeignEnds(s) /\ ~Edit(s, "new") /\ ~Edit(s, "gone") /\ ~ForeignClaims(s)
      /\ \A c \in Caller, s \in Site : ~Ask(c, s)
      /\ \A S \in SUBSET Site : ~Commit(S)
      /\ ~Stop /\ ~Quiet /\ ~UNCHANGED vars
  BY <1>4 DEF ForeignEnds, Edit, ForeignClaims, Ask, Commit, Stop, Quiet, vars
<1>9. ASSUME NEW v \in Worker, NEW a PROVE worker' # Took(a, v)
  BY <1>1, <1>2 DEF Took, Off
<1>10. ASSUME NEW v \in Worker PROVE worker' # [worker EXCEPT ![v] = Off]
  BY <1>1, <1>2 DEF Off
<1>11. ASSUME NEW v \in Worker, NEW cancelled PROVE ~Leaves(v, cancelled)
  <2>1. CASE v \in Consumer
    BY <1>9, <1>10, <2>1 DEF Leaves, ConsumerLeaves
  <2>2. CASE v \notin Consumer
    BY <1>1, <1>2, <2>2 DEF Leaves, SweeperLeaves
  <2> QED BY <2>1, <2>2
<1>12. ASSUME NEW v \in Worker, Works(v) \/ Breaks(v) \/ DiscoveryFails(v) PROVE Start(v)
  <2>1. ~Take(v) /\ ~Idles(v) /\ ~DiscoveryFails(v)
    BY <1>9, <1>10, <1>12 DEF Take, Idles, DiscoveryFails
  <2>2. ~Refused(v) /\ ~Cancelled(v) /\ ~Breaks(v) /\ \A status \in {"complete", "failed"} : ~Return(v, status)
    BY <1>11 DEF Refused, Cancelled, Breaks, Return
  <2>3. ASSUME NEW found, Pick(v, found), v \in Sweeper PROVE FALSE
    BY <1>1, <1>2, <2>3 DEF Pick, Leased, LookAgain
  <2>4. ~Lease(v) /\ ~Discover(v)
    BY <1>10, <2>3 DEF Lease, Discover
  <2> QED BY <1>12, <2>1, <2>2, <2>4 DEF Works
<1>13. PICK v \in Worker : Start(v)
  BY <1>5, <1>6, <1>7, <1>8, <1>12 DEF Next, Ready
<1>14. v = w
  BY <1>1, <1>2, <1>13 DEF Start
<1> QED BY <1>13, <1>14

\* A caller that waits for an enrichment of its own when the analysis starts gets it:
\* the analysis is never the narrower one of a batch (ForegroundWins).
THEOREM TheForegroundWins == Spec => ForegroundWins
<1>1. QueueInv /\ [Next]_vars =>
        [\A w \in Consumer : worker[w].pc = "slot" /\ worker'[w].pc = "busy"
           /\ (\E c \in Caller : Awaiting(c, SiteOf(w), {"join", "own"})) => worker'[w].level = "own"]_vars
  <2> SUFFICES ASSUME QueueInv, [Next]_vars, NEW w \in Consumer, worker[w].pc = "slot",
                      worker'[w].pc = "busy", NEW c \in Caller, Awaiting(c, SiteOf(w), {"join", "own"})
               PROVE  worker'[w].level = "own"
    OBVIOUS
  <2>1. PICK s, k : s = SiteOf(w) /\ k = worker[w]
    OBVIOUS
  <2>2. /\ s \in Site /\ acct.run[s] # "none" /\ acct.run[s] \in Levels
        /\ k \in Task /\ w \in Worker /\ worker \in [Worker -> Task]
    BY <2>1 DEF QueueInv, Typed, WorkOK, Account, Working, Worker
  <2>3. "own" \in {acct.want[s], acct.run[s]}
    BY <2>1 DEF QueueInv, WaitOK, Awaiting
  <2>4. acct.want[s] = "none"
    BY <2>2 DEF QueueInv, Agrees, AgreesWith
  <2>5. acct.run[s] = "own"
    BY <2>3, <2>4
  <2>6. Start(w)
    BY OnlyStartWorks
  <2>7. worker'[w].level = LevelAtStart(w)
    BY <2>2, <2>6 DEF Start, Task
  <2> QED BY <2>1, <2>5, <2>7 DEF LevelAtStart
<1> QED BY <1>1, Invariant, PTL DEF Spec, ForegroundWins

Answers(c) == caller[c].pc # "answered" /\ caller'[c].pc = "answered"

\* Whose analysis a caller waits for is an enrichment of the queue, whatever it
\* was when the caller came.
LEMMA WaitsForEnrichment ==
  ASSUME QueueInv, NEW c \in Caller, caller[c].pc \in {"join", "own"},
         NEW w \in Worker, Working(w), SiteOf(w) = caller[c].site
  PROVE  /\ w \in Consumer /\ Enriches(LevelAtStart(w))
         /\ worker[w].pc = "busy" => Enriches(worker[w].level)
<1>1. PICK s : s = SiteOf(w)
  OBVIOUS
<1>2. /\ s \in Site /\ "own" \in {acct.want[s], acct.run[s]} /\ Agrees(acct) /\ WorkOK /\ Leases(acct, auto)
      /\ LevelOK
  BY <1>1 DEF QueueInv, WorkOK, WaitOK
<1>3. s \in acct.pending
  BY <1>2 DEF Agrees, AgreesWith
<1>4. w \in Consumer
  BY <1>1, <1>2, <1>3 DEF WorkOK, Leases, Worker
<1>5. acct.run[s] = "own"
  BY <1>1, <1>2, <1>4 DEF WorkOK, Agrees, AgreesWith
<1>6. Enriches(acct.run[s])
  BY <1>5 DEF Enriches
<1> QED BY <1>1, <1>2, <1>4, <1>6 DEF LevelAtStart, LevelOK

\* Dropping a completion answers nobody, and neither does cancelling it.
LEMMA DroppedUnanswered ==
  ASSUME Typed, NEW c \in Caller, NEW S,
         \/ caller' = Abandoned(S)
         \/ caller' = [k \in Caller |-> IF caller[k].site \in S THEN Told(k, caller[k].site, "cancelled") ELSE caller[k]]
  PROVE  ~Answers(c)
<1>1. caller[c] \in Call /\ "cancelled" \in Results
  BY DEF Typed, Results
<1>2. CASE caller' = Abandoned(S)
  BY <1>1, <1>2 DEF Abandoned, Answers, Call
<1>3. CASE caller' = [k \in Caller |-> IF caller[k].site \in S THEN Told(k, caller[k].site, "cancelled") ELSE caller[k]]
  <2>1. PICK s, n : s = caller[c].site /\ n = Told(c, s, "cancelled")
    OBVIOUS
  <2>2. n.pc = "answered" /\ caller[c].pc # "answered" => "cancelled" # "cancelled" \/ "cancelled" = "failed"
    BY <1>1, <2>1, ToldFacts
  <2>3. caller'[c] = n \/ caller'[c] = caller[c]
    BY <1>3, <2>1
  <2> QED BY <2>2, <2>3 DEF Answers
<1> QED BY <1>2, <1>3

\* The end of work answers those who joined an enrichment, and those who waited
\* behind it if it failed.
LEMMA EndsAnswer ==
  ASSUME QueueInv, NEW c \in Caller, Answers(c), NEW w \in Worker,
         Refused(w) \/ Breaks(w) \/ Cancelled(w) \/ \E status \in {"complete", "failed"} : Return(w, status)
  PROVE  caller'[c].served
<1>1. PICK s : s = SiteOf(w)
  OBVIOUS
<1>2. /\ caller \in [Caller -> Call] /\ Working(w) /\ "none" \in Results /\ "cancelled" \in Results
  BY DEF QueueInv, Typed, Results, Refused, Breaks, Cancelled, Return, MayStart, Working
<1>3. CASE Refused(w)
  <2>1. PICK result, attempt, wrote : result = "none" /\ attempt = Enriches(LevelAtStart(w)) /\ wrote = FALSE
    OBVIOUS
  <2>2. Resolve(s, result, attempt, wrote)
    BY <1>1, <1>3, <2>1 DEF Refused
  <2>3. /\ caller[c].site = s /\ (attempt => caller'[c].served)
        /\ caller[c].pc \in {"join", "own"}
    <3>1. attempt \in BOOLEAN
      BY <2>1 DEF Enriches
    <3>2. wrote \in BOOLEAN /\ result \in Results /\ result # "failed"
      BY <2>1 DEF Results
    <3> QED BY <1>2, <2>2, <3>1, <3>2, Resolved DEF Answers
  <2>4. Enriches(LevelAtStart(w))
    BY <1>1, <1>2, <2>3, WaitsForEnrichment
  <2>5. attempt
    BY <2>1, <2>4
  <2> QED BY <2>3, <2>5
<1>4. CASE Breaks(w)
  <2>1. PICK result, attempt, wrote : result = "none" /\ attempt = Enriches(worker[w].level) /\ wrote = FALSE
    OBVIOUS
  <2>2. Resolve(s, result, attempt, wrote) /\ worker[w].pc = "busy"
    BY <1>1, <1>4, <2>1 DEF Breaks
  <2>3. /\ caller[c].site = s /\ (attempt => caller'[c].served)
        /\ caller[c].pc \in {"join", "own"}
    <3>1. attempt \in BOOLEAN
      BY <2>1 DEF Enriches
    <3>2. wrote \in BOOLEAN /\ result \in Results /\ result # "failed"
      BY <2>1 DEF Results
    <3> QED BY <1>2, <2>2, <3>1, <3>2, Resolved DEF Answers
  <2>4. Enriches(worker[w].level)
    BY <1>1, <1>2, <2>2, <2>3, WaitsForEnrichment
  <2>5. attempt
    BY <2>1, <2>4
  <2> QED BY <2>3, <2>5
<1>5. ~Cancelled(w)
  <2>1. Resolve(s, "cancelled", FALSE, FALSE) => "cancelled" # "cancelled" \/ "cancelled" = "failed"
    BY <1>2, Resolved DEF Answers
  <2> QED BY <1>1, <2>1 DEF Cancelled
<1>6. ASSUME NEW status \in {"complete", "failed"}, Return(w, status) PROVE caller'[c].served
  <2>1. PICK answers \in BOOLEAN :
          Resolve(SiteOf(w), IF worker[w].level = "bulk" /\ ~Mine(w) THEN "none" ELSE status,
                  Enriches(worker[w].level) \/ status = "failed", answers /\ Mine(w))
    BY <1>6, Zenon DEF Return
  <2>2. PICK result, attempt, wrote :
          /\ result = IF worker[w].level = "bulk" /\ ~Mine(w) THEN "none" ELSE status
          /\ attempt = (Enriches(worker[w].level) \/ status = "failed")
          /\ wrote = (answers /\ Mine(w))
    OBVIOUS
  <2>3. Resolve(s, result, attempt, wrote)
    BY <1>1, <2>1, <2>2, Zenon
  <2>4. result \in Results /\ attempt \in BOOLEAN /\ wrote \in BOOLEAN /\ (result = "failed" => attempt)
    BY <2>2 DEF Results
  <2>5. /\ caller[c].site = s /\ (attempt => caller'[c].served)
        /\ \/ caller[c].pc \in {"join", "own"} /\ result # "cancelled"
           \/ result = "failed"
    BY <1>2, <2>3, <2>4, Resolved DEF Answers
  <2>6. worker[w].pc = "busy"
    BY <1>6 DEF Return
  <2>7. caller[c].pc \in {"join", "own"} => Enriches(worker[w].level)
    BY <1>1, <1>2, <2>5, <2>6, WaitsForEnrichment
  <2> QED BY <2>2, <2>4, <2>5, <2>7
<1> QED BY <1>3, <1>4, <1>5, <1>6

LEMMA AnswerFollows ==
  ASSUME QueueInv, [Next]_vars, NEW c \in Caller, Answers(c)
  PROVE  \/ caller'[c].served \/ caller'[c].marked
         \/ site[caller[c].site].status \in {"failed", "gone"}
<1>1. Typed /\ caller[c] \in Call /\ caller' # caller /\ caller \in [Caller -> Call]
  BY DEF QueueInv, Typed, Answers
<1>2. \A S : caller' # Abandoned(S)
  BY <1>1, DroppedUnanswered
<1>3. ~Asks
  <2>1. ASSUME NEW r, NEW sites, NEW always, NEW rescan, Handle(r, sites, always, rescan) PROVE FALSE
    <3>1. PICK others \in Elsewhere :
            LET t == Scheduled(r, sites, acct, auto, others)
                ensures == always \/ t.rejected # {}
                b == IF ensures THEN Ensured(t.auto, rescan) ELSE t.auto
            IN  caller' = Abandoned(Replaced(b))
      BY <2>1, Zenon DEF Handle
    <3> QED BY <1>2, <3>1, Zenon
  <2> QED BY <1>2, <2>1 DEF Asks, List, SaveBatch, AnalyzeMissing, Imported, Save
<1>4. ~Loop
  <2>1. ~Spawn /\ ~AccountEnds /\ ~SweepPass
    BY <1>1 DEF Spawn, AccountEnds, SweepPass
  <2>2. ~AccountFinished
    BY <1>1, <1>2 DEF AccountFinished
  <2>3. ~SweepFinished /\ ~Down
    BY <1>1, DroppedUnanswered DEF SweepFinished, Down
  <2> QED BY <2>1, <2>2, <2>3 DEF Loop
<1>5. /\ \A w \in Worker : ~Take(w) /\ ~Start(w) /\ ~Idles(w) /\ ~Lease(w) /\ ~Discover(w) /\ ~DiscoveryFails(w)
      /\ \A s \in Site : ~Edit(s, "new") /\ ~Edit(s, "gone") /\ ~ForeignClaims(s)
      /\ \A S \in SUBSET Site : ~Commit(S)
      /\ ~Stop /\ ~Quiet /\ ~UNCHANGED vars
  BY <1>1 DEF Take, Start, Idles, Lease, Discover, DiscoveryFails, Edit, ForeignClaims, Commit, Stop, Quiet, vars
<1>6. \A s \in Site : ~ForeignEnds(s)
  <2> SUFFICES ASSUME NEW s \in Site, ForeignEnds(s) PROVE FALSE
    OBVIOUS
  <2>1. PICK enriched \in BOOLEAN : caller'[c] = Noted(caller[c], s, FALSE, enriched)
    BY DEF ForeignEnds
  <2>2. PICK k, x, y : k = caller[c] /\ x = (k.served \/ FALSE) /\ y = (k.marked \/ enriched)
    OBVIOUS
  <2>3. caller'[c] = k \/ caller'[c] = [k EXCEPT !.served = x, !.marked = y]
    BY <2>1, <2>2 DEF Noted
  <2> QED BY <1>1, <2>2, <2>3 DEF Answers, Call
<1>7. ASSUME NEW k \in Caller, NEW s \in Site, Ask(k, s) PROVE FALSE
  BY <1>1, <1>7 DEF Ask, Answers, Out, Call
<1>8. ASSUME NEW k \in Caller, Waits(k)
      PROVE  \/ caller'[c].marked
             \/ site[caller[c].site].status \in {"failed", "gone"}
  <2>1. ~Join(k) /\ ~JoinSweep(k) /\ ~PollDeadline(k) /\ ~TurnedAway(k)
    BY <1>1 DEF Join, JoinSweep, PollDeadline, TurnedAway, Answers, Call
  <2>2. ~AskQueue(k)
    <3>1. \A p : p \in {"full", "own"} /\ caller' = [caller EXCEPT ![k].pc = p] => FALSE
      BY <1>1 DEF Answers, Call
    <3>2. AskQueue(k) => \E p \in {"full", "own"} : caller' = [caller EXCEPT ![k].pc = p]
      BY DEF AskQueue
    <3> QED BY <3>1, <3>2
  <2>3. CASE Check(k)
    BY <1>1, <2>3 DEF Check, Answers, Call
  <2>4. CASE Poll(k)
    BY <1>1, <2>4 DEF Poll, Answers, Call
  <2> QED BY <1>8, <2>1, <2>2, <2>3, <2>4 DEF Waits
<1>9. ASSUME NEW w \in Worker, Works(w) \/ Breaks(w) \/ DiscoveryFails(w) PROVE caller'[c].served
  BY <1>5, <1>9, EndsAnswer DEF Works
<1> QED BY <1>3, <1>4, <1>5, <1>6, <1>7, <1>8, <1>9 DEF Next, Ready

\* A caller of analyze_and_wait is answered after an enrichment of its site, its
\* failure or its deletion, never after a metadata pass (AnswerIsEnrichment).
THEOREM AnswersAreEnrichments == Spec => AnswerIsEnrichment
<1>1. QueueInv /\ [Next]_vars =>
        [\A c \in Caller : caller[c].pc # "answered" /\ caller'[c].pc = "answered" =>
           \/ caller'[c].served \/ caller'[c].marked
           \/ site[caller[c].site].status \in {"failed", "gone"}]_vars
  BY AnswerFollows DEF Answers
<1> QED BY <1>1, Invariant, PTL DEF Spec, AnswerIsEnrichment

=============================================================================
