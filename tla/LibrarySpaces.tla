--------------------------- MODULE LibrarySpaces ---------------------------
(***************************************************************************)
(* One account's library: Sites in Categories, Tags, Spaces of Sites, and  *)
(* what is decided outside a transaction and committed later: the merge of *)
(* similar Sites, the reclassification of the library, the model's choice  *)
(* of a category and the Space batches an Agent draft proposes.            *)
(*                                                                         *)
(* A handler reads without a transaction (each read sees the last commit)  *)
(* until its first write takes SQLite's writer lock; from there to the     *)
(* commit it is alone. So a request is some reading steps, whose results   *)
(* wait in `req`, and one writing step. Handlers that take the lock first, *)
(* or whose version claim makes every earlier read current, are one step.  *)
(***************************************************************************)
EXTENDS Integers, FiniteSets, Sequences

CONSTANTS
    Site, Category, Tag, Space, Op, Tab,
    Key,            \* page fingerprints and hosts: Sites with one key are alike
    Default,        \* the category nobody can delete
    Order,          \* creation order of Sites, which is also the ranking of alike ones
    Plan,           \* per operation: what its draft asks for, and of which Space
    None,           \* no draft, no receipt
    FirstSites,     \* the library before the first request
    FirstSpaces,
    FirstLabels,
    Proposed,       \* the operations already proposed then, in order
    MaxRequests,    \* bound on the requests of a behaviour
    MaxBulk,        \* bound on the Sites of one deletion
    MaxTags         \* bound on the tags of one request, import or answer

ASSUME LibraryAssumption ==
    /\ Default \in Category
    /\ Order \in [Site -> Nat] /\ \A s, u \in Site : Order[s] = Order[u] => s = u
    /\ Plan \in [Op -> [create : BOOLEAN, space : Space, sites : SUBSET Site]]
    /\ \A o, q \in Op : Plan[o].create /\ Plan[q].space = Plan[o].space => q = o
    /\ Proposed \in Seq(Op)
    /\ IsFiniteSet(Site) /\ MaxRequests \in Nat /\ MaxBulk \in Nat /\ MaxTags \in Nat

ASSUME NoneAssumption == None \notin Op /\ \A S \in SUBSET Site : None # S

Row == {"absent", "there", "gone"}
Author == {"nobody", "user", "model"}
\* rev is the revision of what a user's edit writes, text the revision of the
\* texts and images that analyses have written since, without a new version.
SiteRows == [row : Row, cat : Category, pos : Nat, ver : Nat, rev : Nat, text : Nat, key : Key,
             by : Author, tags : SUBSET Tag, tby : Author]
SpaceRows == [row : Row, ver : Nat, mem : SUBSET (Site \X Nat)]

\* The first library keeps the unique and the foreign keys of its tables; the
\* id of a Space that an operation makes is derived from it, so it is new.
ASSUME FirstAssumption ==
    /\ Category \cap Tag = {}
    /\ FirstLabels \in [Category \cup Tag -> Nat] /\ FirstLabels[Default] > 0
    /\ FirstSites \in [Site -> SiteRows] /\ FirstSpaces \in [Space -> SpaceRows]
    /\ \A s \in Site : FirstSites[s].row = "there" =>
         /\ \A n \in {FirstSites[s].cat} \cup FirstSites[s].tags : FirstLabels[n] > 0
         /\ \A u \in Site \ {s} : FirstSites[u].row = "there" /\ FirstSites[u].cat = FirstSites[s].cat
                                 => FirstSites[u].pos # FirstSites[s].pos
    /\ \A p \in Space :
         /\ FirstSpaces[p].row = "absent" => FirstSpaces[p].ver = 0
         /\ FirstSpaces[p].row # "there" => FirstSpaces[p].mem = {}
         /\ \A m \in FirstSpaces[p].mem :
              /\ FirstSites[m[1]].row = "there"
              /\ \A n \in FirstSpaces[p].mem : m[1] = n[1] \/ m[2] = n[2] => m = n
    /\ \A o \in Op : Plan[o].create => FirstSpaces[Plan[o].space].row = "absent"

VARIABLES
    site,     \* rows of sites, site_tags and the category flags of their preference
    label,    \* names of categories and tags, as a revision; 0: no row yet, -1: deleted
    space,    \* rows of spaces and space_members
    run,      \* the last similarity scan and its decisions
    draft,    \* per operation: what the Space looked like when it was proposed
    talk,     \* the conversation: results of Space proposals, records of confirmations
    receipt,  \* rows of space_batch_operation_receipts: the Sites the batch added
    told,     \* per operation: the answers given to its requests
    req,      \* per browser tab or worker: the request in flight
    asked     \* how many requests were made

vars == <<site, label, space, run, draft, talk, receipt, told, req, asked>>
library == <<site, label, run>>
drafts == <<draft, talk>>
batches == <<receipt, told>>

Idle == [do |-> "idle"]

Sites == {s \in Site : site[s].row = "there"}
Spaces == {p \in Space : space[p].row = "there"}
Categories == {c \in Category : label[c] > 0}
Tags == {g \in Tag : label[g] > 0}
Names(N) == {<<n, label[n]>> : n \in N}

\* _ensure_category, _ensure_tag: what is not there yet is created.
Nameable(N) == \A n \in N : label[n] >= 0
Ensured(N) == [n \in DOMAIN label |-> IF n \in N /\ label[n] = 0 THEN 1 ELSE label[n]]
Members(p) == {m[1] : m \in space[p].mem}

\* What a review page or a prompt shows of a Site and its version stands for.
Shown(s) == [rev |-> site[s].rev, key |-> site[s].key, cat |-> Names({site[s].cat}),
             tags |-> Names(site[s].tags)]
Versions == [s \in Sites |-> site[s].ver]
View == [s \in Sites |-> Shown(s)]
Texts == [s \in Sites |-> site[s].text]

-----------------------------------------------------------------------------
(***************************************************************************)
(* Positions: func.max(position) + 1 of the rows already there.            *)
(***************************************************************************)
MaxOf(P) == IF P = {} THEN -1 ELSE CHOOSE m \in P : \A n \in P : n <= m
After(P) == MaxOf(P) + 1
CategoryEnd(c) == After({site[s].pos : s \in {u \in Sites : site[u].cat = c}})
SpaceEnd(p) == After({m[2] : m \in space[p].mem})

Ahead(s, u) == site[s].pos < site[u].pos \/ (site[s].pos = site[u].pos /\ Order[s] < Order[u])

MovedTogether(to) ==
    [s \in Site |->
        IF s \in DOMAIN to
        THEN [site[s] EXCEPT !.cat = to[s], !.ver = @ + 1, !.pos = CategoryEnd(to[s])]
        ELSE site[s]]

\* Every Site of to's domain goes to the end of its new category, in their old order.
Moved(to) ==
    [s \in Site |->
        IF s \in DOMAIN to
        THEN [site[s] EXCEPT !.cat = to[s], !.ver = @ + 1,
                             !.pos = CategoryEnd(to[s])
                                     + Cardinality({u \in DOMAIN to : to[u] = to[s] /\ Ahead(u, s)})]
        ELSE site[s]]

\* The pairs of `mem`, renumbered from zero with s first.
Reordered(mem, s) ==
    {<<m[1], IF m[1] = s THEN 0
             ELSE 1 + Cardinality({n \in mem : n[1] # s /\ n[2] < m[2]})>> : m \in mem}

Bump(S) == [s \in Site |-> IF s \in S THEN [site[s] EXCEPT !.ver = @ + 1] ELSE site[s]]

\* Deleting Sites cascades to their memberships; only the Spaces in P count it.
Dropped(S, P) ==
    [p \in Space |-> [space[p] EXCEPT !.mem = {m \in @ : m[1] \notin S},
                                      !.ver = IF p \in P THEN @ + 1 ELSE @]]
Deleted(S) == [s \in Site |-> IF s \in S THEN [site[s] EXCEPT !.row = "gone"] ELSE site[s]]

Ask(t, r) == req[t] = Idle /\ req' = [req EXCEPT ![t] = r]
Finish(t) == req' = [req EXCEPT ![t] = Idle]

\* A handler ends without a write: 404, 409, a failed constraint, a browser that
\* disconnected, or a server that stopped before the commit.
Refuse(t) == req[t] # Idle /\ Finish(t) /\ UNCHANGED <<library, space, drafts, batches>>

-----------------------------------------------------------------------------
(***************************************************************************)
(* Sites, Categories and Tags: one locked step each.                       *)
(***************************************************************************)
\* create_site, also for each address of create_batch
CreateSite(s, k, c, T) ==
    /\ site[s].row = "absent" /\ c \in Categories /\ T \subseteq Tags
    /\ site' = [site EXCEPT ![s] =
                  [row |-> "there", cat |-> c, pos |-> CategoryEnd(c), ver |-> 1, rev |-> 1, text |-> 0, key |-> k,
                   by |-> IF c = Default THEN "nobody" ELSE "user", tags |-> T,
                   tby |-> IF T = {} THEN "nobody" ELSE "user"]]
    /\ UNCHANGED <<label, run, space, drafts, batches, req>>

\* apply_candidates, one candidate of an import: a new Site in a category and
\* with tags of the file, created where the account has none of that name.
ImportSite(s, k, c, T) ==
    /\ site[s].row = "absent" /\ Nameable({c} \cup T)
    /\ site' = [site EXCEPT ![s] =
                  [row |-> "there", cat |-> c, pos |-> CategoryEnd(c), ver |-> 1, rev |-> 1, text |-> 0, key |-> k,
                   by |-> "nobody", tags |-> T, tby |-> "nobody"]]
    /\ label' = Ensured({c} \cup T)
    /\ UNCHANGED <<run, space, drafts, batches, req>>

\* A candidate merged into a Site that is there: what the user chose stays, what
\* the import changes is no longer the model's.
ImportInto(s, c, T) ==
    LET cat == IF site[s].by = "user" THEN site[s].cat ELSE c
        tags == IF site[s].tby = "user" THEN site[s].tags ELSE site[s].tags \cup T
    IN
    /\ s \in Sites /\ Nameable({cat} \cup tags) /\ <<cat, tags>> # <<site[s].cat, site[s].tags>>
    /\ site' = [IF cat # site[s].cat THEN Moved([u \in {s} |-> cat]) ELSE Bump({s}) EXCEPT
                  ![s].tags = tags,
                  ![s].by = IF cat # site[s].cat THEN "nobody" ELSE @,
                  ![s].tby = IF tags # site[s].tags THEN "nobody" ELSE @]
    /\ label' = Ensured({cat} \cup tags)
    /\ UNCHANGED <<run, space, drafts, batches, req>>

\* update_site of the name, the texts or the pin
EditSite(s) ==
    /\ s \in Sites /\ site' = [site EXCEPT ![s].rev = @ + 1, ![s].ver = @ + 1]
    /\ UNCHANGED <<label, run, space, drafts, batches, req>>

\* apply_analysis_outcome of an analysis without the model, or one it gave no
\* answer for: a blank description and missing images are filled in.
Describe(s) ==
    /\ s \in Sites /\ site' = [site EXCEPT ![s].text = @ + 1]
    /\ UNCHANGED <<label, run, space, drafts, batches, req>>

\* update_site of the tags: the user's choice, also to have none
TagSite(s, T) ==
    /\ s \in Sites /\ T \subseteq Tags
    /\ site' = [site EXCEPT ![s].ver = @ + 1, ![s].tags = T, ![s].tby = "user"]
    /\ UNCHANGED <<label, run, space, drafts, batches, req>>

\* update_site of the category: the user's choice, even of the same one
MoveSite(s, c) ==
    /\ s \in Sites /\ c \in Categories
    /\ site' = IF c = site[s].cat THEN [site EXCEPT ![s].by = "user", ![s].ver = @ + 1]
               ELSE [Moved([u \in {s} |-> c]) EXCEPT ![s].by = "user"]
    /\ UNCHANGED <<label, run, space, drafts, batches, req>>

\* update_site of the address: another website, whose old taxonomy is dropped
ReaddressSite(s, k) ==
    /\ s \in Sites /\ k # site[s].key
    /\ LET moved == IF site[s].cat = Default THEN Bump({s}) ELSE Moved([u \in {s} |-> Default])
       IN  site' = [moved EXCEPT ![s].key = k, ![s].rev = @ + 1, ![s].by = "nobody",
                                   ![s].tags = {}, ![s].tby = "nobody"]
    /\ UNCHANGED <<label, run, space, drafts, batches, req>>

\* reorder_sites, one Site to the front of its category; the versions stay
ReorderSites(s) ==
    /\ s \in Sites
    /\ LET new == Reordered({<<u, site[u].pos>> : u \in {x \in Sites : site[x].cat = site[s].cat}}, s)
       IN  site' = [u \in Site |-> IF \E m \in new : m[1] = u
                                   THEN [site[u] EXCEPT !.pos = (CHOOSE m \in new : m[1] = u)[2]] ELSE site[u]]
    /\ UNCHANGED <<label, run, space, drafts, batches, req>>

\* create_category, create_tag
CreateName(n) ==
    /\ label[n] = 0 /\ label' = [label EXCEPT ![n] = 1]
    /\ UNCHANGED <<site, run, space, drafts, batches, req>>

\* update_category: the Sites shown under the old name get a new version
RenameCategory(c) ==
    /\ c \in Categories \ {Default}
    /\ label' = [label EXCEPT ![c] = @ + 1]
    /\ site' = Bump({s \in Sites : site[s].cat = c})
    /\ UNCHANGED <<run, space, drafts, batches, req>>

\* delete_category: its Sites follow the default ones, and nobody chose that
DeleteCategory(c) ==
    /\ c \in Categories \ {Default}
    /\ LET S == {s \in Sites : site[s].cat = c}
           moved == Moved([s \in S |-> Default])
       IN  site' = [s \in Site |-> IF s \in S THEN [moved[s] EXCEPT !.by = "nobody"] ELSE moved[s]]
    /\ label' = [label EXCEPT ![c] = -1]
    /\ UNCHANGED <<run, space, drafts, batches, req>>

\* update_tag, delete_tag
RenameTagOnly(g) ==
    /\ label[g] > 0 /\ label' = [label EXCEPT ![g] = @ + 1]
    /\ UNCHANGED <<site, run, space, drafts, batches, req>>
RenameTag(g) ==
    /\ label[g] > 0 /\ label' = [label EXCEPT ![g] = @ + 1]
    /\ site' = Bump({s \in Sites : g \in site[s].tags})
    /\ UNCHANGED <<run, space, drafts, batches, req>>
DeleteTag(g) ==
    /\ label[g] > 0 /\ label' = [label EXCEPT ![g] = -1]
    /\ site' = [s \in Site |-> [Bump({u \in Sites : g \in site[u].tags})[s] EXCEPT !.tags = @ \ {g},
                               !.tby = IF g \in site[s].tags THEN "user" ELSE @]]
    /\ UNCHANGED <<run, space, drafts, batches, req>>

-----------------------------------------------------------------------------
(***************************************************************************)
(* delete_site and bulk_delete_sites: which Spaces count the deletion is   *)
(* read before the lock.                                                   *)
(***************************************************************************)
AskDelete(t, S) ==
    /\ S \subseteq Sites /\ Cardinality(S) <= MaxBulk
    /\ Ask(t, [do |-> "delete", versions |-> [s \in S |-> site[s].ver],
               related |-> {p \in Spaces : S \cap Members(p) # {}}])
    /\ UNCHANGED <<library, space, drafts, batches>>

Delete(t) ==
    LET r == req[t] IN
    /\ r.do = "delete"
    /\ \A s \in DOMAIN r.versions : s \in Sites /\ site[s].ver = r.versions[s]
    /\ site' = Deleted(DOMAIN r.versions)
    /\ space' = Dropped(DOMAIN r.versions, r.related)
    /\ Finish(t) /\ UNCHANGED <<label, run, drafts, batches>>

-----------------------------------------------------------------------------
(***************************************************************************)
(* Similar Sites: a scan, the user's choice of what to keep, the merge.    *)
(***************************************************************************)
Alike(k) == {s \in Sites : site[s].key = k}
Groups == {Alike(k) : k \in {l \in Key : Cardinality(Alike(l)) > 1}}
Best(S) == CHOOSE s \in S : \A u \in S : Order[s] <= Order[u]

\* start_scan: library_fingerprint is the ids, versions and addresses; the page
\* shows the texts of the moment of the scan.
Scanned(id) == [id |-> id, status |-> "ready", ver |-> 1, kept |-> {}, groups |-> Groups,
                print |-> Versions, shown |-> View, texts |-> Texts]
Scan ==
    /\ run' = Scanned(run.id + 1)
    /\ UNCHANGED <<site, label, space, drafts, batches, req>>

\* save_decision; keeping every member is no choice
Decide(g, K) ==
    /\ run.status = "ready" /\ g \in run.groups
    /\ run' = [run EXCEPT !.ver = @ + 1, !.kept = (@ \ g) \cup (IF K = g THEN {} ELSE K)]
    /\ UNCHANGED <<site, label, space, drafts, batches, req>>

\* select_recommended_decisions of every group
Recommend ==
    /\ run.status = "ready" /\ run.groups # {}
    /\ run' = [run EXCEPT !.ver = @ + 1, !.kept = {Best(g) : g \in run.groups}]
    /\ UNCHANGED <<site, label, space, drafts, batches, req>>

\* The confirmation dialog shows the choices of one version of the run.
AskMerge(t) ==
    /\ run.status = "ready"
    /\ Ask(t, [do |-> "merge", id |-> run.id, ver |-> run.ver, kept |-> run.kept])
    /\ UNCHANGED <<library, space, drafts, batches>>

Chosen == {g \in run.groups : g \cap run.kept # {}}
Keeper(g) == Best(g \cap run.kept)
Losers == UNION {g \ run.kept : g \in Chosen}
Touched(g) == {Keeper(g)} \cup (g \ run.kept)

\* _merge_group_relationships: the keeper takes the first place a loser leaves.
Inherits(g, p) == Keeper(g) \notin Members(p) /\ (g \ run.kept) \cap Members(p) # {}
Place(g, p) == CHOOSE n \in {m[2] : m \in {m \in space[p].mem : m[1] \in g \ run.kept}} :
                 \A m \in space[p].mem : m[1] \in g \ run.kept => n <= m[2]
MergedMembersDropped(p) == {m \in space[p].mem : m[1] \notin Losers}
MergedMembers(p) ==
    {m \in space[p].mem : m[1] \notin Losers}
      \cup {<<Keeper(g), Place(g, p)>> : g \in {g \in Chosen : Inherits(g, p)}}
MergedSite(s) ==
    IF s \in Losers THEN [site[s] EXCEPT !.row = "gone"]
    ELSE IF \E g \in Chosen : s = Keeper(g)
    THEN LET g == CHOOSE g \in Chosen : s = Keeper(g)
             tags == UNION {site[u].tags : u \in Touched(g)}
         IN  [site[s] EXCEPT !.ver = @ + 1, !.tags = tags, !.tby = IF tags = site[s].tags THEN @ ELSE "user"]
    ELSE site[s]
Affected == {p \in Spaces : \E g \in Chosen : Touched(g) \cap Members(p) # {}}

\* apply_scan
Merge(t) ==
    LET r == req[t] IN
    /\ r.do = "merge"
    /\ run.id = r.id /\ run.status = "ready" /\ run.ver = r.ver
    /\ run.print = Versions
    /\ site' = [s \in Site |-> MergedSite(s)]
    /\ space' = [p \in Space |-> [space[p] EXCEPT !.mem = MergedMembers(p),
                                                  !.ver = IF p \in Affected THEN @ + 1 ELSE @]]
    /\ run' = [run EXCEPT !.status = "applied", !.ver = @ + 1]
    /\ Finish(t) /\ UNCHANGED <<label, drafts, batches>>

-----------------------------------------------------------------------------
(***************************************************************************)
(* The model's answers: minutes pass between the question and the commit.  *)
(***************************************************************************)
\* propose_reclassification, and apply_reclassification up to its rollback
AskReclassify(t) ==
    /\ Sites # {}
    /\ Ask(t, [do |-> "reclassify", versions |-> Versions, names |-> Names(Categories), shown |-> View])
    /\ UNCHANGED <<library, space, drafts, batches>>

\* One answer per host: every Site of the host, or none, goes to that category.
Reclassify(t) ==
    LET r == req[t] IN
    /\ r.do = "reclassify"
    /\ r.versions = Versions /\ r.names = Names(Categories)
    /\ \E K \in SUBSET Key : \E answer \in [K -> Categories] :
         site' = Moved([s \in {u \in Sites : site[u].key \in K /\ site[u].cat # answer[site[u].key]}
                          |-> answer[site[s].key]])
    /\ Finish(t) /\ UNCHANGED <<label, run, space, drafts, batches>>

Snapshot(s) == [ver |-> site[s].ver, key |-> site[s].key, cat |-> site[s].cat, by |-> site[s].by,
                tags |-> site[s].tags, tby |-> site[s].tby, names |-> Names(Categories \cup Tags)]
CategoryWritable(s) == site[s].by # "user" /\ (site[s].cat = Default \/ site[s].by = "model")
TagsWritable(s) == site[s].tby # "user" /\ (site[s].tags = {} \/ site[s].tby = "model")

\* _load_enrichment_snapshot
AskEnrich(t, s) ==
    /\ s \in Sites
    /\ Ask(t, [do |-> "enrich", site |-> s, snapshot |-> Snapshot(s), shown |-> [u \in {s} |-> Shown(u)]])
    /\ UNCHANGED <<library, space, drafts, batches>>

\* _apply_enriched_outcome: the answer is a category and tags, new ones among
\* them, and the texts, of revision n. What the user chose stays, and only a
\* change of the category or the tags is a version.
Answered(s, c, T, n) ==
    LET cat == IF CategoryWritable(s) THEN c ELSE site[s].cat
        tags == IF TagsWritable(s) THEN T ELSE site[s].tags
        rows == IF cat # site[s].cat THEN Moved([u \in {s} |-> cat])
                ELSE IF tags # site[s].tags THEN Bump({s}) ELSE site
    IN  [rows EXCEPT ![s].tags = tags, ![s].text = n,
                     ![s].by = IF CategoryWritable(s) THEN "model" ELSE @,
                     ![s].tby = IF TagsWritable(s) THEN "model" ELSE @]

Enrich(t, c, T) ==
    LET s == req[t].site IN
    /\ req[t].do = "enrich"
    /\ s \in Sites /\ req[t].snapshot = Snapshot(s) /\ c \in Categories
    /\ T # {} /\ Nameable(T)
    /\ \E n \in {site[s].text, site[s].text + 1} : site' = Answered(s, c, T, n)
    /\ label' = IF TagsWritable(s) THEN Ensured(T) ELSE label
    /\ Finish(t) /\ UNCHANGED <<run, space, drafts, batches>>

-----------------------------------------------------------------------------
(***************************************************************************)
(* Spaces: every change claims the version the user looked at. `seen` is   *)
(* the order of the members at that version.                               *)
(***************************************************************************)
Look(p) == [ver |-> space[p].ver, mem |-> space[p].mem]

AskSpace(t, p, do, s) ==
    /\ p \in Spaces /\ s \in Site
    /\ CASE do = "add" -> s \in Sites \ Members(p)
         [] do \in {"remove", "reorder"} -> s \in Members(p)
         [] do \in {"rename", "close"} -> s = Best(Site)
    /\ Ask(t, [do |-> do, space |-> p, site |-> s, seen |-> Look(p)])
    /\ UNCHANGED <<library, space, drafts, batches>>

\* _claim_version
Claims(p, ver) == p \in Spaces /\ space[p].ver = ver

\* The claim and the new members, in one transaction.
ClaimedForMembership(p, mem) ==
    [space[p] EXCEPT !.mem = mem, !.ver = IF {m[1] : m \in mem} = Members(p) THEN @ ELSE @ + 1]
Claimed(p, mem) == [space[p] EXCEPT !.ver = @ + 1, !.mem = mem]

\* create_space
CreateSpace(p) ==
    /\ space[p].row = "absent" /\ ~\E o \in Op : Plan[o].create /\ Plan[o].space = p
    /\ space' = [space EXCEPT ![p] = [row |-> "there", ver |-> 1, mem |-> {}]]
    /\ UNCHANGED <<library, drafts, batches, req>>

\* A request that changes a Space by the version it carries.
Changes(t, do) ==
    /\ req[t].do = do /\ Claims(req[t].space, req[t].seen.ver)
    /\ Finish(t) /\ UNCHANGED <<library, drafts, batches>>

\* add_member, remove_member, reorder_members (one member to the front),
\* update_space (its name), delete_space
AddMember(t) ==
    LET p == req[t].space IN
    /\ Changes(t, "add") /\ req[t].site \in Sites
    /\ space' = [space EXCEPT ![p] = Claimed(p, @.mem \cup {<<req[t].site, SpaceEnd(p)>>})]
RemoveMember(t) ==
    LET p == req[t].space IN
    /\ Changes(t, "remove")
    /\ space' = [space EXCEPT ![p] = Claimed(p, {m \in @.mem : m[1] # req[t].site})]
ReorderMembers(t) ==
    LET p == req[t].space IN
    /\ Changes(t, "reorder")
    /\ space' = [space EXCEPT ![p] = Claimed(p, Reordered(@.mem, req[t].site))]
RenameSpace(t) ==
    LET p == req[t].space IN
    /\ Changes(t, "rename") /\ space' = [space EXCEPT ![p] = Claimed(p, @.mem)]
DeleteSpace(t) ==
    LET p == req[t].space IN
    /\ Changes(t, "close") /\ space' = [space EXCEPT ![p].row = "gone", ![p].mem = {}]

-----------------------------------------------------------------------------
(***************************************************************************)
(* Space batches. The Agent proposes one, a tab confirms it under the id   *)
(* of the proposal, and may send it again when the answer was lost. `at`   *)
(* is where the handler stands between two reads or before its commit.     *)
(***************************************************************************)
Of(o) == Plan[o].space

Proposable(o) ==
    /\ Plan[o].sites \subseteq Sites
    /\ Plan[o].create \/ (Of(o) \in Spaces /\ ~(Plan[o].sites \subseteq Members(Of(o))))

\* What the transcript keeps of a proposal: the pending draft, or that there is none.
State(o, pending) == [says |-> "draft", op |-> IF pending THEN o ELSE None]
Note(o) == [says |-> "done", op |-> o]

\* propose_space_batch, in a turn of the conversation
Propose(o) ==
    /\ draft[o] = None
    /\ draft' = IF Proposable(o) THEN [draft EXCEPT ![o] = Look(Of(o))] ELSE draft
    /\ talk' = Append(talk, State(o, Proposable(o)))
    /\ UNCHANGED <<library, space, batches, req>>

AskBatch(t, o) ==
    /\ draft[o] # None
    /\ Ask(t, [do |-> "batch", op |-> o, at |-> "receipt", fresh |-> FALSE, missing |-> {}, next |-> 0])
    /\ UNCHANGED <<library, space, drafts, batches>>

AtBatch(t, where) == req[t].do = "batch" /\ req[t].at \in where
Goes(t, where) == req' = [req EXCEPT ![t].at = where]

\* A receipt answers, whatever became of the Space since.
Replay(t, o) ==
    /\ receipt[o] # None
    /\ told' = [told EXCEPT ![o] = @ \cup {receipt[o]}] /\ Finish(t)
    /\ UNCHANGED receipt

Quiet == UNCHANGED <<library, drafts>>

\* The reads of the receipt: first, after the Space was found, after a miss, after a rollback.
ReadReceipt(t) ==
    LET o == req[t].op IN
    /\ AtBatch(t, {"receipt", "again", "miss", "conflict"})
    /\ \/ Replay(t, o)
       \/ /\ receipt[o] = None /\ req[t].at # "miss"
          /\ Goes(t, CASE req[t].at = "receipt" -> "target"
                       [] req[t].at = "again" -> IF Plan[o].create THEN "reached" ELSE "sites"
                       [] req[t].at = "conflict" -> "reached")
          /\ UNCHANGED batches
       \/ receipt[o] = None /\ req[t].at = "miss" /\ Finish(t) /\ UNCHANGED batches
    /\ Quiet /\ UNCHANGED space

ReadSpace(t) ==
    LET o == req[t].op
        there == Of(o) \in Spaces
    IN
    /\ AtBatch(t, {"target"})
    /\ req' = [req EXCEPT ![t].at = IF there THEN "again" ELSE IF Plan[o].create THEN "sites" ELSE "miss",
                          ![t].fresh = there /\ space[Of(o)].ver = draft[o].ver]
    /\ Quiet /\ UNCHANGED <<space, batches>>

ReadSites(t) ==
    LET o == req[t].op IN
    /\ AtBatch(t, {"sites"})
    /\ Goes(t, IF ~(Plan[o].sites \subseteq Sites) THEN "miss" ELSE IF Plan[o].create THEN "write" ELSE "members")
    /\ Quiet /\ UNCHANGED <<space, batches>>

\* An existing Space: what is missing, and where it would go.
ReadMembers(t) ==
    LET o == req[t].op
        missing == Plan[o].sites \ Members(Of(o))
    IN
    /\ AtBatch(t, {"members"})
    /\ req' = [req EXCEPT ![t].missing = missing, ![t].next = SpaceEnd(Of(o)),
                          ![t].at = IF missing = {} THEN "keep" ELSE IF req[t].fresh THEN "write" ELSE "conflict"]
    /\ Quiet /\ UNCHANGED <<space, batches>>

\* _completed_member_batch
ReadReached(t) ==
    LET o == req[t].op IN
    /\ AtBatch(t, {"reached"})
    /\ IF Of(o) \in Spaces /\ Plan[o].sites \subseteq Members(Of(o)) /\ (Plan[o].create \/ Plan[o].sites # {})
       THEN Goes(t, "keep") ELSE Finish(t)
    /\ Quiet /\ UNCHANGED <<space, batches>>

Enrolled(S, next) ==
    {<<s, next + Cardinality({u \in S : Order[u] < Order[s]})>> : s \in S}

\* What the rows of a batch may collide with: a deleted Site, an enrolled one.
Admits(p, S) == S \subseteq Sites /\ S \cap Members(p) = {}

\* The commit that changes the Space and stores the receipt, or a rollback.
Commits(t, row, S) ==
    LET o == req[t].op IN
    /\ space' = [space EXCEPT ![Of(o)] = row]
    /\ receipt' = [receipt EXCEPT ![o] = S] /\ told' = [told EXCEPT ![o] = @ \cup {S}]
    /\ Finish(t) /\ Quiet
RollsBack(t) == Goes(t, "conflict") /\ Quiet /\ UNCHANGED <<space, batches>>

\* A new Space, by the id the operation derives.
WriteNew(t) ==
    LET o == req[t].op
        S == Plan[o].sites
    IN
    /\ AtBatch(t, {"write"}) /\ Plan[o].create
    /\ IF receipt[o] = None /\ Of(o) \notin Spaces /\ Admits(Of(o), S)
       THEN Commits(t, [row |-> "there", ver |-> 1, mem |-> Enrolled(S, 0)], S)
       ELSE RollsBack(t)

\* An existing Space, by the version of the draft.
WriteInto(t) ==
    LET o == req[t].op
        S == req[t].missing
    IN
    /\ AtBatch(t, {"write"}) /\ ~Plan[o].create
    /\ IF receipt[o] = None /\ Claims(Of(o), draft[o].ver) /\ Admits(Of(o), S)
       THEN Commits(t, Claimed(Of(o), space[Of(o)].mem \cup Enrolled(S, req[t].next)), S)
       ELSE RollsBack(t)

\* _commit_receipt_only: nothing was left to add
KeepReceipt(t) ==
    LET o == req[t].op IN
    /\ AtBatch(t, {"keep"})
    /\ \/ Replay(t, o)
       \/ /\ receipt[o] = None
          /\ receipt' = [receipt EXCEPT ![o] = {}] /\ told' = [told EXCEPT ![o] = @ \cup {{}}]
          /\ Finish(t)
    /\ Quiet /\ UNCHANGED space

-----------------------------------------------------------------------------
(***************************************************************************)
(* record_draft_confirmation: a tab has the outcome of a batch recorded in *)
(* the conversation, where every later turn reads it. The receipt and the  *)
(* latest draft are checked, then the record is appended by a claim of the *)
(* conversation's version, tried again when another message came first.    *)
(***************************************************************************)
LatestDraft ==
    LET D == {i \in DOMAIN talk : talk[i].says = "draft"} IN
    IF D = {} THEN None ELSE talk[MaxOf(D)].op
Noted(o) == \E i \in DOMAIN talk : talk[i] = Note(o)
LatestDraftOnly(o) == LatestDraft = o
Confirmable(o) == receipt[o] # None /\ LatestDraft = o

AskNote(t, o) ==
    /\ draft[o] # None /\ Ask(t, [do |-> "note", op |-> o, at |-> "check", count |-> 0])
    /\ UNCHANGED <<library, space, drafts, batches>>

CheckNote(t) ==
    /\ req[t].do = "note" /\ req[t].at = "check"
    /\ ~Noted(req[t].op) /\ Confirmable(req[t].op)
    /\ Goes(t, "append") /\ UNCHANGED <<library, space, drafts, batches>>

\* append_message, one attempt: the reads, then the claim
ReadTalk(t) ==
    /\ req[t].do = "note" /\ req[t].at = "append"
    /\ IF Noted(req[t].op) THEN Finish(t)
       ELSE req' = [req EXCEPT ![t].at = "claim", ![t].count = Len(talk)]
    /\ UNCHANGED <<library, space, drafts, batches>>

AppendNote(t) ==
    /\ req[t].do = "note" /\ req[t].at = "claim"
    /\ IF Len(talk) = req[t].count THEN talk' = Append(talk, Note(req[t].op)) /\ Finish(t)
       ELSE Goes(t, "append") /\ UNCHANGED talk
    /\ UNCHANGED <<library, space, draft, batches>>

-----------------------------------------------------------------------------
Init ==
    /\ site = FirstSites /\ space = FirstSpaces
    /\ label = FirstLabels
    /\ run = Scanned(0)
    /\ draft = [o \in Op |-> IF \E i \in DOMAIN Proposed : Proposed[i] = o THEN Look(Of(o)) ELSE None]
    /\ talk = [i \in DOMAIN Proposed |-> State(Proposed[i], TRUE)]
    /\ receipt = [o \in Op |-> None] /\ told = [o \in Op |-> {}]
    /\ req = [t \in Tab |-> Idle] /\ asked = 0

TagChoices == {T \in SUBSET Tag : Cardinality(T) <= MaxTags}

EditLibrary ==
    \/ \E s \in Site, k \in Key, c \in Category : \E T \in TagChoices :
         CreateSite(s, k, c, T) \/ ImportSite(s, k, c, T)
    \/ \E s \in Sites, c \in Category : \E T \in TagChoices : ImportInto(s, c, T)
    \/ \E s \in Sites : \/ EditSite(s) \/ Describe(s) \/ ReorderSites(s) \/ \E T \in TagChoices : TagSite(s, T)
                        \/ \E c \in Category : MoveSite(s, c)
                        \/ \E k \in Key : ReaddressSite(s, k)
    \/ \E c \in Category : RenameCategory(c) \/ DeleteCategory(c)
    \/ \E n \in Category \cup Tag : CreateName(n)
    \/ \E g \in Tag : RenameTag(g) \/ DeleteTag(g)
    \/ \E p \in Space : CreateSpace(p)

Decisions ==
    \/ Scan \/ Recommend
    \/ \E g \in run.groups : \E K \in SUBSET g : Decide(g, K)
    \/ \E o \in Op : Propose(o)

Asks(t) ==
    \/ \E S \in SUBSET Sites \ {{}} : AskDelete(t, S)
    \/ AskMerge(t) \/ AskReclassify(t) \/ \E s \in Sites : AskEnrich(t, s)
    \/ \E p \in Spaces, s \in Site, do \in {"add", "remove", "reorder", "rename", "close"} : AskSpace(t, p, do, s)
    \/ \E o \in Op : AskBatch(t, o) \/ AskNote(t, o)

Serves(t) ==
    \/ Delete(t) \/ Merge(t) \/ Reclassify(t) \/ \E c \in Category, T \in TagChoices : Enrich(t, c, T)
    \/ AddMember(t) \/ RemoveMember(t) \/ ReorderMembers(t) \/ RenameSpace(t) \/ DeleteSpace(t)
    \/ ReadReceipt(t) \/ ReadSpace(t) \/ ReadSites(t) \/ ReadMembers(t) \/ ReadReached(t)
    \/ WriteNew(t) \/ WriteInto(t) \/ KeepReceipt(t)
    \/ CheckNote(t) \/ ReadTalk(t) \/ AppendNote(t)
    \/ Refuse(t)

Next ==
    \/ /\ asked < MaxRequests /\ asked' = asked + 1
       /\ EditLibrary \/ Decisions \/ \E t \in Tab : Asks(t)
    \/ /\ UNCHANGED asked
       /\ \E t \in Tab : Serves(t)
Spec == Init /\ [][Next]_vars

-----------------------------------------------------------------------------
(***************************************************************************)
(* Properties.                                                             *)
(***************************************************************************)
\* The types of the rows and of the requests in flight.
TypeOK ==
    /\ site \in [Site -> SiteRows] /\ space \in [Space -> SpaceRows]
    /\ label \in [Category \cup Tag -> Int]
    /\ run.status \in {"ready", "applied"} /\ run.kept \subseteq UNION run.groups
    /\ talk \in Seq([says : {"draft", "done"}, op : Op \cup {None}])
    /\ \A o \in Op : receipt[o] \in {None} \cup SUBSET Site /\ told[o] \subseteq SUBSET Site
    /\ asked \in 0 .. MaxRequests

\* Two Sites of a category never stand at one place, nor two members of a
\* Space, although a batch picks its places before it claims the version
\* (the unique indexes would turn a violation into a refused request).
\* Every row a Site or a membership refers to is there.
PlacesDistinct ==
    /\ \A s, u \in Sites : s # u /\ site[s].cat = site[u].cat => site[s].pos # site[u].pos
    /\ \A s \in Sites : site[s].cat \in Categories
    /\ \A p \in Spaces : /\ \A m, n \in space[p].mem : m[2] = n[2] => m = n
                         /\ Members(p) \subseteq Sites

\* Whoever changes a Space by a version changes the members, in the order, that
\* were shown at that version; only Sites deleted since may be missing.
Since(mem) == {m \in mem : m[1] \in Sites}
SameOrder(M, N) ==
    /\ {m[1] : m \in M} = {n[1] : n \in N}
    /\ \A m, n \in M : \A x, y \in N : m[1] = x[1] /\ n[1] = y[1] /\ m[2] < n[2] => x[2] < y[2]
Claimant(t) ==
    LET r == req[t] IN
    CASE r.do \in {"add", "remove", "reorder", "rename", "close"} -> {<<r.space, r.seen>>}
      [] r.do = "batch" /\ ~Plan[r.op].create -> {<<Of(r.op), draft[r.op]>>}
      [] OTHER -> {}
ClaimSeesMembers ==
    [][\A t \in Tab : req[t] # Idle /\ req'[t] = Idle /\ space' # space =>
         \A c \in Claimant(t) : SameOrder(Since(c[2].mem), space[c[1]].mem)]_vars

\* What was decided outside the lock is applied to what it was decided on: a
\* merge with the choices shown in its dialog, on group members that no user has
\* edited, moved, tagged or readdressed and no category or tag was renamed under
\* since the scan; a reclassification or an enrichment likewise on the Sites its
\* draft or its prompt was made of. What a version does not stand for, the texts
\* an analysis writes, is TextsDecidedOnCurrent's.
DecidedOnCurrent ==
    [][\A t \in Tab : req[t] # Idle /\ req'[t] = Idle /\ site' # site =>
         /\ req[t].do = "merge" => /\ run.kept = req[t].kept
                                  /\ \A g \in Chosen : \A s \in g : s \in Sites /\ run.shown[s] = Shown(s)
         /\ req[t].do = "reclassify" => req[t].shown = View
         /\ req[t].do = "enrich" => req[t].shown[req[t].site] = Shown(req[t].site)]_vars

\* README.md:226 promises that a scan whose page is out of date, or any member of
\* which has changed, is refused as a whole: then a merge is applied to members
\* whose texts are the ones that were shown. The code compares ids, versions and
\* addresses, and an analysis writes texts without a version.
TextsDecidedOnCurrent ==
    [][\A t \in Tab : req[t] # Idle /\ req'[t] = Idle /\ site' # site /\ req[t].do = "merge" =>
         \A g \in Chosen : \A s \in g : run.texts[s] = site[s].text]_vars

\* A merge takes no website out of a Space: a member that goes leaves a kept
\* Site of its group there, no tag of the group is lost, and a Space whose
\* members changed has a new version.
Survives(s, S) == s \in S \/ \E g \in Chosen : s \in g /\ g \cap run.kept \cap S # {}
MergeKeepsPlaces ==
    [][run.status = "ready" /\ run'.status = "applied" =>
         /\ \A p \in Spaces : LET S == {m[1] : m \in space'[p].mem} IN
              /\ \A s \in Members(p) : Survives(s, S)
              /\ S \subseteq {s \in Site : site'[s].row = "there"}
              /\ space'[p].mem # space[p].mem => space'[p].ver > space[p].ver
         /\ \A s \in Sites : \A g \in site[s].tags :
              \E u \in Site : Survives(s, {u}) /\ site'[u].row = "there" /\ g \in site'[u].tags]_vars

\* One step of what BatchOnce says.
OnceStep ==
    /\ \A o \in Op :
         /\ receipt[o] # None => receipt'[o] = receipt[o]
         /\ told'[o] \subseteq {receipt'[o]}
         /\ \A t \in Tab : req[t] # Idle /\ req[t].do = "batch" /\ req[t].op = o /\ req'[t] # req[t] /\ receipt[o] # None
                            => space' = space
    /\ talk' # talk => LET m == talk'[Len(talk')] IN
         /\ talk' = Append(talk, m)
         /\ m.says = "done" => receipt[m.op] # None /\ ~Noted(m.op)

\* A Space batch happens once, however often it is sent and whatever became of
\* the Space since: a receipt never changes, no request of the operation writes
\* after it, every answer given is the receipt's. The transcript only grows, and
\* records a batch that was written, once, however many tabs ask for it.
BatchOnce == [][OnceStep]_vars

=============================================================================
