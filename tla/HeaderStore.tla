---------------------------- MODULE HeaderStore ----------------------------
(***************************************************************************)
(* The `headers` table and the operations that write it: the live insert   *)
(* with its parent walk, the reorg, the bulk batch, the push, the link     *)
(* heal, the sweep of dual-active heights and the repair of the work.      *)
(*                                                                         *)
(* A step is one D1 transaction.  An operation of several transactions is  *)
(* a queue of steps (todo); it may be cut between any two of them, by a    *)
(* crash, a store fault or the writer lease's fence, and the rows it wrote *)
(* stand.  One operation runs at a time: WriterLease shows that two        *)
(* holders' header transactions never interleave, so what an operation has *)
(* read stays true until its next transaction.                             *)
(*                                                                         *)
(* The headers the couriers may serve are a tree given by the constants;   *)
(* each passes its own proof of work and carries the bits the difficulty   *)
(* rule answers whenever the ancestry that rule reads is there.            *)
(***************************************************************************)
EXTENDS Integers, Sequences, FiniteSets, SequencesExt, FiniteSetsExt

CONSTANTS
    Header,       \* every header a courier, a peer or an operator may serve
    Genesis,      \* the chain's genesis
    Parent,       \* [Header \ {Genesis} -> Header]: previous_hash
    Weight,       \* [Header -> Nat]: calculate_work(bits)
    Checkpoint,   \* the headers pinned by a checkpoint
    None,         \* SQL NULL
    Window,       \* rows of ancestry the difficulty rule reads (window_depth)
    WalkLimit,    \* steps of find_common_ancestor (400)
    Backfill,     \* steps of the parent walks (BACKFILL_LIMIT, PARENT_WALK_LIMIT)
    MaxActivation,\* headers one activation may carry (MAX_ACTIVATION)
    ChunkSize,    \* headers per transaction of the bulk writer (100 statements)
    RepairWindow, \* heights below the tip the repair of the work reads (144)
    RepairBatch,  \* rows it rewrites in one transaction (100)
    MaxRun,       \* bound: the longest run handed over at once
    LiveGap,      \* a gap above this is a catch-up (10)
    MaxCuts,      \* bound: how many operations are cut short
    Bootstrapped, \* does the store start at the genesis (else empty)?
    CutBulk,      \* may a bulk write be cut between its rows and its tip?
    BackfillAnywhere, \* may /admin/backfill be asked for heights above the tip?
    Best          \* the header the network has settled on

ASSUME StoreAssumption ==
    /\ Genesis \in Header
    /\ Parent \in [Header \ {Genesis} -> Header]
    /\ Weight \in [Header -> Nat \ {0}]
    /\ Checkpoint \subseteq Header
    /\ None \notin Header /\ None \notin Nat
    /\ {Window, WalkLimit, Backfill, MaxActivation, ChunkSize, MaxRun} \subseteq Nat \ {0}
    /\ {RepairWindow, RepairBatch} \subseteq Nat \ {0}
    /\ {LiveGap, MaxCuts} \subseteq Nat
    /\ {Bootstrapped, CutBulk, BackfillAnywhere} \subseteq BOOLEAN
    /\ Best \in Header
    /\ IsFiniteSet(Header)
    \* A header names one that was there before it: no cycles.
    /\ \A S \in SUBSET Header : S # {} => \E h \in S : h = Genesis \/ Parent[h] \notin S

VARIABLES
    rank,         \* order of header_id among the rows of one height; 0: no row
    active,       \* rows with is_active = 1
    linked,       \* rows with a previous_header_id
    work,         \* chain_work of each row
    tip,          \* the row with is_chain_tip = 1
    pending,      \* sync_state.pending_reorg_from
    todo,         \* the transactions the running operation still makes
    cuts,         \* operations cut short so far
    changed       \* history: heights whose served row changed, not yet announced

rows == <<rank, active, linked, work, tip>>
vars == <<rank, active, linked, work, tip, pending, todo, cuts, changed>>

-----------------------------------------------------------------------------
(* The tree.                                                                *)

\* h and its ancestors down to the genesis.
Line[h \in Header] == IF h = Genesis THEN <<h>> ELSE <<h>> \o Line[Parent[h]]
Height[h \in Header] == Len(Line[h]) - 1
Ancestors(h) == Range(Line[h])
Heights == {Height[h] : h \in Header}

\* The work of h's whole chain.
TrueWork[h \in Header] ==
    IF h = Genesis THEN Weight[h] ELSE TrueWork[Parent[h]] + Weight[h]

\* Non-empty linked runs, oldest first: what a peer or an operator may hand over.
RunTo(h, len) == Reverse(SubSeq(Line[h], 1, len))
Runs == UNION {{RunTo(h, len) : len \in 1 .. Min({MaxRun, Len(Line[h])})} : h \in Header}

-----------------------------------------------------------------------------
(* Reads.                                                                   *)

Stored == {h \in Header : rank[h] > 0}
ActiveAt(k) == {h \in active : Height[h] = k}
Newest(S) == CHOOSE h \in S : \A g \in S : rank[g] <= rank[h]
TipHeight == IF tip = None THEN 0 ELSE Height[tip]

\* find_header_for_height, in one state or the next.
ServedFrom(act, rnk, k) ==
    LET at == {h \in act : Height[h] = k}
    IN  IF at = {} THEN None ELSE CHOOSE h \in at : \A g \in at : rnk[g] <= rnk[h]
Served(k) == ServedFrom(active, rank, k)

HasParent(h) == h # Genesis /\ Parent[h] \in Stored

\* Mutant of WorkOn: an orphan is credited with the tip's work.
WorkOnTip(h) ==
    IF HasParent(h) THEN work[Parent[h]] + Weight[h]
    ELSE IF tip = None THEN Weight[h] ELSE work[tip] + Weight[h]

WorkOn(h) == IF HasParent(h) THEN work[Parent[h]] + Weight[h] ELSE Weight[h]

\* Mutant of OutworksTip: the re-evaluation without its comparison.
OutworksAnyTip(h) == TRUE

\* is_more_work against the tip, for a stored row.
OutworksTip(h) == IF tip = None THEN TRUE ELSE work[h] > work[tip]

\* load_window: from p back by hash while the rows are inactive, then along the
\* active rows alone; the rule refuses (ancestry-missing) a window cut short.
WindowLoads(p) ==
    \A k \in 1 .. Len(Line[p]) - 1 :
        k < Window =>
            /\ Line[p][k + 1] \in Stored
            /\ (\E j \in 1 .. k : Line[p][j] \in active) => Line[p][k + 1] \in active

\* check_checkpoint, and check_fork_prior_to_checkpoint.
MatchesCheckpoint(h) == \A c \in Checkpoint : Height[c] = Height[h] => c = h
StoredCheckpointAbove(k) ==
    {c \in Checkpoint \cap Stored : tip # None /\ k < Height[c] /\ Height[c] <= TipHeight}

\* insert_header's rules for a header that is not stored yet.
Insertable(h) ==
    /\ StoredCheckpointAbove(Height[h]) = {}
    /\ MatchesCheckpoint(h)
    /\ IF HasParent(h)
         THEN WindowLoads(Parent[h])
         ELSE h = Genesis \/ h \in Checkpoint \/ tip # None   \* check_unlinked

Anchored(h) == HasParent(h) \/ h = Genesis \/ h \in Checkpoint

\* Mutant of CommonAncestor: the walks take a parent that is not stored.
CommonAncestorUnstored(a, b) ==
    CHOOSE h \in Ancestors(a) \cap Ancestors(b) :
        \A g \in Ancestors(a) \cap Ancestors(b) : Height[g] <= Height[h]

\* find_common_ancestor: both walks go by stored rows, at most WalkLimit steps.
CommonAncestor(a, b) ==
    LET meet == {h \in Ancestors(a) \cap Ancestors(b) :
                    /\ \A g \in Ancestors(a) \cup Ancestors(b) :
                          Height[g] >= Height[h] => g \in Stored
                    /\ Height[a] - Height[h] <= WalkLimit
                    /\ Height[b] - Height[h] <= WalkLimit}
    IN  IF meet = {} THEN None
        ELSE CHOOSE h \in meet : \A g \in meet : Height[g] <= Height[h]

\* link_state: the heights from the lowest active row to the tip, and in them
\* (SQL_BROKEN_LINKS) the active rows whose parent by height is missing, or is
\* another row, or has another row beside it.
LinkWindow == Min({Height[h] : h \in active}) .. TipHeight
BrokenChildren ==
    {c \in active \ {Genesis} :
        /\ Height[c] - 1 \in LinkWindow
        /\ Height[c] \in LinkWindow
        /\ ActiveAt(Height[c] - 1) # {Parent[c]}}

-----------------------------------------------------------------------------
(* Transactions.  Each takes the first step of todo.                        *)

Do(kind) == todo # <<>> /\ Head(todo).do = kind
Insert(h) == [do |-> "insert", h |-> h]
Inserts(run) == [i \in 1 .. Len(run) |-> Insert(run[i])]

NewRank(h) == 1 + Cardinality({g \in Stored : Height[g] = Height[h]})

\* Mutant of Min2: the latest fork replaces the lower one still unheard.
LatestFork(a, b) == b

\* RECORD_PENDING_REORG_SQL: the lowest fork not yet heard by every consumer.
Min2(a, b) == IF a = None \/ b < a THEN b ELSE a

\* The heights whose served row a transaction replaced or withdrew (history).
Withdrawn == {k \in Heights : Served(k) # None /\ ServedFrom(active', rank', k) # Served(k)}
Journal == changed' = changed \cup Withdrawn

\* What is left from the first step of these kinds on.
GoOnAt(kinds) ==
    LET at == {i \in 1 .. Len(todo) : todo[i].do \in kinds}
    IN  IF at = {} THEN <<>> ELSE SubSeq(todo, Min(at), Len(todo))

\* A refusal or an error ends the operation; the heal goes on to its next break.
Refuse ==
    /\ todo' = GoOnAt({"heal", "window"})
    /\ UNCHANGED <<rows, pending, cuts>>
Skip == todo' = Tail(todo) /\ UNCHANGED <<rows, pending, cuts>>

\* insert_header: a duplicate is left as it stands; an extension of the tip
\* lands active with the tip in one transaction; anything else lands inactive,
\* and a header that outworks the tip goes on to the reorg.
InsertHeader ==
    /\ Do("insert")
    /\ LET h == Head(todo).h
           becomesTip == tip = None \/ (Anchored(h) /\ WorkOn(h) > work[tip])
           extendsTip == tip = None \/ (h # Genesis /\ Parent[h] = tip)
       IN  \/ h \in Stored /\ Skip
           \/ h \notin Stored /\ ~Insertable(h) /\ Refuse
           \/ /\ h \notin Stored
              /\ Insertable(h)
              /\ rank' = [rank EXCEPT ![h] = NewRank(h)]
              /\ work' = [work EXCEPT ![h] = WorkOn(h)]
              /\ linked' = IF HasParent(h) THEN linked \cup {h} ELSE linked
              /\ IF becomesTip /\ extendsTip
                   THEN active' = active \cup {h} /\ tip' = h /\ todo' = Tail(todo)
                   ELSE /\ UNCHANGED <<active, tip>>
                        /\ todo' = IF becomesTip
                                     THEN <<[do |-> "reorg", h |-> h]>> \o Tail(todo)
                                     ELSE Tail(todo)
              /\ UNCHANGED <<pending, cuts>>
    /\ Journal

\* handle_reorg: the flags of both branches, the fork and the tip in one
\* transaction; no common ancestor refuses.
HandleReorg ==
    /\ Do("reorg")
    /\ LET h == Head(todo).h
           meet == CommonAncestor(h, tip)
           branch == {g \in Ancestors(h) : Height[g] > Height[meet]}
       IN  \/ meet = None /\ Refuse
           \/ /\ meet # None
              /\ active' = {g \in active : Height[g] <= Height[meet]} \cup branch
              /\ tip' = h
              /\ pending' = Min2(pending, Height[meet] + 1)
              /\ todo' = Tail(todo)
              /\ UNCHANGED <<rank, linked, work, cuts>>
    /\ Journal

\* relink_orphan_and_reevaluate: the link and the work are one write ...
Relink ==
    /\ Do("relink")
    /\ LET h == Head(todo).h
       IN  \/ ~HasParent(h) /\ Skip
           \/ HasParent(h) /\ ~(MatchesCheckpoint(h) /\ WindowLoads(Parent[h])) /\ Refuse
           \/ /\ HasParent(h)
              /\ MatchesCheckpoint(h)
              /\ WindowLoads(Parent[h])
              /\ linked' = linked \cup {h}
              /\ work' = [work EXCEPT ![h] = WorkOn(h)]
              /\ todo' = <<[do |-> "retip", h |-> h]>> \o Tail(todo)
              /\ UNCHANGED <<rank, active, tip, pending, cuts>>
    /\ Journal

\* ... and the tip, read again, another.
Retip ==
    /\ Do("retip")
    /\ LET h == Head(todo).h
       IN  \/ ~OutworksTip(h) /\ Skip
           \/ /\ OutworksTip(h)
              /\ tip \notin {None, Parent[h]}
              /\ todo' = <<[do |-> "reorg", h |-> h]>> \o Tail(todo)
              /\ UNCHANGED <<rows, pending, cuts>>
           \/ /\ OutworksTip(h)
              /\ tip \in {None, Parent[h]}
              /\ tip' = h
              /\ active' = active \cup {h}
              /\ todo' = Tail(todo)
              /\ UNCHANGED <<rank, linked, work, pending, cuts>>
    /\ Journal

\* One chunk of insert_headers_batch: a row stored inactive is activated where
\* nothing is active at its height, a row not stored is inserted active and
\* unlinked; the work runs on from the parent of the whole run.
ActivatesStored(h) == h \in Stored \ active /\ ActiveAt(Height[h]) = {}

BatchChunk ==
    /\ Do("chunk")
    /\ LET run == Head(todo).run
           here == {run[i] : i \in Head(todo).from .. Min({Len(run), Head(todo).from + ChunkSize - 1})}
           base == IF HasParent(run[1]) THEN work[Parent[run[1]]] ELSE 0
           running(h) == base + TrueWork[h] - (TrueWork[run[1]] - Weight[run[1]])
           fresh == here \ Stored
           written == fresh \cup {h \in here : ActivatesStored(h)}
       IN  /\ rank' = [h \in Header |-> IF h \in fresh THEN NewRank(h) ELSE rank[h]]
           /\ active' = active \cup written
           /\ work' = [h \in Header |-> IF h \in written THEN running(h) ELSE work[h]]
           /\ todo' = Tail(todo)
           /\ UNCHANGED <<linked, tip, pending, cuts>>
    /\ Journal

\* SQL_DEDUPE_HEIGHT, one height after another from the top: the row an active
\* row above names is kept, else the newest.
DedupeHeight ==
    /\ Do("dedupe")
    /\ LET dual == {k \in Heights : Cardinality(ActiveAt(k)) > 1}
           k == Max(dual)
           named == {h \in ActiveAt(k) : \E c \in ActiveAt(k + 1) : Parent[c] = h}
           kept == Newest(IF named # {} THEN named ELSE ActiveAt(k))
       IN  IF dual = {}
             THEN Skip
             ELSE /\ active' = active \ (ActiveAt(k) \ {kept})
                  /\ UNCHANGED <<rank, linked, work, tip, pending, todo, cuts>>
    /\ Journal

\* update_chain_tip_to_highest.
TipToHighest ==
    /\ Do("top")
    /\ tip' = IF active = {} THEN tip
              ELSE Newest(ActiveAt(Max({Height[h] : h \in active})))
    /\ todo' = Tail(todo)
    /\ UNCHANGED <<rank, active, linked, work, pending, cuts>>
    /\ Journal

\* SQL_LINK_SPAN: active rows without a parent id, linked to the row they name.
LinkSpan ==
    /\ Do("link") \/ Do("window")
    /\ linked' = linked \cup {h \in active : Height[h] \in Head(todo).span /\ HasParent(h)}
    /\ todo' = Tail(todo)
    /\ UNCHANGED <<rank, active, work, tip, pending, cuts>>
    /\ Journal

\* canonicalize_pushed: what it finds at the pushed heights decides its answer.
Rivals(run) == {r \in active \ Range(run) : \E i \in 1 .. Len(run) : Height[r] = Height[run[i]]}
ChildrenOf(h) == {c \in ActiveAt(Height[h] + 1) : Parent[c] = h}

\* Mutant of PushOutcome: the child above is asked for first, so a run that
\* extends the tip is answered as one nothing commits to.
PushOutcomeChildFirst(run) ==
    CASE ChildrenOf(Last(run)) = {} -> "storedInactive"
      [] /\ ChildrenOf(Last(run)) # {}
         /\ \A h \in Range(run) : ActiveAt(Height[h]) = {h} -> "active"
      [] OTHER -> "activated"

PushOutcome(run) ==
    CASE \A h \in Range(run) : ActiveAt(Height[h]) = {h} -> "active"
      [] /\ \E h \in Range(run) : ActiveAt(Height[h]) # {h}
         /\ ChildrenOf(Last(run)) # {}
         /\ HasParent(run[1]) => Parent[run[1]] \in active
         /\ Len(run) <= MaxActivation -> "activated"
      [] OTHER -> "storedInactive"

Canonicalize ==
    /\ Do("canon")
    /\ LET run == Head(todo).run
       IN  \/ /\ PushOutcome(run) = "active"
              /\ todo' = <<[do |-> "link", span |-> Height[run[1]] .. Height[Last(run)] + 1],
                           [do |-> "top"]>> \o Tail(todo) \o Head(todo).after
              /\ UNCHANGED <<rows, pending, cuts>>
           \/ PushOutcome(run) = "storedInactive" /\ Skip
           \/ /\ PushOutcome(run) = "activated"
              /\ active' = (active \ Rivals(run)) \cup Range(run)
              /\ \E c \in ChildrenOf(Last(run)) : linked' = linked \cup {c}
              /\ pending' = IF Rivals(run) = {} THEN pending
                            ELSE Min2(pending, Min({Height[r] : r \in Rivals(run)}))
              /\ todo' = Tail(todo) \o Head(todo).after
              /\ UNCHANGED <<rank, work, tip, cuts>>
    /\ Journal

\* store_heal_progress: kept inactive and unlinked, with their own work.
KeepProgress ==
    /\ Do("keep")
    /\ LET fresh == Head(todo).rows \ Stored
       IN  IF \A h \in Head(todo).rows : MatchesCheckpoint(h)
             THEN /\ rank' = [h \in Header |-> IF h \in fresh THEN NewRank(h) ELSE rank[h]]
                  /\ work' = [h \in Header |-> IF h \in fresh THEN Weight[h] ELSE work[h]]
                  /\ todo' = Tail(todo)
                  /\ UNCHANGED <<active, linked, tip, pending, cuts>>
             ELSE todo' = GoOnAt({"window"})
                  /\ UNCHANGED <<rows, pending, cuts>>
    /\ Journal

\* The active rows the repair reads, in (height, id) order, from its anchor up.
RepairRows == {h \in active : Height[h] \in TipHeight - RepairWindow .. TipHeight}
Before(g, h) == Height[g] < Height[h] \/ (Height[g] = Height[h] /\ rank[g] < rank[h])
RepairAnchor == CHOOSE h \in RepairRows : \A g \in RepairRows : ~Before(g, h)
UpTo(h) == {g \in RepairRows : g = h \/ Before(g, h)}

\* Mutant of Expected: every active row counts, named by the next or not.
ExpectedUnlinked ==
    [h \in RepairRows |->
        work[RepairAnchor] + MapThenSumSet(LAMBDA g : Weight[g], UpTo(h) \ {RepairAnchor})]

\* The work each row should claim, while each names the one before it.
Expected ==
    [h \in {h \in RepairRows :
               UpTo(h) = {g \in Ancestors(h) : Height[g] >= Height[RepairAnchor]}} |->
        work[RepairAnchor] + TrueWork[h] - TrueWork[RepairAnchor]]

\* repair_cumulative_work: the rows that claim anything else are rewritten from
\* the lowest up, so many a transaction.
RepairWork ==
    /\ Do("repair")
    /\ LET wrong == {h \in DOMAIN Expected : tip # None /\ work[h] # Expected[h]}
           lowest == {h \in wrong : Cardinality({g \in wrong : Before(g, h)}) < RepairBatch}
       IN  /\ work' = [h \in Header |-> IF h \in lowest THEN Expected[h] ELSE work[h]]
           /\ todo' = IF lowest = wrong THEN Tail(todo) ELSE todo
    /\ UNCHANGED <<rank, active, linked, tip, pending, cuts>>
    /\ Journal

-----------------------------------------------------------------------------
(* Operations.  Each starts when the writer before it has ended.            *)

Start(steps) == todo = <<>> /\ todo' = steps /\ UNCHANGED <<rows, pending, cuts, changed>>

\* The ancestors of h that are not stored, up to the first stored one and at
\* most n, oldest first: what the parent walks read from the couriers.
Missing(h, n) ==
    LET up == Tail(Line[h])
        gone == {k \in 0 .. Min({n, Len(up)}) : \A i \in 1 .. k : up[i] \notin Stored}
    IN  Reverse(SubSeq(up, 1, Max(gone)))

\* Mutant of LiveInsert: a stored row is walked again only while it is unlinked.
LiveInsertOrphans(h) ==
    LET walk == Inserts(Missing(h, Backfill)) \o <<[do |-> "relink", h |-> h]>>
    IN  \/ /\ h \notin Stored
           /\ Start(<<Insert(h)>> \o (IF HasParent(h) THEN <<>> ELSE walk))
        \/ /\ h \in Stored \ linked
           /\ Start(walk)

\* insert_with_parent_backfill: the header first; then, when it has no stored
\* parent, or is a stored row still unlinked or inactive, the walk back.
LiveInsert(h) ==
    LET walk == Inserts(Missing(h, Backfill)) \o <<[do |-> "relink", h |-> h]>>
    IN  \/ /\ h \notin Stored
           /\ Start(<<Insert(h)>> \o (IF HasParent(h) THEN <<>> ELSE walk))
        \/ /\ h \in Stored
           /\ h \notin linked \/ h \notin active
           /\ Start(walk)

\* insert_headers_batch: the run stands on a stored row, starts at the genesis,
\* or carries a checkpoint; a run beside active rows goes the live way.
Vouched(run) == run[1] = Genesis \/ Range(run) \cap Checkpoint # {}

BatchAdmits(run) ==
    /\ \A i \in 1 .. Len(run) : MatchesCheckpoint(run[i])
    /\ IF HasParent(run[1]) THEN WindowLoads(Parent[run[1]]) ELSE Vouched(run)
    /\ \A h \in Range(run) :
          (\E c \in StoredCheckpointAbove(Height[run[1]]) : Height[h] < Height[c])
              => ActiveAt(Height[h]) = {h}

\* Mutant of Competes: a run on an inactive parent is written as a bulk run.
CompetesBeside(run) ==
    tip # None /\ Height[run[1]] <= TipHeight
        /\ \E i \in 1 .. Len(run) : ActiveAt(Height[run[i]]) \ {run[i]} # {}

Competes(run) ==
    LET follows == HasParent(run[1]) /\ Parent[run[1]] \notin active
        beside == \E i \in 1 .. Len(run) : ActiveAt(Height[run[i]]) \ {run[i]} # {}
    IN  follows \/ (tip # None /\ Height[run[1]] <= TipHeight /\ beside)

Chunks(run) ==
    [i \in 1 .. (Len(run) + ChunkSize - 1) \div ChunkSize |->
        [do |-> "chunk", run |-> run, from |-> (i - 1) * ChunkSize + 1]]

Batch(run) == IF Competes(run) THEN Inserts(run) ELSE Chunks(run)
Canon(run, after) == <<[do |-> "canon", run |-> run, after |-> after]>>
Sweep == <<[do |-> "dedupe"], [do |-> "top"]>>

\* The catch-up's batch, and /admin/bulk-sync.
BulkWrite(run) == BatchAdmits(run) /\ Start(Batch(run) \o Sweep)

\* A catch-up whose upstream served nothing it could write: the sweep alone.
CatchUpSweep ==
    /\ \E h \in Header : Height[h] > TipHeight + LiveGap
    /\ Start(Sweep)

\* /admin/backfill: the batch, with no tip of its own ("the gap is below it by
\* definition", which the route does not check).
BackfillWrite(run) ==
    /\ BackfillAnywhere \/ Height[Last(run)] <= TipHeight
    /\ BatchAdmits(run)
    /\ Start(Batch(run))

\* /admin/ingest.
AdminIngest(run) == BatchAdmits(run) /\ Start(Batch(run) \o Canon(run, <<>>))

\* The push's door: known when active; else the run from the first stored
\* ancestor up, handed to ingest_pushed whole.
PushRun(h) == Append(Missing(h, Backfill), h)

PushIngest(h) ==
    /\ h \notin active
    /\ LET run == PushRun(h)
       IN  /\ run[1] = Genesis \/ HasParent(run[1])
           /\ BatchAdmits(run)
           /\ Start(Batch(run) \o Canon(run, <<>>))

\* The pass's link leg on a broken chain: heal_links takes the breaks it read,
\* the highest first.
HealLinks ==
    /\ BrokenChildren # {}
    /\ \E breaks \in SetToSeqs(BrokenChildren) :
          /\ \A i, j \in DOMAIN breaks : i < j => Height[breaks[i]] >= Height[breaks[j]]
          /\ Start([i \in DOMAIN breaks |-> [do |-> "heal", c |-> breaks[i]]])

\* The run the child c names, back to an active row, through stored rows and
\* the couriers (highest first).
HealRun(c) ==
    LET up == Tail(Line[c])
        off == {k \in 0 .. Len(up) : \A i \in 1 .. k : up[i] \notin active}
    IN  SubSeq(up, 1, Max(off))

\* One break: the run is handed to ingest_pushed; a walk cut short keeps what
\* it read, and goes on to the next break only after a fault.
HealBreak ==
    /\ Do("heal")
    /\ LET up == HealRun(Head(todo).c)
           run == Reverse(up)
           landed == Len(up) < Len(Line[Head(todo).c]) - 1 /\ Len(up) < MaxActivation
           admitted == up # <<>> /\ BatchAdmits(run)
           most == Min({Len(up), MaxActivation})
           window == <<[do |-> "window", span |-> LinkWindow]>>
       IN  \/ landed /\ ~admitted /\ todo' = Tail(todo)
           \/ /\ landed /\ admitted
              /\ todo' = Batch(run) \o Canon(run, window) \o Tail(todo)
           \/ \E n \in 0 .. most :
                 LET read == {up[i] : i \in 1 .. n} \ Stored
                     keep == IF read = {} THEN <<>> ELSE <<[do |-> "keep", rows |-> read]>>
                 IN  /\ n < most => up[n + 1] \notin Stored
                     /\ n = most => ~landed
                     /\ \/ todo' = keep \o Tail(todo)
                        \/ todo' = keep \o GoOnAt({"window"})
    /\ UNCHANGED <<rows, pending, cuts, changed>>

\* finish_sync's tail.
FinishSync == tip # None /\ Start(<<[do |-> "repair"]>>)

\* The operation is cut between two transactions.
MidBulk == \E i \in 1 .. Len(todo) : todo[i].do \in {"chunk", "canon", "link", "top"}

Cut ==
    /\ todo # <<>>
    /\ cuts < MaxCuts
    /\ CutBulk \/ ~MidBulk
    /\ cuts' = cuts + 1
    /\ todo' = <<>>
    /\ UNCHANGED <<rows, pending, changed>>

Transaction ==
    \/ InsertHeader \/ HandleReorg \/ Relink \/ Retip \/ BatchChunk \/ DedupeHeight
    \/ TipToHighest \/ LinkSpan \/ Canonicalize \/ HealBreak \/ KeepProgress \/ RepairWork

Operation ==
    \/ \E h \in Header \ {Genesis} : LiveInsert(h) \/ PushIngest(h)
    \/ \E run \in Runs : BulkWrite(run) \/ BackfillWrite(run) \/ AdminIngest(run)
    \/ CatchUpSweep \/ HealLinks \/ FinishSync

\* The announce, once every consumer has accepted the fork (module Announce).
ForkHeard ==
    /\ pending # None
    /\ pending' = None
    /\ changed' = {}
    /\ UNCHANGED <<rows, todo, cuts>>

\* The store before any write, or as /admin/bulk-sync of the genesis leaves it.
Init ==
    LET first == IF Bootstrapped THEN {Genesis} ELSE {}
    IN  /\ rank = [h \in Header |-> IF h \in first THEN 1 ELSE 0]
        /\ active = first
        /\ linked = {}
        /\ work = [h \in Header |-> IF h \in first THEN Weight[h] ELSE 0]
        /\ tip = IF Bootstrapped THEN Genesis ELSE None
        /\ pending = None
        /\ todo = <<>>
        /\ cuts = 0
        /\ changed = {}

Next == Transaction \/ Operation \/ Cut \/ ForkHeard

Spec == Init /\ [][Next]_vars

\* What a pass asks for while the network stands at Best (run_cron_inner): a height
\* above the tip once those below it have landed (the pass ends at the first that
\* does not), and Best itself when it competes with the tip at the tip's height.
Landed(h) == h \in active \cup linked

Offered(h) ==
    \/ /\ Height[h] > TipHeight
       /\ \A g \in Ancestors(h) \ {h} : Height[g] > TipHeight => Landed(g)
    \/ h = Best /\ Height[h] = TipHeight

\* Every minute a pass asks again; an operation that is not cut goes on.
Fairness ==
    /\ WF_vars(Transaction)
    /\ \A h \in Ancestors(Best) : SF_vars(todo = <<>> /\ Offered(h) /\ LiveInsert(h))

FairSpec == Spec /\ Fairness

-----------------------------------------------------------------------------
(* Properties.                                                              *)

\* The transactions an operation may still make.
Windows == [do : {"window"}, span : SUBSET Int]
Steps ==
    [do : {"insert", "reorg", "relink", "retip"}, h : Header]
        \cup [do : {"chunk"}, run : Seq(Header) \ {<<>>}, from : Nat \ {0}]
        \cup [do : {"canon"}, run : Seq(Header) \ {<<>>}, after : Seq(Windows)]
        \cup [do : {"dedupe", "top", "repair"}]
        \cup [do : {"link"}, span : SUBSET Int] \cup Windows
        \cup [do : {"heal"}, c : Header]
        \cup [do : {"keep"}, rows : SUBSET Header]

\* Type invariant of the table and of the running operation.
TypeOK ==
    /\ rank \in [Header -> 0 .. Cardinality(Header)]
    /\ active \subseteq Stored
    /\ linked \subseteq Stored
    /\ work \in [Header -> Nat]
    /\ tip \in Stored \cup {None}
    /\ pending \in Heights \cup {None}
    /\ todo \in Seq(Steps)
    /\ cuts \in 0 .. MaxCuts
    /\ changed \subseteq Heights

\* Between operations the active rows are exactly the tip's own chain: one row
\* a height, no hole, nothing above the tip, whatever forks and orphans came before
\* and whatever was cut outside a bulk write's rows and tip, in a store that no
\* checkpoint stands over a hole of (insert_header, handle_reorg, the relink, the
\* batch).
ActiveIsTheTipsChain ==
    todo = <<>> /\ tip # None => active = Ancestors(tip) \cap Stored /\ tip \in active

\* The work a row claims is never more than the work of its chain, so no branch
\* wins the tip on work it does not have (insert_header, the relink, the batch's
\* running work, the repair).
WorkIsNeverOverstated == \A h \in Stored : work[h] <= TrueWork[h]

\* The tip moves forward on its own chain, or to a row that claims more work than
\* the old tip's row claimed just before, by whichever operation it moves and
\* whatever was cut before, but for a bulk write before its tip (more work wins,
\* audit M1).
TipNeverLosesWork ==
    [][tip # None /\ tip' # tip
          => tip \in Ancestors(tip') \/ work'[tip'] > work[tip]]_vars

\* The same of the work that the chains have: no run lists it (README, section 6).
TipNeverLosesTrueWork ==
    [][tip # None /\ tip' # tip => TrueWork[tip'] >= TrueWork[tip]]_vars

Serves == INSTANCE ServedChain
    WITH served <- active, claim <- work, Chain <- [h \in Header |-> Ancestors(h)],
         Work <- TrueWork, Depth <- WalkLimit

\* Live inserts, walks back, reorgs, chunks, heals and cuts together serve one
\* chain, in every state between two transactions and not between operations
\* alone (insert_header, handle_reorg, the batch, update_chain_tip_to_highest).
ServesOneChain == Serves!Spec

\* What the tip claims never falls: no run lists it (README, section 6).
TipClaimNeverFalls == [][tip # None => work'[tip] >= work[tip]]_vars

\* Every height whose served row was replaced or withdrawn is at or above the
\* fork the next announce carries (RECORD_PENDING_REORG_SQL's minimum).
ForkCoversEveryChange ==
    changed # {} => pending # None /\ pending <= Min(changed)

\* A push answered storedInactive is inactive ("When no stored child commits to
\* the push it stays as the insert left it, inactive", ingest_pushed).
StoredInactiveIsInactive ==
    Do("canon") /\ PushOutcome(Head(todo).run) = "storedInactive"
        => Last(Head(todo).run) \notin active

\* The store settles on the chain the network has settled on, whatever a cut
\* parent walk left behind ("Without this repair the dupe short-circuit made the
\* wedge permanent ; the walk was never re-attempted", insert_with_parent_backfill).
\* It does not: the repair is of the header that is asked for again, and no later
\* walk goes past a stored row, an orphan included.
Converges == <>[](tip = Best)

\* What is left of it: once no stored header of the network's chain claims less work
\* than it has, that chain is the one served.  A heavier row that was stored and cut
\* before its reorg is found inactive by the next ask for it, walked again and made
\* the tip ("a dupe stored INACTIVE resumes too", insert_with_parent_backfill).
HonestBranchIsServed ==
    <>[]((\A h \in Ancestors(Best) \cap Stored : work[h] = TrueWork[h]) => tip = Best)
=============================================================================
