--------------------------- MODULE OverlayMirror ---------------------------
(***************************************************************************)
(* The drafts one account holds in one reviewing domain. A decision about  *)
(* a path (a draft, or a deletion of the team's page) is a row of the      *)
(* index and a mirror under the state directory: a draft file and a        *)
(* `.tombstone' sidecar. The two are written one after the other, so that  *)
(* a sync after the index was rebuilt brings back what was decided and     *)
(* nothing that was dropped (domain_view.rs, overlay_journal.rs,           *)
(* engine/sync.rs).                                                        *)
(*                                                                         *)
(* A request that is dropped stops where a crash stops.                    *)
(*                                                                         *)
(* Left out: several accounts, spellings of a path that differ in case     *)
(* only, drafted attachments, share-links, leaving the review mode, a      *)
(* removed domain, and the links of a text that a move rebases.            *)
(***************************************************************************)
EXTENDS Naturals, Sequences, Functions

CONSTANTS
    Paths, Texts,
    TeamTexts,  \* the texts the team's folder may hold
    None,       \* nothing: no row, no file, no base, the removal of a draft
    Tomb,       \* a deletion of the base engram
    Origin,     \* the domain's origin lock
    Calls,      \* the calls that may be under way at once
    MaxCalls,   \* the calls that begin
    MaxFaults,  \* failed writes, failed passes and crashes
    MaxWipes,   \* rebuilds of the index
    MaxPulls    \* changes of the team's folder

ASSUME OverlayAssumption ==
    /\ None \notin Texts /\ Tomb \notin Texts /\ None # Tomb
    /\ Origin \notin Paths /\ TeamTexts \subseteq Texts
    /\ {MaxCalls, MaxFaults, MaxWipes, MaxPulls} \subseteq Nat

VARIABLES
    base,   \* the team's folder and its index rows: a text or None by path
    row,    \* this account's rows: a text, Tomb or None by path
    file,   \* the mirrored drafts: a text or None by path
    side,   \* the paths with a tombstone sidecar
    call,   \* what each call still has to write
    pass,   \* the journal entries a restore has still to look at, by path
    told,   \* observer: what a row may be, by the answers so far
    kept,   \* observer: what the mirror may say, by the answers so far
    raced,  \* observer: the paths where two calls overlapped
    spent   \* how often each bounded thing happened

disk == <<file, side>>
observers == <<told, kept, raced>>
vars == <<base, row, disk, call, pass, observers, spent>>

(***************************************************************************)
(* Decisions.  A write [path, value] puts a draft (a text), a tombstone,   *)
(* or takes the decision away (None).                                      *)
(***************************************************************************)
To(p, v) == [path |-> p, value |-> v]

Mirror(p) == IF file[p] # None THEN file[p] ELSE IF p \in side THEN Tomb ELSE None

Visible(p) == CASE row[p] = Tomb -> None
                [] row[p] = None -> base[p]
                [] OTHER -> row[p]

\* Mutant of Order: a removal takes the row first.
OrderRowFirst(w) == <<"row", "file", "side">>

\* The row first when a decision is made, the mirror first when it is dropped;
\* a draft's file before its sidecar goes, a sidecar last.
Order(w) == IF w.value = None THEN <<"side", "file", "row">>
                              ELSE <<"row", "file", "side">>

(***************************************************************************)
(* Calls.  `writes' is what is left to do, `at' the position in the order  *)
(* of the first of them, `undo' what a refusal of the last one puts back.  *)
(***************************************************************************)
Idle == [writes |-> <<>>, at |-> 1, undo |-> <<>>, does |-> <<>>, holds |-> {},
         was |-> <<>>, behind |-> {}, over |-> "done"]

Running == {c \in Calls : call[c].writes # <<>>}
PathsOf(c) == DOMAIN call[c].does
Quiet(p) == \A c \in Running : p \notin PathsOf(c)
Doing(c) == Head(call[c].writes)
Part(c) == Order(Doing(c))[call[c].at]

\* No restore holds the store's lock.
StoreFree == DOMAIN pass = {}

Within(what, max) == spent[what] < max
Spend(what) == spent' = [spent EXCEPT ![what] = @ + 1]

\* What the mirror may be once a write to v was tried.
Tried(v) == IF v = Tomb THEN {Tomb, None} ELSE {v}

Begin(c, writes, undo, holds) ==
    LET paths == {w.path : w \in Range(writes)}
        does == [p \in paths |-> (CHOOSE w \in Range(writes) : w.path = p).value]
        was == [told |-> Restrict(told, paths), kept |-> Restrict(kept, paths)]
    IN  \* The calls are alike: one that begins takes the first free place.
        /\ c \notin Running /\ c = CHOOSE d \in Calls : d \notin Running
        /\ Within("calls", MaxCalls) /\ Spend("calls")
        /\ \A d \in Running : call[d].holds \intersect holds = {}
        /\ call' = [call EXCEPT ![c] =
              [Idle EXCEPT !.writes = writes, !.undo = undo, !.holds = holds,
                           !.does = does, !.was = was]]
        /\ raced' = raced \union {p \in paths : ~Quiet(p)}
        /\ told' = [p \in Paths |-> IF p \in raced' THEN {}
                                    ELSE IF p \in paths THEN told[p] \union {does[p]}
                                    ELSE told[p]]
        /\ kept' = [p \in Paths |-> IF p \in raced' THEN {}
                                    ELSE IF p \in paths THEN kept[p] \union Tried(does[p])
                                    ELSE kept[p]]
        /\ UNCHANGED <<base, row, disk, pass>>

(***************************************************************************)
(* The verbs, each under the locks of the paths it names.                  *)
(***************************************************************************)
\* A capture, an edit or a save.
Save(c, p, t) == Begin(c, <<To(p, t)>>, <<>>, {p})

\* A delete: of the team's page a tombstone, of a page nobody else has the draft.
Removal(p) == To(p, IF base[p] # None THEN Tomb ELSE None)
Delete(c, p) == Visible(p) # None /\ Begin(c, <<Removal(p)>>, <<>>, {p})

\* What a refused move puts back at its source.
PutBack(p) == <<To(p, row[p])>>

Move(c, p, q) ==
    /\ p # q /\ Visible(p) # None
    /\ row[q] \notin Texts /\ base[q] = None
    /\ Begin(c, <<Removal(p), To(q, Visible(p))>>, PutBack(p), {p, q})

(***************************************************************************)
(* Calls that hold no path's lock.                                         *)
(***************************************************************************)
\* A recovered document is written without a lock.
RestoreEngram(c, p, t) == Begin(c, <<To(p, t)>>, <<>>, {})

\* A conflict is resolved with a merged text, under the origin lock alone.
ResolveMerged(c, p, t) == row[p] # None /\ Begin(c, <<To(p, t)>>, <<>>, {Origin})

\* A discard, a withdrawal, a resolution with the team's text, or a
\* convergence that found the folder to have caught up.
Discard(c, p) == row[p] # None /\ Begin(c, <<To(p, None)>>, <<>>, {Origin})

\* A convergence that follows a page the team moved from p to q.
FollowBase(c, p, q) ==
    /\ row[p] \in Texts /\ base[p] = None
    /\ base[q] # None /\ row[q] = None
    /\ IF base[q] = row[p]
       THEN Begin(c, <<To(p, None)>>, <<>>, {Origin})
       ELSE Begin(c, <<To(p, None), To(q, row[p])>>, PutBack(p), {Origin})

(***************************************************************************)
(* The end of a call, and what its answer says of each path it named.      *)
(***************************************************************************)
Answer(c, k, over) ==
    LET named(p) == p \in DOMAIN k.does /\ p \notin raced
    IN  /\ told' = [p \in Paths |->
              IF ~named(p) \/ over = "torn" THEN told[p]
              ELSE IF over = "done" THEN {k.does[p]}
              ELSE k.was.told[p]]
        /\ kept' = [p \in Paths |->
              IF ~named(p) \/ over = "torn" \/ p \in k.behind THEN kept[p]
              ELSE IF over = "done" THEN {k.does[p]}
              ELSE k.was.kept[p] \union (k.was.told[p] \intersect {None})]
        /\ call' = [call EXCEPT ![c] = Idle]

\* On to the rest of this write, to the next one, or to the answer.
Advance(c, k, last) ==
    /\ IF last /\ Len(k.writes) = 1
       THEN Answer(c, k, k.over)
       ELSE /\ call' = [call EXCEPT ![c] =
                 IF last THEN [k EXCEPT !.writes = Tail(@), !.at = 1]
                         ELSE [k EXCEPT !.at = @ + 1]]
            /\ UNCHANGED <<told, kept>>
    /\ UNCHANGED <<base, pass, raced>>

Lands(c) == Advance(c, call[c], call[c].at = 3)

\* One transaction under the store's lock.
LandRow(c) ==
    /\ c \in Running /\ Part(c) = "row" /\ StoreFree
    /\ row' = [row EXCEPT ![Doing(c).path] = Doing(c).value]
    /\ Lands(c)
    /\ UNCHANGED <<disk, spent>>

LandDraft(c) ==
    /\ c \in Running /\ Part(c) = "file"
    /\ file' = [file EXCEPT ![Doing(c).path] =
                   IF Doing(c).value \in Texts THEN Doing(c).value ELSE None]
    /\ Lands(c)
    /\ UNCHANGED <<row, side, spent>>

LandSidecar(c) ==
    /\ c \in Running /\ Part(c) = "side"
    /\ side' = IF Doing(c).value = Tomb THEN side \union {Doing(c).path}
                                        ELSE side \ {Doing(c).path}
    /\ Lands(c)
    /\ UNCHANGED <<row, file, spent>>

(***************************************************************************)
(* What fails.                                                             *)
(***************************************************************************)
Fails(c) == c \in Running /\ Within("faults", MaxFaults) /\ Spend("faults")

\* This call, once the mirror of its write is not what its answer says.
Behind(c) == [call[c] EXCEPT !.behind = @ \union {Doing(c).path}]

\* A refusal: of a move's second write the source is put back, of a write
\* that puts something back there is only the log.
Refused(c, k) ==
    /\ IF Len(k.writes) = 1 /\ k.undo # <<>> /\ k.over = "done"
       THEN /\ call' = [call EXCEPT ![c] =
                 [k EXCEPT !.writes = k.undo, !.at = 1, !.over = "refused"]]
            /\ UNCHANGED <<told, kept>>
       ELSE Answer(c, k, IF k.over = "refused" THEN "torn" ELSE "refused")
    /\ UNCHANGED <<base, row, disk, pass, raced>>

\* The row of a decision does not land, and nothing of it did.
DecisionFails(c) ==
    /\ Fails(c) /\ Part(c) = "row" /\ StoreFree /\ Doing(c).value # None
    /\ Refused(c, call[c])

\* A mirror that fails after its row is a warning in the answer.
MirrorFails(c) ==
    /\ Fails(c) /\ Part(c) # "row" /\ Doing(c).value # None
    /\ Advance(c, Behind(c), TRUE)
    /\ UNCHANGED <<row, disk>>

\* A removal fails at its mirror, or at its row when the mirror is gone.
RemovalFails(c) ==
    /\ Fails(c) /\ Doing(c).value = None
    /\ Part(c) = "row" => StoreFree
    /\ Refused(c, Behind(c))

\* The daemon ends with whatever was under way.
Crash ==
    /\ Running # {} \/ ~StoreFree
    /\ Within("faults", MaxFaults) /\ Spend("faults")
    /\ call' = [c \in Calls |-> Idle]
    /\ pass' = <<>>
    /\ UNCHANGED <<base, row, disk, observers>>

\* The index is rebuilt while the daemon is down: the mirror is all there is.
Wipe ==
    /\ Running = {} /\ StoreFree
    /\ Within("wipes", MaxWipes) /\ Spend("wipes")
    /\ row' = [p \in Paths |-> None]
    /\ told' = [p \in Paths |-> IF p \in raced THEN {} ELSE kept[p] \union {None}]
    /\ UNCHANGED <<base, disk, call, pass, kept, raced>>

\* The team's folder changes: a pull, or a share that landed.
Pull(p, v) ==
    /\ base[p] # v
    /\ Within("pulls", MaxPulls) /\ Spend("pulls")
    /\ base' = [base EXCEPT ![p] = v]
    /\ UNCHANGED <<row, disk, call, pass, observers>>

(***************************************************************************)
(* The restore of a sync, under the store's lock from the read of the      *)
(* journal to the last row. A row that stands is kept.                     *)
(***************************************************************************)
RestoreBegins ==
    LET mirrored == {p \in Paths : Mirror(p) # None}
    IN  /\ StoreFree /\ mirrored # {}
        /\ pass' = [p \in mirrored |-> Mirror(p)]
        /\ UNCHANGED <<base, row, disk, call, observers, spent>>

\* Mutant of FillsGap: only an index without any row is filled.
FillsEmptyIndex(p) == (\A o \in Paths : row[o] = None) /\ (pass[p] = Tomb => base[p] # None)

\* A row is put where there is none, a tombstone over a base engram only.
FillsGap(p) == row[p] = None /\ (pass[p] = Tomb => base[p] # None)

RestoreEntry(p) ==
    /\ p \in DOMAIN pass
    /\ row' = IF FillsGap(p) THEN [row EXCEPT ![p] = pass[p]] ELSE row
    /\ pass' = Restrict(pass, DOMAIN pass \ {p})
    /\ UNCHANGED <<base, disk, call, observers, spent>>

\* The transaction of an entry fails and ends the pass.
RestoreFails(p) ==
    /\ p \in DOMAIN pass /\ FillsGap(p)
    /\ Within("faults", MaxFaults) /\ Spend("faults")
    /\ pass' = <<>>
    /\ UNCHANGED <<base, row, disk, call, observers>>

(***************************************************************************)
(* Specification                                                           *)
(***************************************************************************)
Init ==
    /\ base \in [Paths -> TeamTexts \union {None}]
    /\ row = [p \in Paths |-> None]
    /\ file = [p \in Paths |-> None]
    /\ side = {}
    /\ call = [c \in Calls |-> Idle]
    /\ pass = <<>>
    /\ told = [p \in Paths |-> {None}]
    /\ kept = [p \in Paths |-> {None}]
    /\ raced = {}
    /\ spent = [what \in {"calls", "faults", "wipes", "pulls"} |-> 0]

Verb(c) == \E p \in Paths :
    \/ \E t \in Texts : Save(c, p, t) \/ RestoreEngram(c, p, t) \/ ResolveMerged(c, p, t)
    \/ Delete(c, p) \/ Discard(c, p)
    \/ \E q \in Paths : Move(c, p, q) \/ FollowBase(c, p, q)

Works(c) == LandRow(c) \/ LandDraft(c) \/ LandSidecar(c)

Trouble(c) == DecisionFails(c) \/ MirrorFails(c) \/ RemovalFails(c)

Restore == RestoreBegins \/ \E p \in Paths : RestoreEntry(p)

Next ==
    \/ \E c \in Calls : Verb(c) \/ Works(c) \/ Trouble(c)
    \/ Restore
    \/ \E p \in Paths : RestoreFails(p)
    \/ Crash \/ Wipe
    \/ \E p \in Paths, v \in TeamTexts \union {None} : Pull(p, v)

Spec == Init /\ [][Next]_vars

\* The domain is synced again at some time (the daemon does it when it starts
\* and after a pull), and a restore that has begun goes on.
FairSpec == Spec /\ WF_vars(Restore)

(***************************************************************************)
(* Properties                                                              *)
(***************************************************************************)
\* Once nothing is under way at a path, its row says what the last answer
\* said, and its mirror says that or, where an answer warned or a call was
\* cut off, what stood before: a crash between the two, a refusal, a rebuild
\* of the index and a restore undo no decision and bring back nothing that
\* was dropped (domain_view.rs, `put', `clear_row' and `move_within').
DecisionsStand ==
    \A p \in Paths \ raced :
        Quiet(p) => row[p] \in told[p] /\ Mirror(p) \in kept[p]

\* A mirrored draft without a row gets its row back, or is dropped
\* (engine/sync.rs, `restore_overlays').
DraftsComeBack ==
    \A p \in Paths :
        row[p] = None /\ Mirror(p) \in Texts ~> row[p] # None \/ Mirror(p) \notin Texts

=============================================================================
