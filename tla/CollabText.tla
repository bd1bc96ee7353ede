----------------------------- MODULE CollabText -----------------------------
(***************************************************************************)
(* The texts a co-editing room handles, and the three conversions its      *)
(* saves rest on: the line-ending conversion of a stored file, the         *)
(* spelling normalisation of a save and the three-way merge of an external *)
(* change (crates/engine/src/collab/merge.rs).                             *)
(*                                                                         *)
(* A text is a function from Lines to Values.  A "line" stands for a       *)
(* region of the document the line merge treats as one hunk, a value for   *)
(* what that region says.  A stored file also has line endings; its        *)
(* checksum is the checksum of its bytes, so two contents have the same    *)
(* checksum exactly when they are the same content, and the content itself *)
(* stands for its checksum.                                                *)
(***************************************************************************)
EXTENDS Integers

CONSTANTS
    Lines,      \* the regions of a document
    Values,     \* what a region can say
    Alias,      \* a value that spells a domain name by an alias
    Canonical,  \* the canonical spelling of Alias
    Broken,     \* a value that makes the text unparseable as an engram
    Absent      \* stands for a file that is not there

\* A save rewrites Alias to Canonical, which no save rewrites again.
ASSUME SpellingAssumption ==
    /\ Alias \in Values => Canonical \in Values
    /\ Canonical # Alias

Text == [Lines -> Values]

\* The bytes of a stored document: what it says and whether its line endings
\* are CRLF.
Content == [lines : Text, crlf : BOOLEAN]

ASSUME AbsentAssumption == Absent \notin Content

Stored == Content \cup {Absent}

\* What a write of text t stores: every write is LF.
LfContent(t) == [lines |-> t, crlf |-> FALSE]

\* normalize_domain_spellings_for: alias spellings become canonical ones.
Canon(t) == [l \in Lines |-> IF t[l] = Alias THEN Canonical ELSE t[l]]

\* refuse_not_an_engram: the parse gate every save passes.
Refused(t) == \E l \in Lines : t[l] = Broken

-----------------------------------------------------------------------------
(***************************************************************************)
(* three_way(base, mine, theirs): a region only one side changed takes     *)
(* that side, a region both changed the same way is kept, and a region     *)
(* both changed differently is a conflict.                                 *)
(***************************************************************************)
Collides(base, mine, theirs, l) ==
    /\ mine[l] # base[l]
    /\ theirs[l] # base[l]
    /\ mine[l] # theirs[l]

MergeConflicts(base, mine, theirs) ==
    \E l \in Lines : Collides(base, mine, theirs, l)

Merged(base, mine, theirs) ==
    [l \in Lines |-> IF mine[l] = base[l] THEN theirs[l] ELSE mine[l]]
=============================================================================
