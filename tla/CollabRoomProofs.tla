-------------------------- MODULE CollabRoomProofs --------------------------
(***************************************************************************)
(* Proofs about CollabRoom, for every set of lines, values and connections *)
(* and every bound.                                                        *)
(***************************************************************************)
EXTENDS CollabRoom, FiniteSetTheorems, TLAPS

(***************************************************************************)
(* What the conversions of CollabText return.                              *)
(***************************************************************************)

\* Normalising a text gives a text: the canonical spelling is a value if the
\* alias is one.
LEMMA CanonType ==
    ASSUME NEW t \in Text
    PROVE  Canon(t) \in Text
BY SpellingAssumption DEF Canon, Text

\* A merge of texts is a text.
LEMMA MergedType ==
    ASSUME NEW base \in Text, NEW mine \in Text, NEW theirs \in Text
    PROVE  Merged(base, mine, theirs) \in Text
BY DEF Merged, Text

\* An edit of one line of a text gives a text.
LEMMA EditType ==
    ASSUME NEW t \in Text, NEW l \in Lines, NEW v \in Values
    PROVE  [t EXCEPT ![l] = v] \in Text
BY DEF Text

\* A written file says the text it was written from.
LEMMA LfContentType ==
    ASSUME NEW t \in Text
    PROVE  LfContent(t) \in Content /\ LfContent(t).lines = t
BY DEF LfContent, Content

\* A content says a text, and is a file that is there.
LEMMA ContentLines ==
    ASSUME NEW c \in Content
    PROVE  c.lines \in Text /\ c # Absent
BY AbsentAssumption DEF Content

\* A file that is there has content.
LEMMA StoredLines ==
    ASSUME NEW f \in Stored, f # Absent
    PROVE  f \in Content /\ f.lines \in Text
BY ContentLines DEF Stored

\* The kinds of conflict are told apart, and an edit conflict carries what
\* the file says.
LEMMA ConflictKinds ==
    ASSUME NEW p \in Conflicts
    PROVE  /\ NoConflict \in Conflicts /\ Deleted \in Conflicts
           /\ Deleted # NoConflict
           /\ \A c \in Content : Edit(c) \in Conflicts /\ Edit(c) # NoConflict
           /\ p.kind = "edit" => p.theirs \in Content /\ p.theirs.lines \in Text
           /\ p.kind # "none" => p # NoConflict
<1>1. /\ NoConflict.kind = "none" /\ Deleted.kind = "deleted"
      /\ \A c \in Content : Edit(c).kind = "edit" /\ Edit(c).theirs = c
  BY DEF NoConflict, Deleted, Edit
<1>2. NoConflict \in Conflicts /\ Deleted \in Conflicts
  BY DEF Conflicts
<1>3. \A c \in Content : Edit(c) \in Conflicts
  BY DEF Conflicts
<1>4. p = NoConflict \/ p = Deleted \/ \E c \in Content : p = Edit(c)
  BY DEF Conflicts
<1>5. ASSUME p.kind = "edit" PROVE p.theirs \in Content
  BY <1>1, <1>4, <1>5
<1> QED
  BY <1>1, <1>2, <1>3, <1>5, ContentLines

-----------------------------------------------------------------------------
(***************************************************************************)
(* Type correctness.                                                       *)
(***************************************************************************)

\* The variables a pass gives back when it returns keep their types.
LEMMA ReleaseType ==
    ASSUME TypeOK, NEW state, NEW t \in Text, NEW base, Release(state, t, base)
    PROVE  /\ at' \in {"free", "check", "write", "read", "restore"}
           /\ tries' \in 0..2
           /\ fin' \in [Conns -> {"no", "final", "gap", "saving", "dispose"}]
           /\ sweep' \in {"no", "final", "gap", "saving", "close", "over"}
           /\ kept' \subseteq Text
BY DEF Release, Keep, TypeOK, TextTypes, TaskTypes, OtherTypes

\* A clean merge leaves texts and a token behind.
LEMMA AdoptMergeType ==
    ASSUME TypeOK, file # Absent, AdoptMerge
    PROVE  doc' \in Text /\ lastSaved' \in Text /\ checksum' \in Content
BY StoredLines, MergedType
   DEF AdoptMerge, TypeOK, TextTypes, TaskTypes, OtherTypes

\* The conflicts a room raises are conflicts.
LEMMA RaiseType ==
    ASSUME TypeOK
    PROVE  /\ RaiseDeleted => pending' \in Conflicts /\ saveState' = "conflict"
           /\ file # Absent /\ RaiseEdit =>
                pending' \in Conflicts /\ saveState' = "conflict"
BY ConflictKinds, StoredLines
   DEF RaiseDeleted, RaiseEdit, TypeOK, TextTypes, TaskTypes, OtherTypes

\* So do the bounds, whether a step uses one up or not.
LEMMA FaultType ==
    ASSUME TypeOK, Fault
    PROVE  edits' \in Nat /\ outside' \in Nat /\ faults' \in Nat
BY DEF Fault, TypeOK, TextTypes, TaskTypes, OtherTypes

\* A refused save leaves a failed room and gives the mutex back.
LEMMA FailSaveType ==
    ASSUME TypeOK, FailSave
    PROVE  /\ saveState' \in {"ok", "failed", "conflict"}
           /\ at' \in {"free", "check", "write", "read", "restore"}
           /\ tries' \in 0..2
           /\ fin' \in [Conns -> {"no", "final", "gap", "saving", "dispose"}]
           /\ sweep' \in {"no", "final", "gap", "saving", "close", "over"}
           /\ kept' \subseteq Text
<1>1. doc \in Text /\ Release("failed", doc, lastSaved) /\ saveState' = "failed"
  BY DEF FailSave, TypeOK, TextTypes, TaskTypes, OtherTypes
<1> QED
  BY <1>1, ReleaseType

\* The steps of a save pass preserve the types.
LEMMA SaveStepType == TypeOK /\ SaveStep => TypeOK'
<1> SUFFICES ASSUME TypeOK, SaveStep PROVE TypeOK'
  OBVIOUS
<1> USE DEF disk, text, status, life, bounds, tasks, lock
<1>1. CASE CheckOver
  BY <1>1, ReleaseType DEF CheckOver, TypeOK, TextTypes, TaskTypes, OtherTypes
<1>2. CASE CheckClean
  BY <1>2, ReleaseType DEF CheckClean, TypeOK, TextTypes, TaskTypes, OtherTypes
<1>3. CASE CheckChanged
  <2>1. Canon(doc) \in Text
    BY CanonType DEF TypeOK, TextTypes, TaskTypes, OtherTypes
  <2> QED
    <3>1. TextTypes'
      BY <1>3, <2>1 DEF CheckChanged, TypeOK, TextTypes, TaskTypes, OtherTypes
    <3>2. TaskTypes'
      BY <1>3, <2>1 DEF CheckChanged, TypeOK, TextTypes, TaskTypes, OtherTypes
    <3>3. OtherTypes'
      BY <1>3, <2>1 DEF CheckChanged, TypeOK, TextTypes, TaskTypes, OtherTypes
    <3> QED
      BY <3>1, <3>2, <3>3 DEF TypeOK
<1>4. CASE CheckFails
  <2>1. Canon(doc) \in Text
    BY CanonType DEF TypeOK, TextTypes
  <2>2. doc' \in Text
    BY <1>4, <2>1 DEF CheckFails, TypeOK, TextTypes
  <2>3. Release("failed", doc', lastSaved) /\ Fault
    BY <1>4 DEF CheckFails
  <2>4. /\ at' \in {"free", "check", "write", "read", "restore"}
        /\ tries' \in 0..2
        /\ fin' \in [Conns -> {"no", "final", "gap", "saving", "dispose"}]
        /\ sweep' \in {"no", "final", "gap", "saving", "close", "over"}
        /\ kept' \subseteq Text
    BY <2>2, <2>3, ReleaseType
  <2>5. TextTypes'
    BY <1>4, <2>2 DEF CheckFails, TypeOK, TextTypes
  <2>6. TaskTypes'
    BY <1>4, <2>4 DEF CheckFails, TypeOK, TaskTypes
  <2>7. OtherTypes'
    BY <1>4, <2>3, <2>4, FaultType DEF CheckFails, TypeOK, OtherTypes
  <2> QED
    BY <2>5, <2>6, <2>7 DEF TypeOK
<1>5. CASE WriteFails
  BY <1>5, FailSaveType, FaultType
     DEF WriteFails, TypeOK, TextTypes, TaskTypes, OtherTypes
<1>6. CASE WriteMissing
  BY <1>6, ReleaseType, RaiseType
     DEF WriteMissing, TypeOK, TextTypes, TaskTypes, OtherTypes
<1>7. CASE WriteStale
  BY <1>7 DEF WriteStale, TypeOK, TextTypes, TaskTypes, OtherTypes
<1>8. CASE WriteLands
  <2>1. doc \in Text /\ Release("ok", doc, doc)
    BY <1>8 DEF WriteLands, TypeOK, TextTypes
  <2>2. /\ at' \in {"free", "check", "write", "read", "restore"}
        /\ tries' \in 0..2
        /\ fin' \in [Conns -> {"no", "final", "gap", "saving", "dispose"}]
        /\ sweep' \in {"no", "final", "gap", "saving", "close", "over"}
        /\ kept' \subseteq Text
    BY <2>1, ReleaseType
  <2>3. TextTypes'
    BY <1>8, <2>1, LfContentType DEF WriteLands, Stored, TypeOK, TextTypes
  <2>4. TaskTypes'
    BY <1>8, <2>2 DEF WriteLands, TypeOK, TaskTypes
  <2>5. OtherTypes'
    BY <1>8, <2>1, <2>2, LfContentType DEF WriteLands, Stored, TypeOK, TextTypes, OtherTypes
  <2> QED
    BY <2>3, <2>4, <2>5 DEF TypeOK
<1>9. CASE ReadMissing
  BY <1>9, ReleaseType, RaiseType
     DEF ReadMissing, TypeOK, TextTypes, TaskTypes, OtherTypes
<1>10. CASE ReadFails
  BY <1>10, FailSaveType, FaultType
     DEF ReadFails, TypeOK, TextTypes, TaskTypes, OtherTypes
<1>11. CASE ReadCollides
  BY <1>11, ReleaseType, RaiseType
     DEF ReadCollides, Missing, TypeOK, TextTypes, TaskTypes, OtherTypes
<1>12. CASE ReadMerges
  <2>1. doc' \in Text /\ lastSaved' \in Text /\ checksum' \in Content
    BY <1>12, AdoptMergeType DEF ReadMerges, Missing
  <2>2. CASE /\ tries = 1 /\ at' = "check" /\ tries' = 2
             /\ UNCHANGED <<tasks, kept, slips>>
    BY <1>12, <2>1, <2>2
       DEF ReadMerges, TypeOK, TextTypes, TaskTypes, OtherTypes
  <2>3. CASE /\ Release(saveState, doc', lastSaved')
             /\ slips' = IF FinalPass /\ doc' # lastSaved'
                         THEN slips \cup {"outrun"} ELSE slips
             /\ UNCHANGED saver
    <3>1. /\ at' \in {"free", "check", "write", "read", "restore"}
          /\ tries' \in 0..2
          /\ fin' \in [Conns -> {"no", "final", "gap", "saving", "dispose"}]
          /\ sweep' \in {"no", "final", "gap", "saving", "close", "over"}
          /\ kept' \subseteq Text
      BY <2>1, <2>3, ReleaseType
    <3> QED
      BY <1>12, <2>1, <2>3, <3>1
         DEF ReadMerges, TypeOK, TextTypes, TaskTypes, OtherTypes
  <2> QED
    BY <1>12, <2>2, <2>3 DEF ReadMerges
<1> QED
  BY <1>1, <1>2, <1>3, <1>4, <1>5, <1>6, <1>7, <1>8, <1>9, <1>10, <1>11, <1>12
     DEF SaveStep

\* The steps of the saver task preserve the types.
LEMMA SaverStepType == TypeOK /\ SaverStep => TypeOK'
<1> SUFFICES ASSUME TypeOK, SaverStep PROVE TypeOK'
  OBVIOUS
<1> USE DEF disk, text, status, life, bounds, tasks, lock, StartPass
<1>1. CASE SaverDue
  BY <1>1 DEF SaverDue, TypeOK, TextTypes, TaskTypes, OtherTypes
<1>2. CASE SaverDisarms
  <2>1. TextTypes'
    BY <1>2 DEF SaverDisarms, TypeOK, TextTypes, TaskTypes, OtherTypes
  <2>2. TaskTypes'
    BY <1>2 DEF SaverDisarms, TypeOK, TextTypes, TaskTypes, OtherTypes
  <2>3. OtherTypes'
    BY <1>2 DEF SaverDisarms, TypeOK, TextTypes, TaskTypes, OtherTypes
  <2> QED
    BY <2>1, <2>2, <2>3 DEF TypeOK
<1>3. CASE SaverProbes
  <2>1. CASE Missing /\ RaiseDeleted /\ UNCHANGED <<text, flush, lock>>
    <3>1. pending' \in Conflicts /\ saveState' \in {"ok", "failed", "conflict"}
      BY <2>1, RaiseType DEF Missing, TypeOK, TextTypes
    <3>2. TextTypes'
      BY <1>3, <2>1, <3>1 DEF SaverProbes, TypeOK, TextTypes
    <3>3. TaskTypes'
      BY <1>3, <2>1 DEF SaverProbes, TypeOK, TaskTypes
    <3>4. OtherTypes'
      BY <1>3, <2>1 DEF SaverProbes, TypeOK, OtherTypes
    <3> QED
      BY <3>2, <3>3, <3>4 DEF TypeOK
  <2>2. CASE ~Missing /\ RaiseEdit /\ UNCHANGED <<text, flush, lock>>
    <3>1. pending' \in Conflicts /\ saveState' \in {"ok", "failed", "conflict"}
      BY <2>2, RaiseType DEF Missing, TypeOK, TextTypes
    <3>2. TextTypes'
      BY <1>3, <2>2, <3>1 DEF SaverProbes, TypeOK, TextTypes
    <3>3. TaskTypes'
      BY <1>3, <2>2 DEF SaverProbes, TypeOK, TaskTypes
    <3>4. OtherTypes'
      BY <1>3, <2>2 DEF SaverProbes, TypeOK, OtherTypes
    <3> QED
      BY <3>2, <3>3, <3>4 DEF TypeOK
  <2>3. CASE /\ ~Missing /\ AdoptMerge /\ UNCHANGED <<saveState, pending>>
             /\ \/ StartPass /\ UNCHANGED flush
                \/ flush' = TRUE /\ UNCHANGED lock
    <3>1. doc' \in Text /\ lastSaved' \in Text /\ checksum' \in Content
      BY <2>3, AdoptMergeType DEF Missing
    <3> QED
      <4>1. TextTypes'
        BY <1>3, <2>3, <3>1
           DEF SaverProbes, TypeOK, TextTypes, TaskTypes, OtherTypes
      <4>2. TaskTypes'
        BY <1>3, <2>3, <3>1
           DEF SaverProbes, TypeOK, TextTypes, TaskTypes, OtherTypes
      <4>3. OtherTypes'
        BY <1>3, <2>3, <3>1
           DEF SaverProbes, TypeOK, TextTypes, TaskTypes, OtherTypes
      <4> QED
        BY <4>1, <4>2, <4>3 DEF TypeOK
  <2> QED
    BY <1>3, <2>1, <2>2, <2>3 DEF SaverProbes
<1>4. CASE SaverResumes
  BY <1>4 DEF SaverResumes, TypeOK, TextTypes, TaskTypes, OtherTypes
<1> QED
  BY <1>1, <1>2, <1>3, <1>4 DEF SaverStep

\* Their version of an edit conflict is a content with a text.
LEMMA TheirsType ==
    ASSUME TypeOK, pending.kind = "edit"
    PROVE  pending.theirs \in Content /\ pending.theirs.lines \in Text
BY ConflictKinds DEF TypeOK, TextTypes, TaskTypes, OtherTypes

\* What sockets do, and the restore one of them asked for, preserves the types.
LEMMA SocketType ==
    ASSUME NEW c \in Conns
    PROVE  TypeOK /\ Socket(c) => TypeOK'
<1> SUFFICES ASSUME TypeOK, Socket(c) PROVE TypeOK'
  OBVIOUS
<1> USE DEF disk, text, status, life, bounds, tasks, lock
<1>1. CASE Join(c)
  <2>1. TextTypes'
    BY <1>1 DEF Join, TypeOK, TextTypes, TaskTypes, OtherTypes
  <2>2. TaskTypes'
    BY <1>1 DEF Join, TypeOK, TextTypes, TaskTypes, OtherTypes
  <2>3. OtherTypes'
    BY <1>1 DEF Join, TypeOK, TextTypes, TaskTypes, OtherTypes
  <2> QED
    BY <2>1, <2>2, <2>3 DEF TypeOK
<1>2. CASE Answer(c)
  BY <1>2 DEF Answer, TypeOK, TextTypes, TaskTypes, OtherTypes
<1>3. CASE Flush(c)
  BY <1>3 DEF Flush, TypeOK, TextTypes, TaskTypes, OtherTypes
<1>4. CASE ResolveEditMine(c)
  <2>1. pending.theirs \in Content /\ pending.theirs.lines \in Text
    BY <1>4, TheirsType DEF ResolveEditMine, Resolving
  <2>2. slips' \subseteq {"outrun", "overtaken", "late", "mine", "flushonly"}
    BY <1>4 DEF ResolveEditMine, Late, TypeOK, TextTypes, TaskTypes, OtherTypes
  <2> QED
    BY <1>4, <2>1, <2>2, ConflictKinds
       DEF ResolveEditMine, TypeOK, TextTypes, TaskTypes, OtherTypes
<1>5. CASE ResolveEditTheirs(c)
  <2>1. pending.theirs \in Content /\ pending.theirs.lines \in Text
    BY <1>5, TheirsType DEF ResolveEditTheirs, Resolving
  <2>2. slips' \subseteq {"outrun", "overtaken", "late", "mine", "flushonly"}
    BY <1>5
       DEF ResolveEditTheirs, Late, TypeOK, TextTypes, TaskTypes, OtherTypes
  <2> QED
    <3>1. TextTypes'
      BY <1>5, <2>1, <2>2, ConflictKinds
         DEF ResolveEditTheirs, TypeOK, TextTypes, TaskTypes, OtherTypes
    <3>2. TaskTypes'
      BY <1>5, <2>1, <2>2, ConflictKinds
         DEF ResolveEditTheirs, TypeOK, TextTypes, TaskTypes, OtherTypes
    <3>3. OtherTypes'
      BY <1>5, <2>1, <2>2, ConflictKinds
         DEF ResolveEditTheirs, TypeOK, TextTypes, TaskTypes, OtherTypes
    <3> QED
      BY <3>1, <3>2, <3>3 DEF TypeOK
<1>6. CASE ResolveDeletedMine(c)
  <2>1. Canon(doc) \in Text
    BY CanonType DEF TypeOK, TextTypes, TaskTypes, OtherTypes
  <2>2. slips' \subseteq {"outrun", "overtaken", "late", "mine", "flushonly"}
    BY <1>6
       DEF ResolveDeletedMine, Late, TypeOK, TextTypes, TaskTypes, OtherTypes
  <2>3. CASE SomebodyElsesThere
    BY <1>6, <2>2, <2>3, RaiseType
      
          DEF ResolveDeletedMine, SomebodyElsesThere, TypeOK, TextTypes,
              TaskTypes, OtherTypes
  <2>4. CASE ~SomebodyElsesThere
    BY <1>6, <2>1, <2>2, <2>4, ConflictKinds
       DEF ResolveDeletedMine, TypeOK, TextTypes, TaskTypes, OtherTypes
  <2> QED
    BY <2>3, <2>4
<1>7. CASE ResolveDeletedTheirs(c)
  BY <1>7, ConflictKinds
     DEF ResolveDeletedTheirs, TypeOK, TextTypes, TaskTypes, OtherTypes
<1>8. CASE Leave(c)
  BY <1>8 DEF Leave, TypeOK, TextTypes, TaskTypes, OtherTypes
<1> QED
  BY <1>1, <1>2, <1>3, <1>4, <1>5, <1>6, <1>7, <1>8 DEF Socket, Resolve

\* So does the restore a socket asked for.
LEMMA RestoreType == TypeOK /\ Restore => TypeOK'
<1> SUFFICES ASSUME TypeOK, Restore PROVE TypeOK'
  OBVIOUS
<1> USE DEF disk, text, status, life, bounds, tasks, lock
<1>1. CASE RestoreLands
  <2>1. TextTypes'
    BY <1>1, LfContentType
       DEF RestoreLands, Stored, TypeOK, TextTypes, TaskTypes, OtherTypes
  <2>2. TaskTypes'
    BY <1>1, LfContentType
       DEF RestoreLands, Stored, TypeOK, TextTypes, TaskTypes, OtherTypes
  <2>3. OtherTypes'
    BY <1>1, LfContentType
       DEF RestoreLands, Stored, TypeOK, TextTypes, TaskTypes, OtherTypes
  <2> QED
    BY <2>1, <2>2, <2>3 DEF TypeOK
<1>2. CASE RestoreFails
  BY <1>2, ConflictKinds, FaultType
     DEF RestoreFails, TypeOK, TextTypes, TaskTypes, OtherTypes
<1> QED
  BY <1>1, <1>2 DEF Restore

\* The two halves of a last save leave types as they are.
LEMMA LastSaveType ==
    ASSUME TypeOK, NEW next, LastSave(next) \/ LastSaveResumes(next)
    PROVE  /\ finalSaved' \in BOOLEAN /\ kept' \subseteq Text
           /\ at' \in {"free", "check", "write", "read", "restore"}
           /\ tries' \in 0..2
<1>1. CASE LastSave(next)
  <2>1. finalSaved' \in BOOLEAN
    BY <1>1 DEF LastSave, TypeOK, TextTypes
  <2>2. kept' \subseteq Text
    BY <1>1 DEF LastSave, Keep, TypeOK, TextTypes, OtherTypes
  <2>3. /\ at' \in {"free", "check", "write", "read", "restore"}
        /\ tries' \in 0..2
    BY <1>1 DEF LastSave, StartPass, lock, TypeOK, TaskTypes
  <2> QED
    BY <2>1, <2>2, <2>3
<1>2. CASE LastSaveResumes(next)
  BY <1>2
     DEF LastSaveResumes, Keep, StartPass, lock, TypeOK, TextTypes, TaskTypes,
         OtherTypes
<1> QED
  BY <1>1, <1>2

\* The end of a room preserves the types.
LEMMA EndType ==
    TypeOK /\ ((\E c \in Conns : Finish(c)) \/ SweepStarts \/ SweepStep
                 \/ Poison \/ Replace) => TypeOK'
<1> SUFFICES ASSUME TypeOK,
                    \/ \E c \in Conns : Finish(c)
                    \/ SweepStarts \/ SweepStep \/ Poison \/ Replace
             PROVE  TypeOK'
  OBVIOUS
<1> USE DEF disk, text, status, life, bounds, tasks, lock
<1>1. ASSUME NEW c \in Conns, FinishSaves(c) PROVE TypeOK'
  <2>1. PICK next \in {"over", "gap", "saving"} :
          /\ LastSave(next) \/ LastSaveResumes(next)
          /\ fin' = [fin EXCEPT ![c] = IF next = "over" THEN "dispose" ELSE next]
    BY <1>1 DEF FinishSaves
  <2>2. fin' \in [Conns -> {"no", "final", "gap", "saving", "dispose"}]
    BY <2>1 DEF TypeOK, TextTypes, TaskTypes, OtherTypes
  <2>3. /\ finalSaved' \in BOOLEAN /\ kept' \subseteq Text
        /\ at' \in {"free", "check", "write", "read", "restore"}
        /\ tries' \in 0..2
    BY <2>1, LastSaveType
  <2> QED
    BY <1>1, <2>2, <2>3
       DEF FinishSaves, TypeOK, TextTypes, TaskTypes, OtherTypes
<1>2. ASSUME NEW c \in Conns, DisposeIfEmpty(c) PROVE TypeOK'
  <2>1. TextTypes'
    BY <1>2 DEF DisposeIfEmpty, TypeOK, TextTypes, TaskTypes, OtherTypes
  <2>2. TaskTypes'
    BY <1>2 DEF DisposeIfEmpty, TypeOK, TextTypes, TaskTypes, OtherTypes
  <2>3. OtherTypes'
    BY <1>2 DEF DisposeIfEmpty, TypeOK, TextTypes, TaskTypes, OtherTypes
  <2> QED
    BY <2>1, <2>2, <2>3 DEF TypeOK
<1>3. CASE SweepStarts
  <2>1. TextTypes'
    BY <1>3 DEF SweepStarts, TypeOK, TextTypes, TaskTypes, OtherTypes
  <2>2. TaskTypes'
    BY <1>3 DEF SweepStarts, TypeOK, TextTypes, TaskTypes, OtherTypes
  <2>3. OtherTypes'
    BY <1>3 DEF SweepStarts, TypeOK, TextTypes, TaskTypes, OtherTypes
  <2> QED
    BY <2>1, <2>2, <2>3 DEF TypeOK
<1>4. CASE SweepSaves
  <2>1. PICK next \in {"over", "gap", "saving"} :
          /\ LastSave(next) \/ LastSaveResumes(next)
          /\ sweep' = IF next = "over" THEN "close" ELSE next
    BY <1>4 DEF SweepSaves
  <2>2. sweep' \in {"no", "final", "gap", "saving", "close", "over"}
    BY <2>1
  <2>3. /\ finalSaved' \in BOOLEAN /\ kept' \subseteq Text
        /\ at' \in {"free", "check", "write", "read", "restore"}
        /\ tries' \in 0..2
    BY <2>1, LastSaveType
  <2> QED
    BY <1>4, <2>2, <2>3 DEF SweepSaves, TypeOK, TextTypes, TaskTypes, OtherTypes
<1>5. CASE SweepCloses
  BY <1>5 DEF SweepCloses, TypeOK, TextTypes, TaskTypes, OtherTypes
<1>6. CASE Poison
  BY <1>6 DEF Poison, TypeOK, TextTypes, TaskTypes, OtherTypes
<1>7. CASE Replace
  <2>1. TextTypes'
    BY <1>7 DEF Replace, TypeOK, TextTypes, TaskTypes, OtherTypes
  <2>2. TaskTypes'
    BY <1>7 DEF Replace, TypeOK, TextTypes, TaskTypes, OtherTypes
  <2>3. OtherTypes'
    BY <1>7 DEF Replace, TypeOK, TextTypes, TaskTypes, OtherTypes
  <2> QED
    BY <2>1, <2>2, <2>3 DEF TypeOK
<1> QED
  BY <1>1, <1>2, <1>3, <1>4, <1>5, <1>6, <1>7 DEF Finish, SweepStep

\* What happens around the room preserves the types: typing, an agent's edit,
\* the absorption of an engine write, the file and the index.
LEMMA AroundType ==
    ASSUME TypeOK,
           \/ \E c \in Conns, l \in Lines, v \in Values : Type(c, l, v)
           \/ \E l \in Lines, v \in Values : AgentComposes(l, v)
           \/ AgentReads \/ AgentRefused \/ Absorb
           \/ \E f \in Stored : OutsideChange(f)
           \/ IndexSync
    PROVE  TypeOK'
<1> USE DEF disk, text, status, life, bounds, tasks, lock
<1>1. ASSUME NEW c \in Conns, NEW l \in Lines, NEW v \in Values, Type(c, l, v)
      PROVE TypeOK'
  <2>1. doc' \in Text
    BY <1>1, EditType DEF Type, TypeOK, TextTypes, TaskTypes, OtherTypes
  <2>2. edits' \in Nat
    BY <1>1 DEF Type, TypeOK, TextTypes, TaskTypes, OtherTypes
  <2>3. slips' \subseteq {"outrun", "overtaken", "late", "mine", "flushonly"}
    BY <1>1 DEF Type, Late, TypeOK, TextTypes, TaskTypes, OtherTypes
  <2> QED
    BY <1>1, <2>1, <2>2, <2>3 DEF Type, TypeOK, TextTypes, TaskTypes, OtherTypes
<1>2. ASSUME NEW l \in Lines, NEW v \in Values, AgentComposes(l, v)
      PROVE TypeOK'
  <2>1. agent \in Text
    BY <1>2 DEF AgentComposes, TypeOK, OtherTypes
  <2>2. Canon([agent EXCEPT ![l] = v]) \in Text
    <3>1. [agent EXCEPT ![l] = v] \in Text
      BY <2>1, EditType
    <3> QED
      BY <3>1, CanonType
  <2>3. doc' \in Text
    BY <1>2, <2>2 DEF AgentComposes
  <2>4. edits' \in Nat
    BY <1>2 DEF AgentComposes, TypeOK, OtherTypes
  <2>5. TextTypes'
    BY <1>2, <2>3 DEF AgentComposes, TypeOK, TextTypes
  <2>6. TaskTypes'
    BY <1>2 DEF AgentComposes, TypeOK, TaskTypes
  <2>7. OtherTypes'
    BY <1>2, <2>4 DEF AgentComposes, TypeOK, OtherTypes
  <2> QED
    BY <2>5, <2>6, <2>7 DEF TypeOK
<1>3. CASE AgentReads
  BY <1>3 DEF AgentReads, TypeOK, TextTypes, TaskTypes, OtherTypes
<1>4. CASE AgentRefused
  BY <1>4 DEF AgentRefused, TypeOK, TextTypes, TaskTypes, OtherTypes
<1>5. CASE Absorb
  <2>1. CASE Collision
    BY <1>5, <2>1, RaiseType
       DEF Absorb, Missing, TypeOK, TextTypes, TaskTypes, OtherTypes
  <2>2. CASE ~Collision
    <3>1. doc' \in Text /\ lastSaved' \in Text /\ checksum' \in Content
      BY <1>5, <2>2, AdoptMergeType DEF Absorb, Missing
    <3> QED
      BY <1>5, <2>2, <3>1 DEF Absorb, TypeOK, TextTypes, TaskTypes, OtherTypes
  <2> QED
    BY <2>1, <2>2
<1>6. ASSUME NEW f \in Stored, OutsideChange(f) PROVE TypeOK'
  BY <1>6 DEF OutsideChange, TypeOK, TextTypes, TaskTypes, OtherTypes
<1>7. CASE IndexSync
  BY <1>7 DEF IndexSync, TypeOK, TextTypes, TaskTypes, OtherTypes
<1> QED
  BY <1>1, <1>2, <1>3, <1>4, <1>5, <1>6, <1>7

\* Every variable keeps its type.
THEOREM TypeCorrect == Spec => []TypeOK
<1>1. Init => TypeOK
  <2> SUFFICES ASSUME Init PROVE TypeOK
    OBVIOUS
  <2>1. file \in Content /\ file.lines \in Text
    BY ContentLines DEF Init
  <2> QED
    <3>1. TextTypes
      BY <2>1 DEF Init, TextTypes, Stored, Conflicts
    <3>2. TaskTypes
      <4>1. conns \subseteq Conns
        BY DEF Init
      <4>2. fin \in [Conns -> {"no", "final", "gap", "saving", "dispose"}]
        BY DEF Init
      <4>3. at = "free" /\ tries = 0 /\ disposed = FALSE /\ registered = TRUE
        BY DEF Init
      <4>4. saver = "idle" /\ sweep = "no"
        BY DEF Init
      <4>5. disposed \in BOOLEAN /\ registered \in BOOLEAN
        BY <4>3
      <4>6. /\ at \in {"free", "check", "write", "read", "restore"}
            /\ tries \in 0..2
        BY <4>3
      <4>7. /\ saver \in {"idle", "gap"}
            /\ sweep \in {"no", "final", "gap", "saving", "close", "over"}
        BY <4>4
      <4> QED
        BY <4>1, <4>2, <4>5, <4>6, <4>7 DEF TaskTypes
    <3>3. OtherTypes
      BY DEF Init, OtherTypes
    <3> QED
      BY <3>1, <3>2, <3>3 DEF TypeOK
<1>2. TypeOK /\ [Next]_vars => TypeOK'
  <2> SUFFICES ASSUME TypeOK, [Next]_vars PROVE TypeOK'
    OBVIOUS
  <2>1. CASE Next
    BY <2>1, SaveStepType, SaverStepType, RestoreType, SocketType, EndType,
       AroundType DEF Next
  <2>2. CASE UNCHANGED vars
    BY <2>2
       DEF vars, disk, text, status, life, bounds, tasks, lock, TypeOK, TextTypes,
           TaskTypes, OtherTypes
  <2> QED
    BY <2>1, <2>2
<1> QED
  BY <1>1, <1>2, PTL DEF Spec

-----------------------------------------------------------------------------
(***************************************************************************)
(* The inductive invariant: a save or a restore holds the mutex only while *)
(* no conflict is up for resolution, a restore only of a room in conflict, *)
(* and the token stands for the base.                                      *)
(***************************************************************************)
RestoreInConflict == at = "restore" => saveState = "conflict"

Held == TokenMatchesBase /\ ConflictIsResolvable /\ RestoreInConflict

RoomInv == TypeOK /\ Held

\* The save pass preserves the invariant.
LEMMA SaveStepInv ==
    RoomInv /\ SaveStep => Held'
<1> SUFFICES ASSUME RoomInv, SaveStep
             PROVE  Held'
  OBVIOUS
<1> USE DEF disk, text, status, lock, RoomInv, Held,
            TokenMatchesBase, ConflictIsResolvable, RestoreInConflict
<1>1. CASE CheckOver
  BY <1>1 DEF CheckOver, Release
<1>2. CASE CheckClean
  BY <1>2 DEF CheckClean, Release
<1>3. CASE CheckChanged
  BY <1>3 DEF CheckChanged
<1>4. CASE CheckFails
  BY <1>4 DEF CheckFails, FailSave, Release
<1>5. CASE WriteFails
  BY <1>5 DEF WriteFails, FailSave, Release
<1>6. CASE WriteMissing
  BY <1>6, ConflictKinds
     DEF WriteMissing, RaiseDeleted, Release, TypeOK, TextTypes
<1>7. CASE WriteStale
  BY <1>7 DEF WriteStale
<1>8. CASE WriteLands
  BY <1>8, LfContentType DEF WriteLands, Release, TypeOK, TextTypes
<1>9. CASE ReadMissing
  BY <1>9, ConflictKinds
     DEF ReadMissing, RaiseDeleted, Release, TypeOK, TextTypes
<1>10. CASE ReadFails
  BY <1>10 DEF ReadFails, FailSave, Release
<1>11. CASE ReadCollides
  <2>1. file \in Content
    BY <1>11, StoredLines DEF ReadCollides, Missing, TypeOK, TextTypes
  <2> QED
    BY <1>11, <2>1, ConflictKinds
       DEF ReadCollides, RaiseEdit, Release, TypeOK, TextTypes
<1>12. CASE ReadMerges
  BY <1>12 DEF ReadMerges, AdoptMerge, Release
<1> QED
  BY <1>1, <1>2, <1>3, <1>4, <1>5, <1>6, <1>7, <1>8, <1>9, <1>10, <1>11, <1>12
     DEF SaveStep

\* So does the saver task: it begins a pass only of a room not in conflict.
LEMMA SaverStepInv ==
    RoomInv /\ SaverStep => Held'
<1> SUFFICES ASSUME RoomInv, SaverStep
             PROVE  Held'
  OBVIOUS
<1> USE DEF disk, text, status, lock, StartPass, Ticks, Free, RoomInv, Held,
            TokenMatchesBase, ConflictIsResolvable, RestoreInConflict
<1>1. CASE SaverDue
  BY <1>1 DEF SaverDue
<1>2. CASE SaverDisarms
  BY <1>2 DEF SaverDisarms
<1>3. CASE SaverProbes
  <2>1. CASE RaiseDeleted /\ UNCHANGED <<text, flush, lock>>
    BY <1>3, <2>1, ConflictKinds
       DEF SaverProbes, RaiseDeleted, TypeOK, TextTypes
  <2>2. CASE ~Missing /\ RaiseEdit /\ UNCHANGED <<text, flush, lock>>
    <3>1. file \in Content
      BY <2>2, StoredLines DEF Missing, TypeOK, TextTypes
    <3> QED
      BY <1>3, <2>2, <3>1, ConflictKinds
         DEF SaverProbes, RaiseEdit, TypeOK, TextTypes
  <2>3. CASE /\ AdoptMerge /\ UNCHANGED <<saveState, pending>>
             /\ \/ StartPass /\ UNCHANGED flush
                \/ flush' = TRUE /\ UNCHANGED lock
    BY <1>3, <2>3 DEF SaverProbes, AdoptMerge
  <2> QED
    BY <1>3, <2>1, <2>2, <2>3 DEF SaverProbes
<1>4. CASE SaverResumes
  BY <1>4 DEF SaverResumes
<1> QED
  BY <1>1, <1>2, <1>3, <1>4 DEF SaverStep

\* So do the sockets: a resolve takes the conflict and settles it, or puts
\* one back.
LEMMA SocketInv ==
    ASSUME NEW c \in Conns
    PROVE  RoomInv /\ Socket(c) =>
             Held'
<1> SUFFICES ASSUME RoomInv, Socket(c)
             PROVE  Held'
  OBVIOUS
<1> USE DEF disk, text, status, lock, Free, Resolving, RoomInv, Held,
            TokenMatchesBase, ConflictIsResolvable, RestoreInConflict
<1>1. CASE Join(c)
  BY <1>1 DEF Join
<1>2. CASE Answer(c)
  BY <1>2 DEF Answer
<1>3. CASE Flush(c)
  BY <1>3 DEF Flush
<1>4. CASE ResolveEditMine(c)
  BY <1>4 DEF ResolveEditMine
<1>5. CASE ResolveEditTheirs(c)
  BY <1>5 DEF ResolveEditTheirs
<1>6. CASE ResolveDeletedMine(c)
  <2>1. CASE SomebodyElsesThere
    <3>1. file \in Content
      BY <2>1, StoredLines DEF SomebodyElsesThere, TypeOK, TextTypes
    <3> QED
      BY <1>6, <2>1, <3>1, ConflictKinds
         DEF ResolveDeletedMine, RaiseEdit, TypeOK, TextTypes
  <2>2. CASE ~SomebodyElsesThere
    BY <1>6, <2>2 DEF ResolveDeletedMine
  <2> QED
    BY <2>1, <2>2
<1>7. CASE ResolveDeletedTheirs(c)
  BY <1>7 DEF ResolveDeletedTheirs
<1>8. CASE Leave(c)
  BY <1>8 DEF Leave
<1> QED
  BY <1>1, <1>2, <1>3, <1>4, <1>5, <1>6, <1>7, <1>8 DEF Socket, Resolve

\* So do the restore, the end of the room and what happens around it.
LEMMA OtherInv ==
    ASSUME RoomInv,
           \/ Restore
           \/ \E c \in Conns : Finish(c)
           \/ SweepStarts \/ SweepStep \/ Poison \/ Replace
           \/ \E c \in Conns, l \in Lines, v \in Values : Type(c, l, v)
           \/ \E l \in Lines, v \in Values : AgentComposes(l, v)
           \/ AgentReads \/ AgentRefused \/ Absorb
           \/ \E f \in Stored : OutsideChange(f)
           \/ IndexSync
    PROVE  Held'
<1> USE DEF disk, text, status, lock, Free, RoomInv, Held,
            TokenMatchesBase, ConflictIsResolvable, RestoreInConflict
<1>1. CASE RestoreLands
  BY <1>1, LfContentType DEF RestoreLands, TypeOK, TextTypes
<1>2. CASE RestoreFails
  BY <1>2, ConflictKinds DEF RestoreFails, TypeOK, TextTypes
<1>3. ASSUME NEW next, LastSave(next) \/ LastSaveResumes(next),
             UNCHANGED <<text, status>>
      PROVE  Held'
  <2>1. CASE LastSave(next)
    BY <1>3, <2>1 DEF LastSave, StartPass
  <2>2. CASE LastSaveResumes(next)
    BY <1>3, <2>2 DEF LastSaveResumes, StartPass
  <2> QED
    BY <1>3, <2>1, <2>2
<1>4. ASSUME NEW c \in Conns, FinishSaves(c)
      PROVE  Held'
  BY <1>3, <1>4 DEF FinishSaves
<1>5. CASE SweepSaves
  BY <1>3, <1>5 DEF SweepSaves
<1>6. CASE UNCHANGED <<text, status, lock>>
  BY <1>6
<1>7. ASSUME NEW c \in Conns, DisposeIfEmpty(c)
      PROVE  UNCHANGED <<text, status, lock>>
  BY <1>7 DEF DisposeIfEmpty
<1>8. SweepStarts \/ SweepCloses \/ Replace => UNCHANGED <<text, status, lock>>
  BY DEF SweepStarts, SweepCloses, Replace
<1>9. CASE Poison
  BY <1>9 DEF Poison
<1>10. ASSUME NEW c \in Conns, NEW l \in Lines, NEW v \in Values, Type(c, l, v)
       PROVE  Held'
  BY <1>10 DEF Type
<1>11. ASSUME NEW l \in Lines, NEW v \in Values, AgentComposes(l, v)
       PROVE  Held'
  BY <1>11 DEF AgentComposes
<1>12. AgentReads \/ AgentRefused \/ IndexSync
         => UNCHANGED <<text, status, lock>>
  BY DEF AgentReads, AgentRefused, IndexSync
<1>13. CASE Absorb
  <2>1. file \in Content
    BY <1>13, StoredLines DEF Absorb, Missing, TypeOK, TextTypes
  <2>2. CASE Collision
    BY <1>13, <2>1, <2>2, ConflictKinds
       DEF Absorb, RaiseEdit, TypeOK, TextTypes
  <2>3. CASE ~Collision
    BY <1>13, <2>3 DEF Absorb, AdoptMerge
  <2> QED
    BY <2>2, <2>3
<1>14. ASSUME NEW f \in Stored, OutsideChange(f)
       PROVE  UNCHANGED <<text, status, lock>>
  BY <1>14 DEF OutsideChange
<1> QED
  BY <1>1, <1>2, <1>4, <1>5, <1>6, <1>7, <1>8, <1>9, <1>10, <1>11, <1>12,
     <1>13, <1>14
     DEF Restore, Finish, SweepStep

\* The invariant is inductive.
THEOREM RoomInvariant == Spec => []RoomInv
<1>1. Init => Held
  BY DEF Init, Held, TokenMatchesBase, ConflictIsResolvable, RestoreInConflict
<1>2. RoomInv /\ [Next]_vars
        => Held'
  <2> SUFFICES ASSUME RoomInv, [Next]_vars
               PROVE  Held'
    OBVIOUS
  <2>1. CASE Next
    BY <2>1, SaveStepInv, SaverStepInv, SocketInv, OtherInv DEF Next
  <2>2. CASE UNCHANGED vars
    BY <2>2 DEF vars, text, status, lock, RoomInv, Held, TokenMatchesBase,
                ConflictIsResolvable, RestoreInConflict
  <2> QED
    BY <2>1, <2>2
<1>3. Spec => []TypeOK
  BY TypeCorrect
<1>4. RoomInv <=> TypeOK /\ Held
  BY DEF RoomInv
<1> QED
  BY <1>1, <1>2, <1>3, <1>4, PTL DEF Spec

\* The compare-and-swap token of the room is always the checksum of a file
\* that says what the next merge is based on.
THEOREM TokenTheorem == Spec => []TokenMatchesBase
<1>1. RoomInv => TokenMatchesBase
  BY DEF RoomInv, Held
<1> QED
  BY <1>1, RoomInvariant, PTL

\* A room in conflict always has the conflict to resolve, or is closed, or is
\* restoring.
THEOREM ConflictTheorem == Spec => []ConflictIsResolvable
<1>1. RoomInv => ConflictIsResolvable
  BY DEF RoomInv, Held
<1> QED
  BY <1>1, RoomInvariant, PTL

\* No save overwrites a file that says something the room has not seen.
THEOREM OverwriteTheorem == Spec => SaveOverwritesOnlySeen
<1> DEFINE Seen == at = "write" /\ file' # file /\ outside' = outside =>
                     file # Absent /\ file.lines = lastSaved
<1>1. RoomInv /\ [Next]_vars => [Seen]_vars
  <2> SUFFICES ASSUME RoomInv, Next, at = "write", file' # file,
                      outside' = outside
               PROVE  file # Absent /\ file.lines = lastSaved
    OBVIOUS
  <2>1. CASE WriteLands
    BY <2>1 DEF WriteLands, Missing, Stale, RoomInv, Held, TokenMatchesBase
  <2>2. CASE SaveStep /\ ~WriteLands
    BY <2>2 DEF SaveStep, CheckOver, CheckClean, CheckChanged, CheckFails,
                WriteFails, WriteMissing, WriteStale, ReadMissing, ReadFails,
                ReadCollides, ReadMerges, disk
  <2>3. ~SaverStep
    BY DEF SaverStep, SaverDue, SaverDisarms, SaverProbes, SaverResumes, Ticks,
           Free
  <2>4. ~Restore
    BY DEF Restore, RestoreLands, RestoreFails
  <2>5. \A c \in Conns : ~Socket(c)
    BY DEF Socket, Join, Answer, Flush, Leave, Resolve, ResolveEditMine,
           ResolveEditTheirs, ResolveDeletedMine, ResolveDeletedTheirs,
           Resolving, Free
  <2>6. \A c \in Conns : ~Finish(c)
    BY DEF Finish, FinishSaves, DisposeIfEmpty, disk
  <2>7. ~(SweepStarts \/ SweepStep \/ Poison \/ Replace)
    BY DEF SweepStarts, SweepStep, SweepSaves, SweepCloses, Poison, Replace,
           disk
  <2>8. \A c \in Conns, l \in Lines, v \in Values : ~Type(c, l, v)
    BY DEF Type, Free
  <2>9. ~(AgentReads \/ AgentRefused \/ Absorb \/ IndexSync)
    BY DEF AgentReads, AgentRefused, Absorb, IndexSync, Free, disk
  <2>10. \A l \in Lines, v \in Values : ~AgentComposes(l, v)
    BY DEF AgentComposes, Free
  <2>11. ASSUME NEW f \in Stored, OutsideChange(f) PROVE FALSE
    <3>1. outside \in Nat /\ outside' = outside + 1
      BY <2>11 DEF OutsideChange, RoomInv, TypeOK, OtherTypes
    <3> QED
      BY <3>1
  <2> QED
    BY <2>1, <2>2, <2>3, <2>4, <2>5, <2>6, <2>7, <2>8, <2>9, <2>10, <2>11
       DEF Next
<1> QED
  BY <1>1, RoomInvariant, PTL DEF Spec, SaveOverwritesOnlySeen

-----------------------------------------------------------------------------
(***************************************************************************)
(* An unedited room saves nothing.  The invariant: outside a conflict, the *)
(* text differs from the text last saved only by an edit or a "mine", and  *)
(* only such a difference takes a pass beyond its first check.             *)
(***************************************************************************)
Considered == edits > 0 \/ "mine" \in slips

UneditedInv ==
    /\ at \in {"write", "read"} => Considered
    /\ saveState # "conflict" /\ Changed => Considered

\* A clean merge into a text nobody changed is the other side's text.
LEMMA MergeUnchanged ==
    ASSUME NEW base \in Text, NEW theirs \in Text
    PROVE  Merged(base, base, theirs) = theirs
BY DEF Merged, Text

\* Only a save that lands forgets what was considered.
LEMMA ConsideredStands ==
    ASSUME TypeOK, Next, ~WriteLands, Considered
    PROVE  Considered'
<1>1. edits \in Nat /\ outside \in Nat
  BY DEF TypeOK, OtherTypes
<1>2. edits' = edits \/ edits' = edits + 1
  BY DEF Next, SaveStep, CheckOver, CheckClean, CheckChanged, CheckFails,
     WriteFails, WriteMissing, WriteStale, ReadMissing, ReadFails,
     ReadCollides, ReadMerges, SaverStep, SaverDue, SaverDisarms, SaverProbes,
     SaverResumes, Restore, RestoreLands, RestoreFails, Socket, Join, Answer,
     Flush, Leave, Resolve, ResolveEditMine, ResolveEditTheirs,
     ResolveDeletedMine, ResolveDeletedTheirs, Finish, FinishSaves,
     DisposeIfEmpty, SweepStarts, SweepStep, SweepSaves, SweepCloses, Poison,
     Replace, Type, AgentReads, AgentRefused, AgentComposes, Absorb,
     OutsideChange, IndexSync, Fault, bounds
<1>3. slips \subseteq slips'
  BY DEF Next, SaveStep, CheckOver, CheckClean, CheckChanged, CheckFails,
     WriteFails, WriteMissing, WriteStale, ReadMissing, ReadFails,
     ReadCollides, ReadMerges, SaverStep, SaverDue, SaverDisarms, SaverProbes,
     SaverResumes, Restore, RestoreLands, RestoreFails, Socket, Join, Answer,
     Flush, Leave, Resolve, ResolveEditMine, ResolveEditTheirs,
     ResolveDeletedMine, ResolveDeletedTheirs, Finish, FinishSaves,
     DisposeIfEmpty, SweepStarts, SweepStep, SweepSaves, SweepCloses, Poison,
     Replace, Type, AgentReads, AgentRefused, AgentComposes, Absorb,
     OutsideChange, IndexSync
<1> QED
  BY <1>1, <1>2, <1>3 DEF Considered

\* The invariant is preserved: what is new in a step is a text that differs,
\* or a pass that goes on.
LEMMA UneditedStep ==
    ASSUME RoomInv, UneditedInv, Next
    PROVE  UneditedInv'
<1> USE DEF text, status, lock, Changed, StartPass, Free
<1> TypeOK /\ ConflictIsResolvable /\ RestoreInConflict
  BY DEF RoomInv, Held
<1>1. CASE WriteLands
  BY <1>1 DEF WriteLands, Release, UneditedInv
<1>2. ASSUME ~WriteLands PROVE Considered => UneditedInv'
  BY <1>2, ConsideredStands DEF UneditedInv
<1>3. ASSUME ~Considered, ~WriteLands,
             /\ at' \in {"write", "read"} => at \in {"write", "read"}
             /\ saveState' # "conflict" /\ Changed' => saveState # "conflict" /\ Changed
      PROVE  UneditedInv'
  BY <1>3 DEF UneditedInv
<1>4. CASE ~Considered /\ SaveStep /\ ~WriteLands
  <2>1. at \notin {"write", "read"}
    BY <1>4 DEF UneditedInv
  <2>2. ~closed => saveState # "conflict" \/ at # "check"
    BY DEF ConflictIsResolvable
  <2>3. CASE CheckOver
    BY <1>3, <1>4, <2>3 DEF CheckOver, Release
  <2>4. CASE CheckClean
    BY <1>3, <1>4, <2>4 DEF CheckClean, Release
  <2>5. CASE CheckChanged \/ CheckFails
    BY <1>4, <2>2, <2>5 DEF CheckChanged, CheckFails, UneditedInv
  <2> QED
    BY <1>4, <2>1, <2>3, <2>4, <2>5
       DEF SaveStep, WriteFails, WriteMissing, WriteStale, ReadMissing,
           ReadFails, ReadCollides, ReadMerges
<1>5. ASSUME ~Considered, AdoptMerge, file # Absent, saveState = "ok",
             at' \notin {"write", "read"}
      PROVE  UneditedInv'
  <2>1. doc = lastSaved /\ doc \in Text /\ file.lines \in Text
    BY <1>5, StoredLines DEF UneditedInv, TypeOK, TextTypes
  <2>2. doc' = lastSaved'
    BY <1>5, <2>1, MergeUnchanged DEF AdoptMerge
  <2> QED
    BY <1>5, <2>2 DEF UneditedInv
<1>6. CASE ~Considered /\ SaverStep
  <2>1. at = "free" /\ ~WriteLands
    BY <1>6 DEF SaverStep, SaverDue, SaverDisarms, SaverProbes, SaverResumes,
                Ticks, WriteLands
  <2>2. CASE SaverDue \/ SaverDisarms \/ SaverResumes
    BY <1>3, <1>6, <2>1, <2>2 DEF SaverDue, SaverDisarms, SaverResumes
  <2>3. CASE SaverProbes
    <3>1. CASE saveState' = "conflict" /\ UNCHANGED lock
      BY <1>6, <2>1, <3>1 DEF UneditedInv
    <3>2. CASE ~Missing /\ AdoptMerge
      BY <1>5, <1>6, <2>1, <2>3, <3>2 DEF SaverProbes, Missing
    <3> QED
      BY <2>3, <3>1, <3>2 DEF SaverProbes, RaiseDeleted, RaiseEdit
  <2> QED
    BY <1>6, <2>2, <2>3 DEF SaverStep
<1>7. CASE ~Considered /\ Restore
  BY <1>7 DEF Restore, RestoreLands, RestoreFails, UneditedInv, RestoreInConflict
<1>8. ASSUME ~Considered, NEW c \in Conns, Socket(c) PROVE UneditedInv'
  <2>1. at = "free" /\ ~WriteLands
    BY <1>8 DEF Socket, Join, Answer, Flush, Leave, Resolve, ResolveEditMine,
                ResolveEditTheirs, ResolveDeletedMine, ResolveDeletedTheirs,
                Resolving, WriteLands
  <2>2. CASE Join(c) \/ Answer(c) \/ Flush(c) \/ Leave(c) \/ ResolveDeletedTheirs(c)
    BY <1>3, <1>8, <2>1, <2>2 DEF Join, Answer, Flush, Leave, ResolveDeletedTheirs
  <2>3. CASE ResolveEditMine(c)
    <3>1. "mine" \in slips'
      BY <2>3 DEF ResolveEditMine
    <3> QED
      BY <3>1 DEF UneditedInv, Considered
  <2>4. CASE ResolveEditTheirs(c)
    BY <2>1, <2>4 DEF ResolveEditTheirs, UneditedInv
  <2>5. CASE ResolveDeletedMine(c)
    BY <2>1, <2>5 DEF ResolveDeletedMine, Resolving, RaiseEdit, UneditedInv
  <2> QED
    BY <1>8, <2>2, <2>3, <2>4, <2>5 DEF Socket, Resolve
<1>9. CASE \/ \E c \in Conns : Finish(c)
           \/ SweepStarts \/ SweepStep \/ Poison \/ Replace
  <2>1. UNCHANGED <<text, status>>
    BY <1>9 DEF Finish, FinishSaves, DisposeIfEmpty, SweepStarts, SweepStep,
                SweepSaves, SweepCloses, Poison, Replace
  <2>2. at' = at \/ at' = "check" \/ at' = "free"
    BY <1>9 DEF Finish, FinishSaves, DisposeIfEmpty, SweepStarts, SweepStep,
                SweepSaves, SweepCloses, Poison, Replace, LastSave,
                LastSaveResumes
  <2>3. WriteLands \/ ~WriteLands
    OBVIOUS
  <2> QED
    BY <1>1, <1>2, <1>3, <2>1, <2>2, <2>3
<1>10. CASE \/ \E c \in Conns, l \in Lines, v \in Values : Type(c, l, v)
            \/ \E l \in Lines, v \in Values : AgentComposes(l, v)
  <2>1. edits \in Nat /\ edits' = edits + 1
    BY <1>10 DEF Type, AgentComposes, TypeOK, OtherTypes
  <2> QED
    BY <2>1 DEF UneditedInv, Considered
<1>11. CASE ~Considered /\ Absorb
  <2>1. CASE Collision
    BY <1>11, <2>1 DEF Absorb, RaiseEdit, UneditedInv
  <2>2. CASE ~Collision
    BY <1>5, <1>11, <2>2 DEF Absorb, Missing, Saving
  <2> QED
    BY <2>1, <2>2
<1>12. CASE \/ AgentReads \/ AgentRefused \/ IndexSync
            \/ \E f \in Stored : OutsideChange(f)
  <2>1. UNCHANGED <<text, status, lock>>
    BY <1>12 DEF AgentReads, AgentRefused, IndexSync, OutsideChange
  <2> QED
    BY <1>1, <1>2, <1>3, <2>1
<1> QED
  BY <1>1, <1>2, <1>4, <1>6, <1>7, <1>8, <1>9, <1>10, <1>11, <1>12 DEF Next

\* A room nobody edited, and nobody held on to against somebody else's text,
\* never begins to write its file.
THEOREM UneditedTheorem == Spec => []UneditedNeverSaves
<1>1. Init => UneditedInv
  BY DEF Init, UneditedInv, Changed
<1>2. RoomInv /\ UneditedInv /\ [Next]_vars => UneditedInv'
  <2>1. ASSUME UneditedInv, UNCHANGED vars PROVE UneditedInv'
    BY <2>1 DEF UneditedInv, Considered, Changed, vars, text, status, lock,
                bounds
  <2> QED
    BY <2>1, UneditedStep
<1>3. UneditedInv => UneditedNeverSaves
  BY DEF UneditedInv, UneditedNeverSaves, Considered
<1> QED
  BY <1>1, <1>2, <1>3, RoomInvariant, PTL DEF Spec
-----------------------------------------------------------------------------
(***************************************************************************)
(* What the room writes is an engram.  A pass respells the text before it  *)
(* writes, a restore before it restores, and the text stays as it is while *)
(* the mutex is held for the write.                                        *)
(***************************************************************************)
Respelled == at \in {"write", "restore"} => \A l \in Lines : doc[l] # Alias

\* No alias is left in a normalised text.
LEMMA CanonRespells == \A t : \A l \in Lines : Canon(t)[l] # Alias
BY SpellingAssumption DEF Canon

\* A step that ends at a write or a restore normalised the text, or had it
\* normalised before.
LEMMA RespelledStep ==
    ASSUME Respelled, Next
    PROVE  Respelled'
<1> USE DEF text, lock, StartPass, Free
<1>1. \/ at' \notin {"write", "restore"}
      \/ at' = at /\ doc' = doc
      \/ doc' = Canon(doc)
  <2>1. CASE SaveStep
    BY <2>1 DEF SaveStep, CheckOver, CheckClean, CheckChanged, CheckFails,
                WriteFails, WriteMissing, WriteStale, WriteLands, ReadMissing,
                ReadFails, ReadCollides, ReadMerges, FailSave, Release
  <2>2. CASE SaverStep
    BY <2>2 DEF SaverStep, SaverDue, SaverDisarms, SaverProbes, SaverResumes,
                Ticks
  <2>3. CASE Restore
    BY <2>3 DEF Restore, RestoreLands, RestoreFails
  <2>4. ASSUME NEW c \in Conns, Socket(c)
        PROVE  \/ at' \notin {"write", "restore"}
               \/ at' = at /\ doc' = doc
               \/ doc' = Canon(doc)
    BY <2>4 DEF Socket, Join, Answer, Flush, Leave, Resolve, ResolveEditMine,
                ResolveEditTheirs, ResolveDeletedMine, ResolveDeletedTheirs,
                Resolving
  <2>5. CASE \/ \E c \in Conns : Finish(c)
             \/ SweepStarts \/ SweepStep \/ Poison \/ Replace
    BY <2>5 DEF Finish, FinishSaves, DisposeIfEmpty, SweepStarts, SweepStep,
                SweepSaves, SweepCloses, Poison, Replace, LastSave,
                LastSaveResumes
  <2>6. CASE \/ \E c \in Conns, l \in Lines, v \in Values : Type(c, l, v)
             \/ \E l \in Lines, v \in Values : AgentComposes(l, v)
    BY <2>6 DEF Type, AgentComposes
  <2>7. CASE AgentReads \/ AgentRefused \/ Absorb \/ IndexSync
             \/ \E f \in Stored : OutsideChange(f)
    BY <2>7 DEF AgentReads, AgentRefused, Absorb, IndexSync, OutsideChange
  <2> QED
    BY <2>1, <2>2, <2>3, <2>4, <2>5, <2>6, <2>7 DEF Next
<1> QED
  BY <1>1, CanonRespells DEF Respelled

\* Only a save or a restore whose text parses writes the file.
LEMMA WritersParse ==
    ASSUME RoomInv, Next, file' # file, outside' = outside
    PROVE  at \in {"write", "restore"} /\ ~Refused(doc) /\ file' = LfContent(doc)
<1>1. ASSUME NEW f \in Stored, OutsideChange(f) PROVE FALSE
  <2>1. outside \in Nat /\ outside' = outside + 1
    BY <1>1 DEF OutsideChange, RoomInv, TypeOK, OtherTypes
  <2> QED
    BY <2>1
<1>2. WriteLands \/ RestoreLands
  BY <1>1 DEF Next, SaveStep, CheckOver, CheckClean, CheckChanged, CheckFails,
     WriteFails, WriteMissing, WriteStale, ReadMissing, ReadFails,
     ReadCollides, ReadMerges, SaverStep, SaverDue, SaverDisarms, SaverProbes,
     SaverResumes, Restore, RestoreFails, Socket, Join, Answer, Flush, Leave,
     Resolve, ResolveEditMine, ResolveEditTheirs, ResolveDeletedMine,
     ResolveDeletedTheirs, Finish, FinishSaves, DisposeIfEmpty, SweepStarts,
     SweepStep, SweepSaves, SweepCloses, Poison, Replace, Type, AgentReads,
     AgentRefused, AgentComposes, Absorb, IndexSync, disk
<1> QED
  BY <1>2 DEF WriteLands, RestoreLands

\* Every file a room writes, by a save or by a restore, parses and spells
\* every domain canonically.
THEOREM EngramTheorem == Spec => WritesAreEngrams
<1> DEFINE Good == file' # file /\ outside' = outside =>
                     ~Refused(file'.lines) /\ \A l \in Lines : file'.lines[l] # Alias
<1>1. Init => Respelled
  BY DEF Init, Respelled
<1>2. Respelled /\ [Next]_vars => Respelled'
  <2>1. ASSUME Respelled, UNCHANGED vars PROVE Respelled'
    BY <2>1 DEF Respelled, vars, text, lock
  <2> QED
    BY <2>1, RespelledStep
<1>3. RoomInv /\ Respelled /\ [Next]_vars => [Good]_vars
  <2> SUFFICES ASSUME RoomInv, Respelled, Next, file' # file, outside' = outside
               PROVE  ~Refused(file'.lines) /\ \A l \in Lines : file'.lines[l] # Alias
    OBVIOUS
  <2>1. at \in {"write", "restore"} /\ ~Refused(doc) /\ file' = LfContent(doc)
    BY WritersParse
  <2>2. file'.lines = doc
    BY <2>1 DEF LfContent
  <2> QED
    BY <2>1, <2>2 DEF Respelled
<1> QED
  BY <1>1, <1>2, <1>3, RoomInvariant, PTL DEF Spec, WritesAreEngrams
-----------------------------------------------------------------------------
(***************************************************************************)
(* Unsaved text is on its way.  The invariant is stronger than the         *)
(* property: outside a conflict, a text that differs from the text last    *)
(* saved is dirty, or a "mine" left it to its flush.                       *)
(***************************************************************************)
Told == dirty \/ "flushonly" \in slips

ArmedInv == saveState # "conflict" /\ Changed => Told

\* A pass that goes on to its write is a pass of a room without a conflict.
PassUndisputed == at \in {"write", "read"} => saveState # "conflict"

\* Nothing raises a conflict beside a pass.
LEMMA PassStep ==
    ASSUME RoomInv, PassUndisputed, Next
    PROVE  PassUndisputed'
<1> USE DEF status, lock, StartPass, Free, PassUndisputed
<1>1. CASE SaveStep
  BY <1>1 DEF SaveStep, CheckOver, CheckClean, CheckChanged, CheckFails,
              WriteFails, WriteMissing, WriteStale, WriteLands, ReadMissing,
              ReadFails, ReadCollides, ReadMerges, FailSave, Release, RoomInv,
              Held, ConflictIsResolvable
<1>2. CASE SaverStep
  BY <1>2 DEF SaverStep, SaverDue, SaverDisarms, SaverProbes, SaverResumes,
              Ticks
<1>3. CASE Restore
  BY <1>3 DEF Restore, RestoreLands, RestoreFails
<1>4. ASSUME NEW c \in Conns, Socket(c) PROVE PassUndisputed'
  BY <1>4 DEF Socket, Join, Answer, Flush, Leave, Resolve, ResolveEditMine,
              ResolveEditTheirs, ResolveDeletedMine, ResolveDeletedTheirs,
              Resolving
<1>5. CASE \/ \E c \in Conns : Finish(c)
           \/ SweepStarts \/ SweepStep \/ Poison \/ Replace
  BY <1>5 DEF Finish, FinishSaves, DisposeIfEmpty, SweepStarts, SweepStep,
              SweepSaves, SweepCloses, Poison, Replace, LastSave,
              LastSaveResumes
<1>6. CASE \/ \E c \in Conns, l \in Lines, v \in Values : Type(c, l, v)
           \/ \E l \in Lines, v \in Values : AgentComposes(l, v)
  BY <1>6 DEF Type, AgentComposes
<1>7. CASE AgentReads \/ AgentRefused \/ Absorb \/ IndexSync
           \/ \E f \in Stored : OutsideChange(f)
  BY <1>7 DEF AgentReads, AgentRefused, Absorb, IndexSync, OutsideChange
<1> QED
  BY <1>1, <1>2, <1>3, <1>4, <1>5, <1>6, <1>7 DEF Next

\* A clean merge of a text nobody changed leaves nothing to save.
LEMMA MergeArms ==
    ASSUME RoomInv, ArmedInv, file # Absent, AdoptMerge, Told => Told',
           saveState' # "conflict" => saveState # "conflict"
    PROVE  ArmedInv'
<1>1. CASE doc = lastSaved
  <2>1. doc \in Text /\ file.lines \in Text
    BY StoredLines DEF RoomInv, TypeOK, TextTypes
  <2>2. doc' = lastSaved'
    BY <1>1, <2>1, MergeUnchanged DEF AdoptMerge
  <2> QED
    BY <2>2 DEF ArmedInv, Changed
<1>2. CASE doc # lastSaved
  BY <1>2 DEF ArmedInv, Changed
<1> QED
  BY <1>1, <1>2

\* The save pass preserves the invariant.
LEMMA SaveStepArmed ==
    ASSUME RoomInv, PassUndisputed, ArmedInv, SaveStep
    PROVE  ArmedInv'
<1> USE DEF text, status, ArmedInv, Changed, Told
<1>1. CASE CheckOver \/ WriteStale
  BY <1>1 DEF CheckOver, WriteStale
<1>2. CASE CheckClean \/ WriteLands
  BY <1>2 DEF CheckClean, WriteLands
<1>3. CASE CheckChanged \/ CheckFails
  <2>1. saveState # "conflict" /\ Changed
    BY <1>3 DEF CheckChanged, CheckFails, RoomInv, Held, ConflictIsResolvable
  <2>2. Told'
    BY <1>3, <2>1 DEF CheckChanged, CheckFails
  <2> QED
    BY <2>2
<1>4. CASE WriteFails \/ ReadFails
  <2>1. saveState # "conflict"
    BY <1>4 DEF WriteFails, ReadFails, PassUndisputed
  <2> QED
    BY <1>4, <2>1 DEF WriteFails, ReadFails
<1>5. CASE WriteMissing \/ ReadMissing \/ ReadCollides
  BY <1>5 DEF WriteMissing, ReadMissing, ReadCollides, RaiseDeleted, RaiseEdit
<1>6. CASE ReadMerges
  <2>1. file # Absent /\ AdoptMerge /\ UNCHANGED status /\ slips \subseteq slips'
    BY <1>6 DEF ReadMerges, Missing
  <2> QED
    BY <2>1, MergeArms
<1> QED
  BY <1>1, <1>2, <1>3, <1>4, <1>5, <1>6 DEF SaveStep

\* So does the saver: it disarms only a room whose text is saved.
LEMMA SaverStepArmed ==
    ASSUME RoomInv, ArmedInv, SaverStep
    PROVE  ArmedInv'
<1> USE DEF text, status, ArmedInv, Changed, Told
<1>1. CASE SaverDue \/ SaverResumes \/ SaverDisarms
  BY <1>1 DEF SaverDue, SaverResumes, SaverDisarms
<1>2. CASE SaverProbes
  <2>1. (dirty => ~Changed) /\ dirty' = FALSE /\ UNCHANGED slips /\ saveState = "ok"
    BY <1>2 DEF SaverProbes
  <2>2. \/ saveState' = "conflict"
        \/ file # Absent /\ AdoptMerge /\ UNCHANGED saveState
    BY <1>2 DEF SaverProbes, RaiseDeleted, RaiseEdit, Missing
  <2>3. CASE saveState' # "conflict" /\ Changed
    BY <2>1, <2>3
  <2>4. CASE saveState' # "conflict" /\ ~Changed
    <3>1. doc \in Text /\ file.lines \in Text /\ doc = lastSaved
      BY <2>2, <2>4, StoredLines DEF RoomInv, TypeOK, TextTypes
    <3>2. doc' = lastSaved'
      BY <2>2, <2>4, <3>1, MergeUnchanged DEF AdoptMerge
    <3> QED
      BY <3>2
  <2> QED
    BY <2>3, <2>4
<1> QED
  BY <1>1, <1>2 DEF SaverStep

\* So do the sockets: typing marks the room, a "mine" leaves it marked or to
\* its flush, a "theirs" leaves nothing to save.
LEMMA SocketArmed ==
    ASSUME RoomInv, ArmedInv, NEW c \in Conns, Socket(c)
    PROVE  ArmedInv'
<1> USE DEF text, status, ArmedInv, Changed, Told
<1>1. CASE Join(c) \/ Answer(c) \/ Flush(c) \/ Leave(c) \/ ResolveDeletedTheirs(c)
  BY <1>1 DEF Join, Answer, Flush, Leave, ResolveDeletedTheirs
<1>2. CASE ResolveEditMine(c)
  BY <1>2 DEF ResolveEditMine
<1>3. CASE ResolveEditTheirs(c)
  BY <1>3 DEF ResolveEditTheirs
<1>4. CASE ResolveDeletedMine(c)
  BY <1>4 DEF ResolveDeletedMine, Resolving, RaiseEdit
<1> QED
  BY <1>1, <1>2, <1>3, <1>4 DEF Socket, Resolve

\* So does everything else.
LEMMA OtherArmed ==
    ASSUME RoomInv, ArmedInv,
           \/ Restore
           \/ \E c \in Conns : Finish(c)
           \/ SweepStarts \/ SweepStep \/ Poison \/ Replace
           \/ \E c \in Conns, l \in Lines, v \in Values : Type(c, l, v)
           \/ \E l \in Lines, v \in Values : AgentComposes(l, v)
           \/ AgentReads \/ AgentRefused \/ Absorb \/ IndexSync
           \/ \E f \in Stored : OutsideChange(f)
    PROVE  ArmedInv'
<1> USE DEF text, status, ArmedInv, Changed, Told
<1>1. CASE Restore
  BY <1>1 DEF Restore, RestoreLands, RestoreFails, RoomInv, Held, RestoreInConflict
<1>2. CASE \/ \E c \in Conns : Finish(c)
           \/ SweepStarts \/ SweepStep \/ Poison \/ Replace
  <2>1. UNCHANGED <<text, status>> /\ slips \subseteq slips'
    BY <1>2 DEF Finish, FinishSaves, DisposeIfEmpty, SweepStarts, SweepStep,
                SweepSaves, SweepCloses, Poison, Replace
  <2> QED
    BY <2>1
<1>3. CASE \/ \E c \in Conns, l \in Lines, v \in Values : Type(c, l, v)
           \/ \E l \in Lines, v \in Values : AgentComposes(l, v)
  BY <1>3 DEF Type, AgentComposes
<1>4. CASE AgentReads \/ AgentRefused \/ IndexSync \/ \E f \in Stored : OutsideChange(f)
  BY <1>4 DEF AgentReads, AgentRefused, IndexSync, OutsideChange
<1>5. CASE Absorb
  BY <1>5 DEF Absorb, RaiseEdit
<1> QED
  BY <1>1, <1>2, <1>3, <1>4, <1>5

\* Unsaved text of an open room that may save is always on its way.
THEOREM ArmedTheorem == Spec => []UnsavedIsArmed
<1>1. Init => PassUndisputed /\ ArmedInv
  BY DEF Init, PassUndisputed, ArmedInv, Changed
<1>2. RoomInv /\ PassUndisputed /\ ArmedInv /\ [Next]_vars
        => (PassUndisputed /\ ArmedInv)'
  <2>1. ASSUME PassUndisputed, ArmedInv, UNCHANGED vars
        PROVE  PassUndisputed' /\ ArmedInv'
    BY <2>1 DEF PassUndisputed, ArmedInv, Changed, Told, vars, text, status, lock
  <2>2. ASSUME RoomInv, PassUndisputed, ArmedInv, Next PROVE ArmedInv'
    BY <2>2, SaveStepArmed, SaverStepArmed, SocketArmed, OtherArmed DEF Next
  <2> QED
    BY <2>1, <2>2, PassStep
<1>3. ArmedInv => UnsavedIsArmed
  BY DEF ArmedInv, UnsavedIsArmed, Told
<1> QED
  BY <1>1, <1>2, <1>3, RoomInvariant, PTL DEF Spec
-----------------------------------------------------------------------------
(***************************************************************************)
(* Nothing is lost. A room owes its text once it ended, once its sweep is  *)
(* about to close it, and while nobody is in it and no teardown has a save *)
(* before it. Whoever comes to owe it has just saved the text, or had the  *)
(* server keep it; and what goes on in a room that owes it - passes of the *)
(* saver, merges, a last resolve - loses nothing of it.                    *)
(***************************************************************************)
Attended == conns # {} \/ \E c \in Conns : fin[c] = "final"

AllDone == conns = {} /\ \A c \in Conns : fin[c] \notin {"final", "gap", "saving"}

Owed == \/ ended \in {"empty", "swept"}
        \/ ~disposed /\ (sweep = "close" \/ AllDone)

Excused == closed \/ \E slip \in {"outrun", "overtaken", "late"} : slip \in slips

\* Who is in its final pass holds the mutex; a sweep took the room out of the
\* registry; a room that ended is over; and no agent's edit is composed into a
\* room nobody will save again.
CourseOfRoom ==
    /\ FinalPass => at \in {"check", "write", "read"}
    /\ sweep # "no" => ~registered
    /\ ended \in {"empty", "swept"} => disposed
    /\ ~disposed /\ ~Attended => finalSaved

LostInv == CourseOfRoom /\ (Owed => Accounted \/ Excused)

\* What a text says, spelled canonically.
LEMMA CanonAt ==
    \A t : \A l \in Lines : Canon(t)[l] = IF t[l] = Alias THEN Canonical ELSE t[l]
BY DEF Canon

\* A normalised text is normalised.
LEMMA CanonTwice == \A t : Canon(Canon(t)) = Canon(t)
BY SpellingAssumption DEF Canon

\* Two texts are spelled alike when every line is.
LEMMA CanonSame ==
    \A t, u : (\A l \in Lines : Canon(t)[l] = Canon(u)[l]) => Canon(t) = Canon(u)
BY DEF Canon

\* A line that differed and says the same as before is still in the kept text.
LEMMA AccountedStands ==
    ASSUME Accounted, kept \subseteq kept',
           \A l \in Lines :
             \/ Canon(doc')[l] = Canon(lastSaved')[l]
             \/ Canon(doc)[l] # Canon(lastSaved)[l] /\ Canon(doc')[l] = Canon(doc)[l]
    PROVE  Accounted'
<1>1. CASE Canon(doc) = Canon(lastSaved)
  BY <1>1, CanonSame DEF Accounted
<1>2. CASE UnsavedIsKept
  <2>1. PICK k \in kept : \A l \in Lines :
          Canon(doc)[l] = Canon(lastSaved)[l] \/ Canon(k)[l] = Canon(doc)[l]
    BY <1>2 DEF UnsavedIsKept
  <2>2. \A l \in Lines :
          Canon(doc')[l] = Canon(lastSaved')[l] \/ Canon(k)[l] = Canon(doc')[l]
    BY <2>1
  <2> QED
    BY <2>1, <2>2 DEF Accounted, UnsavedIsKept
<1> QED
  BY <1>1, <1>2 DEF Accounted

\* A clean merge brings their lines in and leaves mine as they were.
LEMMA MergeAccounts ==
    ASSUME TypeOK, Accounted, file # Absent, ~Collision, AdoptMerge, kept \subseteq kept'
    PROVE  Accounted'
<1>1. doc' = Merged(lastSaved, doc, file.lines) /\ lastSaved' = file.lines
  BY DEF AdoptMerge
<1>2. ASSUME NEW l \in Lines
      PROVE  \/ Canon(doc')[l] = Canon(lastSaved')[l]
             \/ Canon(doc)[l] # Canon(lastSaved)[l] /\ Canon(doc')[l] = Canon(doc)[l]
  <2>1. doc'[l] = IF doc[l] = lastSaved[l] THEN file.lines[l] ELSE doc[l]
    BY <1>1 DEF Merged
  <2>2. doc[l] = lastSaved[l] \/ file.lines[l] = lastSaved[l] \/ doc[l] = file.lines[l]
    BY DEF Collision, MergeConflicts, Collides
  <2> QED
    BY <1>1, <2>1, <2>2, CanonAt
<1> QED
  BY <1>2, AccountedStands

\* What a pass keeps accounts for the text it leaves.
LEMMA KeepAccounts ==
    ASSUME NEW state \in {"failed", "conflict"}, Keep(state, doc', lastSaved')
    PROVE  Accounted'
BY DEF Keep, Accounted, UnsavedIsKept

\* Texts are kept for good, a closed room stays closed, and what excuses a
\* room stands until a save lands.
LEMMA KeptGrows ==
    ASSUME Next
    PROVE  /\ kept \subseteq kept'
           /\ closed => closed'
           /\ slips \subseteq slips' \/ doc' = lastSaved'
<1> USE DEF text, status
<1>1. CASE SaveStep
  BY <1>1 DEF SaveStep, CheckOver, CheckClean, CheckChanged, CheckFails,
              WriteFails, WriteMissing, WriteStale, WriteLands, ReadMissing,
              ReadFails, ReadCollides, ReadMerges, FailSave, Release, Keep
<1>2. CASE SaverStep \/ Restore
  BY <1>2 DEF SaverStep, SaverDue, SaverDisarms, SaverProbes, SaverResumes,
              Restore, RestoreLands, RestoreFails
<1>3. ASSUME NEW c \in Conns, Socket(c)
      PROVE  kept \subseteq kept' /\ (closed => closed') /\ slips \subseteq slips'
  BY <1>3 DEF Socket, Join, Answer, Flush, Leave, Resolve, ResolveEditMine,
              ResolveEditTheirs, ResolveDeletedMine, ResolveDeletedTheirs
<1>4. ASSUME NEW c \in Conns, Finish(c)
      PROVE  kept \subseteq kept' /\ (closed => closed') /\ slips \subseteq slips'
  BY <1>4 DEF Finish, FinishSaves, DisposeIfEmpty, LastSave, LastSaveResumes, Keep
<1>5. CASE SweepStarts \/ SweepStep \/ Poison \/ Replace
  BY <1>5 DEF SweepStarts, SweepStep, SweepSaves, SweepCloses, Poison, Replace,
              LastSave, LastSaveResumes, Keep
<1>6. ASSUME NEW c \in Conns, NEW l \in Lines, NEW v \in Values, Type(c, l, v)
      PROVE  kept \subseteq kept' /\ (closed => closed') /\ slips \subseteq slips'
  BY <1>6 DEF Type
<1>8. ASSUME NEW l \in Lines, NEW v \in Values, AgentComposes(l, v)
      PROVE  kept \subseteq kept' /\ (closed => closed') /\ slips \subseteq slips'
  BY <1>8 DEF AgentComposes
<1>7. CASE AgentReads \/ AgentRefused \/ Absorb \/ IndexSync
           \/ \E f \in Stored : OutsideChange(f)
  BY <1>7 DEF AgentReads, AgentRefused, Absorb, IndexSync, OutsideChange
<1> QED
  BY <1>1, <1>2, <1>3, <1>4, <1>5, <1>6, <1>7, <1>8 DEF Next

\* How a step may change what is unsaved.
LEMMA TextSteps ==
    ASSUME Next
    PROVE  \/ UNCHANGED <<doc, lastSaved>>
           \/ doc' = Canon(doc) /\ UNCHANGED lastSaved
           \/ file # Absent /\ ~Collision /\ AdoptMerge
           \/ doc' = lastSaved'
           \/ conns # {} /\ Late \subseteq slips'
           \/ registered /\ ~disposed /\ ~finalSaved
<1> USE DEF text, status
<1>1. CASE SaveStep
  BY <1>1 DEF SaveStep, CheckOver, CheckClean, CheckChanged, CheckFails,
              WriteFails, WriteMissing, WriteStale, WriteLands, ReadMissing,
              ReadFails, ReadCollides, ReadMerges, Missing
<1>2. CASE SaverStep \/ Restore
  BY <1>2 DEF SaverStep, SaverDue, SaverDisarms, SaverProbes, SaverResumes,
              Restore, RestoreLands, RestoreFails, Missing
<1>3. ASSUME NEW c \in Conns, Socket(c)
      PROVE  \/ UNCHANGED <<doc, lastSaved>>
             \/ doc' = Canon(doc) /\ UNCHANGED lastSaved
             \/ doc' = lastSaved'
             \/ conns # {} /\ Late \subseteq slips'
  BY <1>3 DEF Socket, Join, Answer, Flush, Leave, Resolve, Resolving, ResolveEditMine,
              ResolveEditTheirs, ResolveDeletedMine, ResolveDeletedTheirs
<1>4. CASE \/ \E c \in Conns : Finish(c)
           \/ SweepStarts \/ SweepStep \/ Poison \/ Replace
  BY <1>4 DEF Finish, FinishSaves, DisposeIfEmpty, SweepStarts, SweepStep,
              SweepSaves, SweepCloses, Poison, Replace
<1>5. ASSUME NEW c \in Conns, NEW l \in Lines, NEW v \in Values, Type(c, l, v)
      PROVE  conns # {} /\ Late \subseteq slips'
  BY <1>5 DEF Type
<1>6. ASSUME NEW l \in Lines, NEW v \in Values, AgentComposes(l, v)
      PROVE  registered /\ ~disposed /\ ~finalSaved
  BY <1>6 DEF AgentComposes, Composable, Saving
<1>7. CASE AgentReads \/ AgentRefused \/ Absorb \/ IndexSync
           \/ \E f \in Stored : OutsideChange(f)
  BY <1>7 DEF AgentReads, AgentRefused, Absorb, IndexSync, OutsideChange, Missing
<1> QED
  BY <1>1, <1>2, <1>3, <1>4, <1>5, <1>6, <1>7 DEF Next

\* A room that owes its text goes on accounting for it.
LEMMA OwedStands ==
    ASSUME TypeOK, LostInv, Owed, Next
    PROVE  Accounted' \/ Excused'
<1>1. CASE doc' = lastSaved'
  BY <1>1 DEF Accounted
<1>2. CASE doc' # lastSaved' /\ Excused
  BY <1>2, KeptGrows DEF Excused
<1>3. CASE Accounted /\ UNCHANGED <<doc, lastSaved>>
  BY <1>3, KeptGrows, AccountedStands
<1>4. CASE Accounted /\ doc' = Canon(doc) /\ UNCHANGED lastSaved
  BY <1>4, KeptGrows, AccountedStands, CanonTwice
<1>5. CASE Accounted /\ file # Absent /\ ~Collision /\ AdoptMerge
  BY <1>5, KeptGrows, MergeAccounts
<1>6. CASE conns # {} /\ Late \subseteq slips'
  <2>1. disposed \/ sweep = "close"
    BY <1>6 DEF LostInv, CourseOfRoom, Owed, AllDone
  <2> QED
    BY <1>6, <2>1 DEF Late, Excused
<1>7. CASE registered /\ ~disposed /\ ~finalSaved
  BY <1>7 DEF LostInv, CourseOfRoom, Owed, AllDone, Attended
<1> QED
  BY <1>1, <1>2, <1>3, <1>4, <1>5, <1>6, <1>7, TextSteps DEF LostInv

\* A step that leaves these alone makes no room owe its text.
LEMMA OwedSame ==
    ASSUME UNCHANGED <<ended, disposed, sweep, conns, fin>>
    PROVE  Owed' <=> Owed
BY DEF Owed, AllDone

\* A final pass that returns has saved the text, or has it kept, or was outrun.
LEMMA PassAccounts ==
    ASSUME TypeOK, SaveStep, ~Owed, Owed'
    PROVE  Accounted' \/ Excused'
<1> USE DEF text, status
<1>1. UNCHANGED <<ended, disposed, conns>> /\ ~disposed
  <2>1. UNCHANGED <<ended, disposed, conns>>
    BY DEF SaveStep, CheckOver, CheckClean, CheckChanged, CheckFails, WriteFails,
           WriteMissing, WriteStale, WriteLands, ReadMissing, ReadFails,
           ReadCollides, ReadMerges, life
  <2> QED
    BY <2>1 DEF Owed
<1>2. ASSUME NEW state, NEW t, NEW base, Release(state, t, base)
      PROVE  FinalPass /\ Keep(state, t, base)
  <2>1. CASE ~FinalPass
    <3>1. sweep' = sweep /\ \A c \in Conns : fin'[c] = fin[c]
      BY <1>2, <2>1 DEF Release, FinalPass
    <3>2. Owed
      BY <1>1, <3>1 DEF Owed, AllDone
    <3> QED
      BY <3>2
  <2> QED
    BY <1>2, <2>1 DEF Release
<1>3. CASE CheckOver
  <2>1. closed'
    BY <1>1, <1>3 DEF CheckOver
  <2> QED
    BY <2>1 DEF Excused
<1>4. CASE CheckClean \/ WriteLands
  BY <1>4 DEF CheckClean, WriteLands, Changed, Accounted
<1>5. CASE CheckFails
  <2>1. Keep("failed", doc', lastSaved') /\ lastSaved' = lastSaved
    BY <1>2, <1>5 DEF CheckFails
  <2> QED
    BY <2>1, KeepAccounts
<1>6. CASE WriteFails \/ ReadFails
  <2>1. Keep("failed", doc, lastSaved) /\ doc' = doc /\ lastSaved' = lastSaved
    BY <1>2, <1>6 DEF WriteFails, ReadFails, FailSave
  <2> QED
    BY <2>1, KeepAccounts
<1>7. CASE WriteMissing \/ ReadMissing \/ ReadCollides
  <2>1. Keep("conflict", doc, lastSaved) /\ doc' = doc /\ lastSaved' = lastSaved
    BY <1>2, <1>7 DEF WriteMissing, ReadMissing, ReadCollides
  <2> QED
    BY <2>1, KeepAccounts
<1>8. CASE CheckChanged \/ WriteStale
  <2>1. UNCHANGED <<sweep, fin>>
    BY <1>8 DEF CheckChanged, WriteStale, tasks
  <2> QED
    BY <1>1, <2>1, OwedSame
<1>9. CASE ReadMerges
  <2>1. CASE UNCHANGED tasks
    BY <1>1, <2>1, OwedSame DEF tasks
  <2>2. CASE /\ Release(saveState, doc', lastSaved')
             /\ slips' = IF FinalPass /\ doc' # lastSaved'
                         THEN slips \cup {"outrun"} ELSE slips
    <3>1. FinalPass
      BY <1>2, <2>2
    <3>2. doc' = lastSaved' \/ "outrun" \in slips'
      BY <2>2, <3>1
    <3> QED
      BY <3>2 DEF Accounted, Excused
  <2> QED
    BY <1>9, <2>1, <2>2 DEF ReadMerges
<1> QED
  BY <1>3, <1>4, <1>5, <1>6, <1>7, <1>8, <1>9 DEF SaveStep

\* A last save that needs no pass has a conflict to keep, or a closed room.
LEMMA LastSaveAccounts ==
    ASSUME ~disposed, UNCHANGED <<doc, lastSaved, saveState, closed>>,
           LastSave("over") \/ LastSaveResumes("over")
    PROVE  Accounted' \/ Excused'
<1>1. closed \/ (saveState = "conflict" /\ Keep(saveState, doc, lastSaved))
  BY DEF LastSave, LastSaveResumes
<1>2. CASE closed
  BY <1>2 DEF Excused
<1>3. CASE saveState = "conflict" /\ Keep(saveState, doc, lastSaved)
  BY <1>3, KeepAccounts
<1> QED
  BY <1>1, <1>2, <1>3

\* So has a teardown or a sweep that ends its last save, and a room that ends
\* empty is accounted for, or another teardown was overtaken.
LEMMA EndAccounts ==
    ASSUME TypeOK, LostInv, ~Owed, Owed',
           (\E c \in Conns : Finish(c)) \/ SweepStep
    PROVE  Accounted' \/ Excused'
<1> USE DEF text, status, life
<1>1. ASSUME NEW c \in Conns, FinishSaves(c)
      PROVE  Accounted' \/ Excused'
  <2> PICK next \in {"over", "gap", "saving"} :
         /\ \/ fin[c] = "final" /\ LastSave(next)
            \/ fin[c] = "gap" /\ LastSaveResumes(next)
         /\ fin' = [fin EXCEPT ![c] = IF next = "over" THEN "dispose" ELSE next]
    BY <1>1 DEF FinishSaves
  <2>1. UNCHANGED <<ended, disposed, conns, sweep>> /\ ~disposed
        /\ UNCHANGED <<doc, lastSaved, saveState, closed>>
    BY <1>1 DEF FinishSaves, Owed
  <2>2. AllDone'
    BY <2>1 DEF Owed
  <2>3. fin'[c] = IF next = "over" THEN "dispose" ELSE next
    BY DEF TypeOK, TaskTypes
  <2>4. next = "over"
    BY <2>2, <2>3 DEF AllDone
  <2> QED
    BY <2>1, <2>4, LastSaveAccounts
<1>2. CASE SweepSaves
  <2> PICK next \in {"over", "gap", "saving"} :
         /\ \/ sweep = "final" /\ LastSave(next)
            \/ sweep = "gap" /\ LastSaveResumes(next)
         /\ sweep' = IF next = "over" THEN "close" ELSE next
    BY <1>2 DEF SweepSaves
  <2>1. UNCHANGED <<ended, disposed, conns, fin>> /\ ~disposed
        /\ UNCHANGED <<doc, lastSaved, saveState, closed>>
    BY <1>2 DEF SweepSaves, Owed
  <2>2. next = "over"
    BY <2>1 DEF Owed, AllDone
  <2> QED
    BY <2>1, <2>2, LastSaveAccounts
<1>3. CASE SweepCloses
  BY <1>3 DEF SweepCloses, Owed, AllDone
<1>4. ASSUME NEW c \in Conns, DisposeIfEmpty(c)
      PROVE  Accounted' \/ Excused'
  <2>1. fin' = [fin EXCEPT ![c] = "no"] /\ fin[c] = "dispose"
        /\ UNCHANGED <<conns, sweep>>
    BY <1>4 DEF DisposeIfEmpty
  <2>2. CASE registered /\ ~disposed /\ conns = {}
    <3>1. at = "free" /\ \A d \in Conns : fin[d] # "saving"
      BY <1>4, <2>2 DEF DisposeIfEmpty, Free, LostInv, CourseOfRoom, FinalPass
    <3>2. \E d \in Conns : fin[d] \in {"final", "gap"}
      BY <2>2, <3>1 DEF Owed, AllDone
    <3>3. \E d \in Conns \ {c} : fin[d] \in {"final", "gap"}
      BY <2>1, <3>2
    <3>4. "overtaken" \in slips'
      BY <1>4, <2>2, <3>3 DEF DisposeIfEmpty
    <3> QED
      BY <3>4 DEF Excused
  <2>3. CASE ~(registered /\ ~disposed /\ conns = {})
    <3>1. UNCHANGED <<ended, disposed>> \/ (disposed /\ disposed' /\ ended' = ended)
      BY <1>4, <2>3 DEF DisposeIfEmpty
    <3>2. AllDone' => AllDone
      BY <2>1 DEF AllDone, TypeOK, TaskTypes
    <3> QED
      BY <2>1, <3>1, <3>2 DEF Owed
  <2> QED
    BY <2>2, <2>3
<1> QED
  BY <1>1, <1>2, <1>3, <1>4 DEF Finish, SweepStep

\* Nothing else makes a room owe its text.
LEMMA OwedArises ==
    ASSUME TypeOK, LostInv, ~Owed, Next, Owed'
    PROVE  Accounted' \/ Excused'
<1> USE DEF life, tasks
<1>1. CASE SaveStep
  BY <1>1, PassAccounts
<1>2. CASE (\E c \in Conns : Finish(c)) \/ SweepStep
  BY <1>2, EndAccounts
<1>3. CASE SaverStep \/ Restore
  <2>1. UNCHANGED <<ended, disposed, sweep, conns, fin>>
    BY <1>3 DEF SaverStep, SaverDue, SaverDisarms, SaverProbes, SaverResumes,
                Restore, RestoreLands, RestoreFails
  <2> QED
    BY <2>1, OwedSame
<1>4. ASSUME NEW c \in Conns, Socket(c) PROVE FALSE
  <2>1. CASE Join(c)
    BY <2>1 DEF Join, Owed, AllDone
  <2>2. CASE Leave(c)
    <3>1. UNCHANGED <<ended, disposed, sweep>> /\ conns' = conns \ {c}
      BY <2>2 DEF Leave
    <3>2. fin'[c] = IF conns = {c} THEN "final" ELSE "no"
      BY <2>2 DEF Leave, TypeOK, TaskTypes
    <3>3. c \in conns
      BY <2>2 DEF Leave
    <3>4. conns' = {} => conns = {c}
      BY <3>1, <3>3
    <3>5. ~AllDone'
      BY <3>2, <3>4 DEF AllDone
    <3> QED
      BY <3>1, <3>5 DEF Owed
  <2>3. CASE Answer(c) \/ Flush(c) \/ Resolve(c)
    <3>1. UNCHANGED <<ended, disposed, sweep, conns, fin>>
      BY <2>3 DEF Answer, Flush, Resolve, ResolveEditMine, ResolveEditTheirs,
                  ResolveDeletedMine, ResolveDeletedTheirs
    <3> QED
      BY <3>1, OwedSame
  <2> QED
    BY <1>4, <2>1, <2>2, <2>3 DEF Socket
<1>5. CASE SweepStarts
  BY <1>5 DEF SweepStarts, Owed, AllDone
<1>6. CASE Poison
  BY <1>6 DEF Poison, Owed
<1>7. CASE \/ Replace \/ AgentReads \/ AgentRefused \/ Absorb \/ IndexSync
           \/ \E c \in Conns, l \in Lines, v \in Values : Type(c, l, v)
           \/ \E l \in Lines, v \in Values : AgentComposes(l, v)
           \/ \E f \in Stored : OutsideChange(f)
  <2>1. UNCHANGED <<ended, disposed, sweep, conns, fin>>
    BY <1>7 DEF Replace, AgentReads, AgentRefused, Absorb, IndexSync, Type,
                AgentComposes, OutsideChange
  <2> QED
    BY <2>1, OwedSame
<1> QED
  BY <1>1, <1>2, <1>3, <1>4, <1>5, <1>6, <1>7 DEF Next

\* The course of a room is preserved.
LEMMA CourseStep ==
    ASSUME TypeOK, CourseOfRoom, Next
    PROVE  CourseOfRoom'
<1> USE DEF life, tasks, lock, CourseOfRoom
<1>1. CASE SaveStep
  <2>1. UNCHANGED <<registered, ended, disposed, finalSaved, conns>>
    BY <1>1 DEF SaveStep, CheckOver, CheckClean, CheckChanged, CheckFails,
                WriteFails, WriteMissing, WriteStale, WriteLands, ReadMissing,
                ReadFails, ReadCollides, ReadMerges
  <2>2. \/ at' \in {"check", "write", "read"} /\ UNCHANGED <<sweep, fin>>
        \/ \E state, t, base : Release(state, t, base)
    BY <1>1 DEF SaveStep, CheckOver, CheckClean, CheckChanged, CheckFails,
                WriteFails, WriteMissing, WriteStale, WriteLands, ReadMissing,
                ReadFails, ReadCollides, ReadMerges, FailSave
  <2>3. CASE at' \in {"check", "write", "read"} /\ UNCHANGED <<sweep, fin>>
    BY <2>1, <2>3 DEF Attended
  <2>4. ASSUME NEW state, NEW t, NEW base, Release(state, t, base)
        PROVE  CourseOfRoom'
    <3>1. /\ \A c \in Conns : fin'[c] = IF fin[c] = "saving" THEN "dispose" ELSE fin[c]
          /\ sweep' = IF sweep = "saving" THEN "close" ELSE sweep
      BY <2>4 DEF Release
    <3>2. ~FinalPass' /\ (sweep' # "no" => sweep # "no")
      BY <3>1 DEF FinalPass
    <3>3. Attended => Attended'
      BY <2>1, <3>1 DEF Attended
    <3> QED
      BY <2>1, <3>2, <3>3
  <2> QED
    BY <2>2, <2>3, <2>4
<1>2. CASE SaverStep \/ Restore
  <2>1. UNCHANGED <<registered, ended, disposed, finalSaved, conns, fin, sweep>>
        /\ at \notin {"check", "write", "read"}
    BY <1>2 DEF SaverStep, SaverDue, SaverDisarms, SaverProbes, SaverResumes, Ticks,
                Free, Restore, RestoreLands, RestoreFails
  <2> QED
    BY <2>1 DEF FinalPass, Attended
<1>3. ASSUME NEW c \in Conns, Socket(c) PROVE CourseOfRoom'
  <2>1. at = "free" /\ UNCHANGED <<registered, ended, disposed, sweep>>
    BY <1>3 DEF Socket, Join, Answer, Flush, Leave, Resolve, Resolving, Free,
                ResolveEditMine, ResolveEditTheirs, ResolveDeletedMine,
                ResolveDeletedTheirs
  <2>2. CASE Join(c)
    BY <2>1, <2>2 DEF Join, FinalPass, Attended
  <2>3. CASE Leave(c)
    <3>1. /\ fin' = [fin EXCEPT ![c] = IF conns = {c} THEN "final" ELSE "no"]
          /\ c \in conns /\ conns' = conns \ {c} /\ UNCHANGED <<at, finalSaved>>
      BY <2>3 DEF Leave
    <3>2. fin' \in [Conns -> {"no", "final", "gap", "saving", "dispose"}]
          /\ fin'[c] = (IF conns = {c} THEN "final" ELSE "no")
          /\ \A d \in Conns : fin'[d] = "saving" => fin[d] = "saving"
      BY <3>1 DEF TypeOK, TaskTypes
    <3>3. Attended'
      <4>1. CASE conns = {c}
        BY <3>2, <4>1 DEF Attended
      <4>2. CASE conns # {c}
        BY <3>1, <4>2 DEF Attended
      <4> QED
        BY <4>1, <4>2
    <3> QED
      BY <2>1, <3>1, <3>2, <3>3 DEF FinalPass
  <2>4. CASE Answer(c) \/ Flush(c) \/ Resolve(c)
    <3>1. UNCHANGED <<finalSaved, conns, fin>>
      BY <2>4 DEF Answer, Flush, Resolve, ResolveEditMine, ResolveEditTheirs,
                  ResolveDeletedMine, ResolveDeletedTheirs
    <3> QED
      BY <2>1, <3>1 DEF FinalPass, Attended
  <2> QED
    BY <1>3, <2>2, <2>3, <2>4 DEF Socket
<1>4. ASSUME NEW c \in Conns, FinishSaves(c) PROVE CourseOfRoom'
  <2> PICK next \in {"over", "gap", "saving"} :
         /\ \/ fin[c] = "final" /\ LastSave(next)
            \/ fin[c] = "gap" /\ LastSaveResumes(next)
         /\ fin' = [fin EXCEPT ![c] = IF next = "over" THEN "dispose" ELSE next]
    BY <1>4 DEF FinishSaves
  <2>1. UNCHANGED <<registered, ended, disposed, conns, sweep>>
    BY <1>4 DEF FinishSaves
  <2>2. \A d \in Conns : fin'[d] = IF d = c THEN (IF next = "over" THEN "dispose" ELSE next)
                                            ELSE fin[d]
    BY DEF TypeOK, TaskTypes
  <2>3. FinalPass' => at' \in {"check", "write", "read"}
    <3>1. CASE next = "saving"
      BY <3>1 DEF LastSave, LastSaveResumes, StartPass
    <3>2. CASE next # "saving"
      <4>1. FinalPass' => FinalPass
        BY <2>1, <2>2, <3>2 DEF FinalPass
      <4>2. UNCHANGED lock
        BY <3>2 DEF LastSave, LastSaveResumes
      <4> QED
        BY <4>1, <4>2
    <3> QED
      BY <3>1, <3>2
  <2>4. ~disposed' /\ ~Attended' => finalSaved'
    <3>1. CASE fin[c] = "final" /\ LastSave(next)
      BY <2>1, <3>1 DEF LastSave
    <3>2. CASE fin[c] = "gap" /\ LastSaveResumes(next)
      <4>1. Attended => Attended'
        BY <2>1, <2>2, <3>2 DEF Attended
      <4> QED
        BY <2>1, <3>2, <4>1 DEF LastSaveResumes
    <3> QED
      BY <3>1, <3>2
  <2> QED
    BY <2>1, <2>3, <2>4
<1>5. CASE SweepSaves
  <2> PICK next \in {"over", "gap", "saving"} :
         /\ \/ sweep = "final" /\ LastSave(next)
            \/ sweep = "gap" /\ LastSaveResumes(next)
         /\ sweep' = IF next = "over" THEN "close" ELSE next
    BY <1>5 DEF SweepSaves
  <2>1. UNCHANGED <<registered, ended, disposed, conns, fin>> /\ sweep # "no"
    BY <1>5 DEF SweepSaves
  <2>2. FinalPass' => at' \in {"check", "write", "read"}
    <3>1. CASE next = "saving"
      BY <3>1 DEF LastSave, LastSaveResumes, StartPass
    <3>2. CASE next # "saving"
      <4>1. (FinalPass' => FinalPass) /\ UNCHANGED lock
        BY <2>1, <3>2 DEF FinalPass, LastSave, LastSaveResumes
      <4> QED
        BY <4>1
    <3> QED
      BY <3>1, <3>2
  <2>3. ~disposed /\ finalSaved => finalSaved'
    BY DEF LastSave, LastSaveResumes
  <2> QED
    BY <2>1, <2>2, <2>3 DEF Attended
<1>6. ASSUME NEW c \in Conns, DisposeIfEmpty(c) PROVE CourseOfRoom'
  <2>1. /\ UNCHANGED <<at, conns, sweep, finalSaved>>
        /\ registered' => registered
        /\ disposed => disposed'
        /\ disposed' \/ UNCHANGED <<ended, disposed>>
        /\ disposed' = disposed => ended' = ended
        /\ \A d \in Conns : fin'[d] # fin[d] => d = c /\ fin'[d] = "no"
        /\ fin[c] = "dispose"
    BY <1>6 DEF DisposeIfEmpty, TypeOK, TaskTypes
  <2>2. (FinalPass' => FinalPass) /\ (Attended => Attended')
    BY <2>1 DEF FinalPass, Attended
  <2> QED
    BY <2>1, <2>2
<1>7. CASE SweepStarts \/ SweepCloses \/ Replace \/ Poison
  BY <1>7 DEF SweepStarts, SweepCloses, Replace, Poison, Free, FinalPass, Attended
<1>8. CASE \/ AgentReads \/ AgentRefused \/ Absorb \/ IndexSync
           \/ \E c \in Conns, l \in Lines, v \in Values : Type(c, l, v)
           \/ \E l \in Lines, v \in Values : AgentComposes(l, v)
           \/ \E f \in Stored : OutsideChange(f)
  <2>1. UNCHANGED <<registered, ended, disposed, finalSaved, conns, fin, sweep, at>>
    BY <1>8 DEF AgentReads, AgentRefused, Absorb, IndexSync, Type, AgentComposes,
                OutsideChange
  <2> QED
    BY <2>1 DEF FinalPass, Attended
<1> QED
  BY <1>1, <1>2, <1>3, <1>4, <1>5, <1>6, <1>7, <1>8 DEF Next, Finish, SweepStep

\* A room that ended because it emptied or was swept has saved its text or the
\* server has kept it, whoever joined, typed, left and saved in between.
THEOREM LostTheorem == Spec => []NothingLost
<1>1. Init => LostInv
  BY DEF Init, LostInv, CourseOfRoom, Owed, AllDone, FinalPass, Attended
<1>2. TypeOK /\ LostInv /\ [Next]_vars => LostInv'
  <2>1. ASSUME LostInv, UNCHANGED vars PROVE LostInv'
    BY <2>1 DEF LostInv, CourseOfRoom, Owed, AllDone, FinalPass, Attended, Accounted,
                UnsavedIsKept, Excused, vars, text, status, lock, life, tasks
  <2>2. ASSUME TypeOK, LostInv, Next PROVE LostInv'
    BY <2>2, CourseStep, OwedStands, OwedArises DEF LostInv
  <2> QED
    BY <2>1, <2>2
<1>3. LostInv => NothingLost
  BY DEF LostInv, NothingLost, Owed, Excused
<1> QED
  BY <1>1, <1>2, <1>3, TypeCorrect, PTL DEF Spec
-----------------------------------------------------------------------------
(***************************************************************************)
(* What a compose and an ended room may never do.                          *)
(***************************************************************************)
\* A set of lines with one member at most has at most one element.
LEMMA OneLine ==
    ASSUME NEW S, NEW l, S \subseteq {l}
    PROVE  Cardinality(S) <= 1
<1>1. CASE S = {}
  <2>1. Cardinality(S) = 0
    BY <1>1, FS_EmptySet
  <2> QED
    BY <2>1
<1>2. CASE S = {l}
  <2>1. Cardinality(S) = 1
    BY <1>2, FS_Singleton
  <2> QED
    BY <2>1
<1> QED
  BY <1>1, <1>2

\* An agent's edit changes the one line it is about, respells the others at
\* most, and reverts nobody's typing.
THEOREM ComposeTheorem == Spec => ComposeTouchesItsLine
<1> DEFINE Touched == {l \in Lines : doc'[l] \notin {doc[l], Canon(doc)[l]}}
<1>1. ASSUME TypeOK, Next, agent # Absent, agent' = Absent
      PROVE  Cardinality(Touched) <= 1
  <2>1. CASE AgentRefused
    <3>1. Touched = {}
      BY <2>1 DEF AgentRefused, text
    <3> QED
      BY <3>1, FS_EmptySet
  <2>2. ASSUME NEW m \in Lines, NEW v \in Values, AgentComposes(m, v)
        PROVE  Cardinality(Touched) <= 1
    <3>1. doc' = Canon([doc EXCEPT ![m] = v]) /\ doc \in Text
      BY <1>1, <2>2 DEF AgentComposes, Composable, TypeOK, TextTypes
    <3>2. \A l \in Lines \ {m} : doc'[l] = Canon(doc)[l]
      BY <3>1, CanonAt DEF Text
    <3>3. Touched \subseteq {m}
      BY <3>2
    <3> QED
      BY <3>3, OneLine
  <2>3. ~SaveStep /\ ~SaverStep /\ ~Restore
    BY <1>1 DEF SaveStep, CheckOver, CheckClean, CheckChanged, CheckFails,
      WriteFails, WriteMissing, WriteStale, WriteLands, ReadMissing, ReadFails,
      ReadCollides, ReadMerges, SaverStep, SaverDue, SaverDisarms, SaverProbes,
      SaverResumes, Restore, RestoreLands, RestoreFails
  <2>4. \A c \in Conns : ~Socket(c) /\ ~Finish(c)
    BY <1>1 DEF Socket, Join, Answer, Flush, Leave, Resolve, ResolveEditMine,
      ResolveEditTheirs, ResolveDeletedMine, ResolveDeletedTheirs, Finish,
      FinishSaves, DisposeIfEmpty
  <2>5. ~(SweepStarts \/ SweepStep \/ Poison \/ Replace \/ AgentReads \/ Absorb \/ IndexSync)
    BY <1>1 DEF SweepStarts, SweepStep, SweepSaves, SweepCloses, Poison, Replace,
      AgentReads, Absorb, IndexSync
  <2>6. /\ \A c \in Conns, l \in Lines, v \in Values : ~Type(c, l, v)
        /\ \A f \in Stored : ~OutsideChange(f)
    BY <1>1 DEF Type, OutsideChange
  <2> QED
    BY <1>1, <2>1, <2>2, <2>3, <2>4, <2>5, <2>6 DEF Next
<1>2. TypeOK /\ [Next]_vars
        => [agent # Absent /\ agent' = Absent => Cardinality(Touched) <= 1]_vars
  BY <1>1
<1> QED
  BY <1>2, TypeCorrect, PTL DEF Spec, ComposeTouchesItsLine

\* A room that is over begins no write: only one already writing may land.
THEOREM OverTheorem == Spec => OverStartsNoSave
<1>1. ASSUME Next, disposed, at # "write" PROVE at' # "write"
  <2>1. CASE SaveStep
    BY <1>1, <2>1 DEF SaveStep, CheckOver, CheckClean, CheckChanged, CheckFails,
      WriteFails, WriteMissing, WriteStale, WriteLands, ReadMissing, ReadFails,
      ReadCollides, ReadMerges, FailSave, Release
  <2>2. CASE SaverStep \/ Restore
    BY <1>1, <2>2 DEF SaverStep, SaverDue, SaverDisarms, SaverProbes, SaverResumes,
      Ticks, Restore, RestoreLands, RestoreFails, StartPass, lock
  <2>3. ASSUME NEW c \in Conns, Socket(c) \/ Finish(c) PROVE at' # "write"
    BY <1>1, <2>3 DEF Socket, Join, Answer, Flush, Leave, Resolve, ResolveEditMine,
      ResolveEditTheirs, ResolveDeletedMine, ResolveDeletedTheirs, Finish,
      FinishSaves, DisposeIfEmpty, LastSave, LastSaveResumes, StartPass, lock
  <2>4. CASE SweepStarts \/ SweepStep \/ Poison \/ Replace
    BY <1>1, <2>4 DEF SweepStarts, SweepStep, SweepSaves, SweepCloses, Poison,
      Replace, LastSave, LastSaveResumes, StartPass, lock
  <2>5. CASE \/ AgentReads \/ AgentRefused \/ Absorb \/ IndexSync
             \/ \E c \in Conns, l \in Lines, v \in Values : Type(c, l, v)
             \/ \E l \in Lines, v \in Values : AgentComposes(l, v)
             \/ \E f \in Stored : OutsideChange(f)
    BY <1>1, <2>5 DEF AgentReads, AgentRefused, Absorb, IndexSync, Type,
      AgentComposes, OutsideChange, lock
  <2> QED
    BY <1>1, <2>1, <2>2, <2>3, <2>4, <2>5 DEF Next
<1>2. [Next]_vars => [disposed /\ at # "write" => at' # "write"]_vars
  BY <1>1
<1> QED
  BY <1>2, PTL DEF Spec, OverStartsNoSave
=============================================================================
