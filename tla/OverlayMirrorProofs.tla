-------------------------- MODULE OverlayMirrorProofs --------------------------
(***************************************************************************)
(* For any paths, texts and calls, and any number of failures, crashes,    *)
(* rebuilds and pulls: a draft stands as it was last answered.             *)
(*                                                                         *)
(* The argument looks at one path and at one call at a time.  While no     *)
(* call is at a path, what is there fits what its observers allow.  A call *)
(* under way is a number of writes and how far it is in the first: of each *)
(* path it writes, that says which of the row, the file and the sidecar    *)
(* are as it found them, and the observers allow for both ends of it from  *)
(* its first step on.  A path where two calls overlapped says nothing.     *)
(***************************************************************************)
EXTENDS OverlayMirror, TLAPS

Values == Texts \cup {Tomb, None}

-----------------------------------------------------------------------------
(***************************************************************************)
(* What is at a path, and what a call may have done of it.                 *)
(***************************************************************************)
Place(p) == [row |-> row[p], file |-> file[p],
             side |-> IF p \in side THEN Tomb ELSE None]

\* What the mirror of a place says.
Shows(x) == IF x.file # None THEN x.file ELSE x.side

\* The place is what the answers so far allow, and a mirror without a row is
\* a decision that a restore may bring back.
Fits(x, toldHere, keptHere) ==
    /\ x.row \in toldHere
    /\ Shows(x) \in keptHere
    /\ toldHere \subseteq keptHere \cup {None}
    /\ x.row = None => Shows(x) \in toldHere \cup {None}

\* A path that a call has not written yet.
Untouched(k, p, x) ==
    /\ x.row \in k.was.told[p]
    /\ Shows(x) \in k.was.kept[p]
    /\ x.row = None => Shows(x) \in k.was.told[p] \cup {None}

\* A path where v was written, all but a mirror that its answer warns of.
Holds(k, p, x, v) ==
    /\ x.row = v
    /\ p \notin k.behind => Shows(x) = v
    /\ x.row = None => Shows(x) = None

Written(k, p, x) == Holds(k, p, x, k.does[p])

\* The path of the write under way.
Under(k, x) ==
    LET p == Head(k.writes).path
        v == Head(k.writes).value
    IN  /\ k.at = 1 => IF k.over = "done" THEN Untouched(k, p, x) ELSE Written(k, p, x)
        /\ v = None => /\ x.row # None
                       /\ k.over = "done" => x.row \in k.was.told[p]
                       /\ k.at > 1 => x.side = None
                       /\ k.at > 2 => x.file = None
        /\ v # None => /\ k.at > 1 => x.row = v
                       /\ k.at > 2 => x.file = IF v = Tomb THEN None ELSE v

Progress(k, p, x) ==
    IF p = Head(k.writes).path THEN Under(k, x)
    ELSE IF Len(k.writes) = 1 /\ k.over = "done" THEN Written(k, p, x)
    ELSE Untouched(k, p, x)

\* The observers allow for both ends of a call.
Remembers(k, p, toldHere, keptHere) ==
    /\ k.was.told[p] \cup {k.does[p]} \subseteq toldHere
    /\ k.was.kept[p] \cup Tried(k.does[p]) \subseteq keptHere
    /\ k.was.told[p] \subseteq k.was.kept[p] \cup {None}
    /\ k.undo # <<>> /\ p = k.undo[1].path => k.undo[1].value \in k.was.told[p]

-----------------------------------------------------------------------------
(***************************************************************************)
(* The shapes of a call: one write, or two of which the first can be put   *)
(* back.                                                                   *)
(***************************************************************************)
Fields == {"writes", "at", "undo", "does", "holds", "was", "behind", "over"}

IsCall(k) == k = [f \in Fields |-> k[f]]

OneWrite(k, p, v) ==
    /\ k.undo = <<>> /\ k.over = "done"
    /\ k.writes = <<To(p, v)>>
    /\ DOMAIN k.does = {p} /\ k.does[p] = v

\* d takes the decision at p away, t is the text at q, u is put back at p.
TwoWrites(k, p, q, d, t, u) ==
    /\ p # q /\ DOMAIN k.does = {p, q}
    /\ k.does[p] = d /\ k.does[q] = t
    /\ k.undo = <<To(p, u)>>
    /\ \/ k.over = "done" /\ k.writes = <<To(p, d), To(q, t)>>
       \/ k.over = "done" /\ k.writes = <<To(q, t)>>
       \/ k.over = "refused" /\ k.writes = <<To(p, u)>>

Shape(k) ==
    /\ k.at \in 1..3
    /\ \/ \E p \in Paths, v \in Values : OneWrite(k, p, v)
       \/ \E p, q \in Paths, d \in {Tomb, None}, t \in Texts, u \in Texts \cup {None} :
             (u = None => d = Tomb) /\ TwoWrites(k, p, q, d, t, u)

-----------------------------------------------------------------------------
(***************************************************************************)
(* The invariant.                                                          *)
(***************************************************************************)
Typed ==
    /\ base \in [Paths -> Texts \cup {None}]
    /\ row \in [Paths -> Values]
    /\ file \in [Paths -> Texts \cup {None}]
    /\ side \subseteq Paths
    /\ DOMAIN pass \subseteq Paths
    /\ \A p \in DOMAIN pass : pass[p] \in Texts \cup {Tomb}

CallsShaped ==
    /\ call = [c \in Calls |-> call[c]]
    /\ \A c \in Calls : /\ IsCall(call[c])
                        /\ call[c] = Idle \/ Shape(call[c])

\* Two calls at one path make it a raced one.
Apart == \A c, d \in Running : c # d => PathsOf(c) \cap PathsOf(d) \subseteq raced

\* What a restore has read and may still put back is what the mirror says.
PassTrue(p) == Place(p).row = None /\ p \in DOMAIN pass => pass[p] = Shows(Place(p))

PathTrue(p) == Fits(Place(p), told[p], kept[p]) /\ PassTrue(p)

CallTrue(c) ==
    \A p \in PathsOf(c) \ raced :
        /\ Remembers(call[c], p, told[p], kept[p])
        /\ Progress(call[c], p, Place(p))

MirrorInv ==
    /\ Typed /\ CallsShaped /\ Apart
    /\ \A p \in Paths \ raced : PathTrue(p)
    /\ \A c \in Running : CallTrue(c)

-----------------------------------------------------------------------------
(***************************************************************************)
(* Lemmas about places and calls.                                          *)
(***************************************************************************)
LEMMA MirrorShows == ASSUME NEW p \in Paths PROVE Mirror(p) = Shows(Place(p))
BY OverlayAssumption DEF Mirror, Shows, Place

\* A running call has something to write, and an idle one is not running.
LEMMA RunningShaped ==
    ASSUME CallsShaped, NEW c \in Running
    PROVE  c \in Calls /\ IsCall(call[c]) /\ Shape(call[c])
BY DEF Running, CallsShaped, Idle

\* The write under way, and what is left after it.
LEMMA ShapeFacts ==
    ASSUME NEW k, Shape(k)
    PROVE  /\ k.writes # <<>> /\ Len(k.writes) \in {1, 2} /\ k.at \in 1..3
           /\ k.over \in {"done", "refused"}
           /\ DOMAIN k.does \subseteq Paths
           /\ Head(k.writes).path \in DOMAIN k.does
           /\ Head(k.writes).value \in Values
           /\ k.over = "done" => Head(k.writes).value = k.does[Head(k.writes).path]
<1>1. ASSUME NEW p \in Paths, NEW v \in Values, OneWrite(k, p, v)
      PROVE  /\ k.writes # <<>> /\ Len(k.writes) = 1 /\ k.over = "done"
             /\ Head(k.writes) = To(p, v)
  BY <1>1 DEF OneWrite
<1>2. ASSUME NEW p \in Paths, NEW q \in Paths, NEW d \in {Tomb, None}, NEW t \in Texts,
             NEW u \in Texts \cup {None}, TwoWrites(k, p, q, d, t, u)
      PROVE  /\ k.writes # <<>> /\ Len(k.writes) \in {1, 2} /\ k.over \in {"done", "refused"}
             /\ \/ k.over = "done" /\ Head(k.writes) = To(p, d)
                \/ k.over = "done" /\ Head(k.writes) = To(q, t)
                \/ k.over = "refused" /\ Head(k.writes) = To(p, u)
  <2>1. CASE k.over = "done" /\ k.writes = <<To(p, d), To(q, t)>>
    BY <2>1
  <2>2. CASE k.over = "done" /\ k.writes = <<To(q, t)>>
    BY <2>2
  <2>3. CASE k.over = "refused" /\ k.writes = <<To(p, u)>>
    BY <2>3
  <2> QED
    BY <1>2, <2>1, <2>2, <2>3 DEF TwoWrites
<1>3. ASSUME NEW p, NEW v PROVE To(p, v).path = p /\ To(p, v).value = v
  BY DEF To
<1> QED
  BY <1>1, <1>2, <1>3 DEF Shape, OneWrite, TwoWrites, Values

\* A refusal that is under way puts something back.
LEMMA RefusedFacts ==
    ASSUME NEW k, Shape(k), k.over = "refused"
    PROVE  /\ Len(k.writes) = 1 /\ k.undo # <<>> /\ k.writes = k.undo
           /\ Head(k.writes) = k.undo[1]
           /\ Head(k.writes).value \in Texts \cup {None}
           /\ k.does[Head(k.writes).path] \in {Tomb, None}
           /\ Head(k.writes).value = None => k.does[Head(k.writes).path] = Tomb
<1>1. PICK p \in Paths, q \in Paths, d \in {Tomb, None}, t \in Texts,
           u \in Texts \cup {None} : (u = None => d = Tomb) /\ TwoWrites(k, p, q, d, t, u)
  BY DEF Shape, OneWrite
<1>2. k.writes = <<To(p, u)>> /\ k.undo = <<To(p, u)>>
  BY <1>1 DEF TwoWrites
<1>3. Head(k.writes) = To(p, u) /\ Len(k.writes) = 1 /\ k.undo[1] = To(p, u)
  BY <1>2
<1>4. To(p, u).path = p /\ To(p, u).value = u
  BY DEF To
<1> QED
  BY <1>1, <1>2, <1>3, <1>4 DEF TwoWrites

\* A write that is the only one.
LEMMA SoloFacts ==
    ASSUME NEW k, Shape(k), k.over = "done", Len(k.writes) = 1, k.undo = <<>>
    PROVE  DOMAIN k.does = {Head(k.writes).path}
<1>1. PICK p \in Paths, v \in Values : OneWrite(k, p, v)
  BY DEF Shape, TwoWrites
<1>2. Head(k.writes) = To(p, v)
  BY <1>1 DEF OneWrite
<1> QED
  BY <1>1, <1>2 DEF OneWrite, To

\* The second write of two.
LEMMA SecondFacts ==
    ASSUME NEW k, Shape(k), k.over = "done", k.undo # <<>>, Len(k.writes) = 1
    PROVE  /\ Head(k.writes).value \in Texts
           /\ \E p \in Paths : k.undo[1].path = p /\ p # Head(k.writes).path
                               /\ DOMAIN k.does = {p, Head(k.writes).path}
<1>1. PICK p \in Paths, q \in Paths, d \in {Tomb, None}, t \in Texts,
           u \in Texts \cup {None} : (u = None => d = Tomb) /\ TwoWrites(k, p, q, d, t, u)
  BY DEF Shape, OneWrite
<1>2. k.writes = <<To(q, t)>> /\ k.undo = <<To(p, u)>>
  <2>1. k.writes # <<To(p, d), To(q, t)>>
    <3>1. Len(<<To(p, d), To(q, t)>>) = 2
      OBVIOUS
    <3> QED
      BY <3>1
  <2> QED
    BY <1>1, <2>1 DEF TwoWrites
<1>3. Head(k.writes) = To(q, t) /\ k.undo[1] = To(p, u)
  BY <1>2
<1>4. To(q, t).path = q /\ To(q, t).value = t /\ To(p, u).path = p
  BY DEF To
<1> QED
  BY <1>1, <1>3, <1>4 DEF TwoWrites

\* A call goes on to the rest of its write, or is told its mirror lags.
LEMMA SameShape ==
    ASSUME NEW k, Shape(k), NEW j, j.writes = k.writes, j.undo = k.undo,
           j.does = k.does, j.over = k.over, j.at \in 1..3
    PROVE  Shape(j)
BY DEF Shape, OneWrite, TwoWrites

\* A call goes on to its second write.
LEMMA ShapeNext ==
    ASSUME NEW k, IsCall(k), Shape(k), Len(k.writes) # 1
    PROVE  LET j == [k EXCEPT !.writes = Tail(@), !.at = 1] IN
           /\ IsCall(j) /\ Shape(j)
           /\ k.over = "done" /\ Len(j.writes) = 1
           /\ Head(j.writes).path # Head(k.writes).path
           /\ DOMAIN k.does = {Head(k.writes).path, Head(j.writes).path}
           /\ Head(j.writes).value \in Texts
<1>0. \A w : Len(<<w>>) = 1
  OBVIOUS
<1>1. PICK p \in Paths, q \in Paths, d \in {Tomb, None}, t \in Texts,
           u \in Texts \cup {None} : (u = None => d = Tomb) /\ TwoWrites(k, p, q, d, t, u)
  BY <1>0 DEF Shape, OneWrite
<1>2. k.over = "done" /\ k.writes = <<To(p, d), To(q, t)>>
  BY <1>0, <1>1 DEF TwoWrites
<1>3. Head(k.writes) = To(p, d) /\ Tail(k.writes) = <<To(q, t)>>
  BY <1>2
<1>4. To(p, d).path = p /\ To(q, t).path = q /\ To(q, t).value = t
  BY DEF To
<1> DEFINE j == [k EXCEPT !.writes = Tail(@), !.at = 1]
<1>5. /\ IsCall(j) /\ j.writes = <<To(q, t)>> /\ j.at = 1 /\ j.over = "done"
      /\ j.does = k.does /\ j.undo = k.undo
  BY <1>2, <1>3 DEF IsCall, Fields
<1>6. Head(j.writes) = To(q, t) /\ Len(j.writes) = 1
  <2>1. j.writes = <<To(q, t)>>
    BY <1>5
  <2> HIDE DEF j
  <2> QED
    BY <2>1
<1>7. TwoWrites(j, p, q, d, t, u)
  BY <1>1, <1>5 DEF TwoWrites
<1>8. Shape(j)
  BY <1>1, <1>5, <1>7 DEF Shape
<1> HIDE DEF j
<1>9. /\ IsCall(j) /\ Shape(j) /\ k.over = "done" /\ Len(j.writes) = 1
      /\ Head(j.writes).path # Head(k.writes).path
      /\ DOMAIN k.does = {Head(k.writes).path, Head(j.writes).path}
      /\ Head(j.writes).value \in Texts
  BY <1>1, <1>2, <1>3, <1>4, <1>5, <1>6, <1>8 DEF TwoWrites
<1> QED
  BY <1>9 DEF j

\* A call puts its first write back.
LEMMA ShapeUndo ==
    ASSUME NEW k, IsCall(k), Shape(k), Len(k.writes) = 1, k.undo # <<>>, k.over = "done"
    PROVE  LET j == [k EXCEPT !.writes = k.undo, !.at = 1, !.over = "refused"] IN
           IsCall(j) /\ Shape(j)
<1>1. PICK p \in Paths, q \in Paths, d \in {Tomb, None}, t \in Texts,
           u \in Texts \cup {None} : (u = None => d = Tomb) /\ TwoWrites(k, p, q, d, t, u)
  BY DEF Shape, OneWrite
<1> DEFINE j == [k EXCEPT !.writes = k.undo, !.at = 1, !.over = "refused"]
<1>2. /\ IsCall(j) /\ j.writes = k.undo /\ j.at = 1 /\ j.over = "refused"
      /\ j.does = k.does /\ j.undo = k.undo
  BY DEF IsCall, Fields
<1>3. TwoWrites(j, p, q, d, t, u)
  BY <1>1, <1>2 DEF TwoWrites
<1> QED
  BY <1>1, <1>2, <1>3 DEF Shape

\* Calls that differ in the number of the step, and in mirrors that lag
\* elsewhere, know the same of a path they do not write.
LEMMA OtherPath ==
    ASSUME NEW k, NEW j, NEW p, NEW x, p # Head(k.writes).path, Progress(k, p, x),
           j.writes = k.writes, j.over = k.over, j.does = k.does, j.was = k.was,
           p \in j.behind <=> p \in k.behind
    PROVE  Progress(j, p, x)
BY DEF Progress, Written, Untouched, Holds

LEMMA OtherRemembers ==
    ASSUME NEW k, NEW j, NEW p, NEW T, NEW K, Remembers(k, p, T, K),
           j.was = k.was, j.does = k.does, j.undo = k.undo
    PROVE  Remembers(j, p, T, K)
BY DEF Remembers

-----------------------------------------------------------------------------
(***************************************************************************)
(* A step of a call: what is to show of it is about its own paths.         *)
(***************************************************************************)
\* Call c becomes k, and writes at p at most.
StepsTo(c, k, p) ==
    /\ c \in Running /\ p \in PathsOf(c)
    /\ call' = [call EXCEPT ![c] = k]
    /\ raced' = raced
    /\ \A o \in Paths \ {p} : Place(o)' = Place(o)
    /\ \A o \in Paths \ PathsOf(c) : told'[o] = told[o] /\ kept'[o] = kept[o]

LEMMA StepKeepsInv ==
    ASSUME MirrorInv, NEW c, NEW k, NEW p, StepsTo(c, k, p), Typed',
           IsCall(k), k = Idle \/ (Shape(k) /\ k.does = call[c].does),
           \A o \in Paths \ raced : PassTrue(o)',
           \A o \in PathsOf(c) \ raced : Fits(Place(o)', told'[o], kept'[o]),
           k # Idle => \A o \in PathsOf(c) \ raced :
               Remembers(k, o, told'[o], kept'[o]) /\ Progress(k, o, Place(o)')
    PROVE  MirrorInv'
<1> USE DEF StepsTo
<1>1. c \in Calls /\ Shape(call[c]) /\ PathsOf(c) \subseteq Paths /\ CallsShaped
  BY RunningShaped, ShapeFacts DEF MirrorInv, PathsOf
<1>2. call'[c] = k /\ \A d \in Calls \ {c} : call'[d] = call[d]
  BY <1>1 DEF CallsShaped
<1>3. CallsShaped'
  <2>1. call' = [d \in Calls |-> call'[d]]
    BY <1>1 DEF CallsShaped
  <2>2. \A d \in Calls : IsCall(call'[d]) /\ (call'[d] = Idle \/ Shape(call'[d]))
    BY <1>1, <1>2 DEF CallsShaped
  <2> QED
    BY <2>1, <2>2 DEF CallsShaped
<1>4. \A d \in Running' : /\ d \in Running
                          /\ d # c => call'[d] = call[d]
                          /\ d = c => k # Idle
                          /\ PathsOf(d)' = PathsOf(d)
  BY <1>1, <1>2 DEF Running, PathsOf, Idle
<1>5. Apart'
  BY <1>4 DEF MirrorInv, Apart
<1>6. \A o \in Paths \ raced' : PathTrue(o)'
  <2>1. ASSUME NEW o \in (Paths \ raced) \ PathsOf(c) PROVE Fits(Place(o)', told'[o], kept'[o])
    BY <2>1 DEF MirrorInv, PathTrue
  <2> QED
    BY <2>1 DEF PathTrue
<1>7. \A d \in Running' : CallTrue(d)'
  <2>1. ASSUME NEW d \in Running', d # c, NEW o \in PathsOf(d) \ raced
        PROVE  Remembers(call[d], o, told'[o], kept'[o]) /\ Progress(call[d], o, Place(o)')
    <3>1. d \in Running /\ o \notin PathsOf(c)
      BY <1>4, <2>1 DEF MirrorInv, Apart
    <3>2. o \in Paths
      BY <1>1, <3>1, RunningShaped, ShapeFacts DEF PathsOf
    <3> QED
      BY <2>1, <3>1, <3>2 DEF MirrorInv, CallTrue
  <2> QED
    BY <1>2, <1>4, <2>1 DEF CallTrue
<1> QED
  BY <1>3, <1>5, <1>6, <1>7 DEF MirrorInv

\* What an answer says of a path that was written, and of one that was not.
LEMMA DoneFits ==
    ASSUME NEW k, NEW p, NEW x, NEW T, NEW K, Fits(x, T, K), Remembers(k, p, T, K),
           Holds(k, p, x, k.does[p])
    PROVE  Fits(x, {k.does[p]}, IF p \in k.behind THEN K ELSE {k.does[p]})
BY DEF Fits, Remembers, Holds, Tried

LEMMA RefusedFits ==
    ASSUME NEW k, NEW p, NEW x, NEW T, NEW K, Fits(x, T, K), Remembers(k, p, T, K),
           x.row \in k.was.told[p],
           p \notin k.behind => Shows(x) \in k.was.kept[p] \cup (k.was.told[p] \cap {None}),
           x.row = None => Shows(x) \in k.was.told[p] \cup {None}
    PROVE  Fits(x, k.was.told[p], IF p \in k.behind THEN K
                                  ELSE k.was.kept[p] \cup (k.was.told[p] \cap {None}))
<1>1. CASE p \in k.behind
  BY <1>1 DEF Fits, Remembers
<1>2. CASE p \notin k.behind
  BY <1>2 DEF Fits, Remembers
<1> QED
  BY <1>1, <1>2

\* The end of a call leaves what its answer said of a path, or what could be
\* at it all along.
LEMMA AnswerKeepsInv ==
    ASSUME MirrorInv, NEW c, NEW k, NEW p, NEW over \in {"done", "refused", "torn"},
           StepsTo(c, Idle, p), Answer(c, k, over), Typed',
           k.does = call[c].does, k.was = call[c].was, k.undo = call[c].undo,
           \A o \in Paths \ raced : PassTrue(o)',
           \A o \in PathsOf(c) \ raced :
               /\ Fits(Place(o)', told[o], kept[o])
               /\ over = "done" => Written(k, o, Place(o)')
               /\ over = "refused" =>
                    /\ Place(o)'.row \in k.was.told[o]
                    /\ o \notin k.behind => Shows(Place(o)') \in k.was.kept[o] \cup (k.was.told[o] \cap {None})
                    /\ Place(o)'.row = None => Shows(Place(o)') \in k.was.told[o] \cup {None}
    PROVE  MirrorInv'
<1>1. CallsShaped /\ c \in Running /\ PathsOf(c) = DOMAIN k.does
  BY DEF MirrorInv, StepsTo, PathsOf
<1>2. PathsOf(c) \subseteq Paths
  BY <1>1, RunningShaped, ShapeFacts DEF PathsOf
<1>3. \A o \in PathsOf(c) \ raced : Remembers(call[c], o, told[o], kept[o])
  BY <1>1 DEF MirrorInv, CallTrue
<1>4. ASSUME NEW o \in PathsOf(c) \ raced
      PROVE  Fits(Place(o)', told'[o], kept'[o])
  <2>1. /\ told'[o] = IF over = "torn" THEN told[o]
                      ELSE IF over = "done" THEN {k.does[o]} ELSE k.was.told[o]
        /\ kept'[o] = IF over = "torn" \/ o \in k.behind THEN kept[o]
                      ELSE IF over = "done" THEN {k.does[o]}
                      ELSE k.was.kept[o] \cup (k.was.told[o] \cap {None})
    BY <1>1, <1>2, <1>4 DEF Answer
  <2>2. Remembers(k, o, told[o], kept[o]) /\ Fits(Place(o)', told[o], kept[o])
    BY <1>3, <1>4 DEF Remembers
  <2>3. CASE over = "torn"
    BY <2>1, <2>2, <2>3
  <2>4. CASE over = "refused"
    <3>1. /\ told'[o] = k.was.told[o]
          /\ kept'[o] = IF o \in k.behind THEN kept[o]
                        ELSE k.was.kept[o] \cup (k.was.told[o] \cap {None})
      BY <2>1, <2>4
    <3>2. Fits(Place(o)', k.was.told[o],
               IF o \in k.behind THEN kept[o]
               ELSE k.was.kept[o] \cup (k.was.told[o] \cap {None}))
      BY <2>2, <2>4, <1>4, RefusedFits
    <3> QED
      BY <3>1, <3>2
  <2>5. CASE over = "done"
    <3>1. /\ told'[o] = {k.does[o]}
          /\ kept'[o] = IF o \in k.behind THEN kept[o] ELSE {k.does[o]}
      BY <2>1, <2>5
    <3>2. Holds(k, o, Place(o)', k.does[o])
      BY <2>5, <1>4 DEF Written
    <3>3. Fits(Place(o)', {k.does[o]}, IF o \in k.behind THEN kept[o] ELSE {k.does[o]})
      BY <2>2, <3>2, DoneFits
    <3> QED
      BY <3>1, <3>3
  <2> QED
    BY <2>3, <2>4, <2>5
<1>5. IsCall(Idle)
  BY DEF IsCall, Fields, Idle
<1> QED
  BY <1>4, <1>5, StepKeepsInv

\* What is known of the path a running call writes next.
LEMMA AtWork ==
    ASSUME MirrorInv, NEW c \in Running
    PROVE  /\ c \in Calls /\ IsCall(call[c]) /\ Shape(call[c])
           /\ PathsOf(c) = DOMAIN call[c].does /\ PathsOf(c) \subseteq Paths
           /\ Doing(c).path \in PathsOf(c)
           /\ Doing(c).path \notin raced =>
                /\ Under(call[c], Place(Doing(c).path))
                /\ PathTrue(Doing(c).path)
                /\ Remembers(call[c], Doing(c).path, told[Doing(c).path], kept[Doing(c).path])
<1>1. c \in Calls /\ IsCall(call[c]) /\ Shape(call[c])
  BY RunningShaped DEF MirrorInv
<1>2. /\ PathsOf(c) = DOMAIN call[c].does /\ PathsOf(c) \subseteq Paths
      /\ Doing(c).path \in PathsOf(c)
  BY <1>1, ShapeFacts DEF PathsOf, Doing
<1>3. CASE Doing(c).path \notin raced
  <2>1. CallTrue(c) /\ PathTrue(Doing(c).path)
    BY <1>2, <1>3 DEF MirrorInv
  <2> QED
    BY <1>1, <1>2, <1>3, <2>1 DEF CallTrue, Progress, Doing
<1> QED
  BY <1>1, <1>2, <1>3

\* The fields of a call whose mirror may lag.
LEMMA LagFields ==
    ASSUME NEW c, IsCall(call[c]), NEW k, k = call[c] \/ k = Behind(c)
    PROVE  /\ IsCall(k)
           /\ k.writes = call[c].writes /\ k.undo = call[c].undo /\ k.at = call[c].at
           /\ k.does = call[c].does /\ k.was = call[c].was /\ k.over = call[c].over
           /\ k.behind = call[c].behind \/ k.behind = call[c].behind \cup {Doing(c).path}
BY DEF Behind, IsCall, Fields

\* Of another path than the one it writes, a call whose mirror lags knows the
\* same.
LEMMA LagElsewhere ==
    ASSUME NEW c, IsCall(call[c]), NEW k, k = call[c] \/ k = Behind(c),
           NEW o, o # Doing(c).path, NEW x, Progress(call[c], o, x)
    PROVE  Progress(k, o, x)
<1>1. /\ k.writes = call[c].writes /\ k.over = call[c].over
      /\ k.does = call[c].does /\ k.was = call[c].was
      /\ o \in k.behind <=> o \in call[c].behind
  BY LagFields
<1>2. o # Head(call[c].writes).path
  BY DEF Doing
<1> QED
  BY <1>1, <1>2 DEF Progress, Written, Untouched, Holds

\* A call goes on with the write under way.
LEMMA GoingOn ==
    ASSUME MirrorInv, NEW c \in Running, NEW p, p = Doing(c).path, NEW k,
           k = [call[c] EXCEPT !.at = @ + 1], call[c].at < 3,
           call' = [call EXCEPT ![c] = k], UNCHANGED <<told, kept, raced, pass>>, Typed',
           \A o \in Paths \ {p} : Place(o)' = Place(o),
           p \notin raced => PathTrue(p)' /\ Under(k, Place(p)')
    PROVE  MirrorInv'
<1>0. CallTrue(c) /\ p = Head(call[c].writes).path
  BY DEF MirrorInv, Doing
<1>1. /\ c \in Calls /\ IsCall(call[c]) /\ Shape(call[c])
      /\ PathsOf(c) \subseteq Paths /\ p \in PathsOf(c)
  BY AtWork
<1>2. call[c].at \in 1..3
  BY <1>1, ShapeFacts
<1>3. /\ IsCall(k) /\ k.at = call[c].at + 1
      /\ k.writes = call[c].writes /\ k.does = call[c].does /\ k.was = call[c].was
      /\ k.undo = call[c].undo /\ k.over = call[c].over /\ k.behind = call[c].behind
  BY <1>1 DEF IsCall, Fields
<1>4. Shape(k)
  <2>1. k.at \in 1..3
    BY <1>2, <1>3
  <2> QED
    BY <1>1, <1>3, <2>1, SameShape
<1>6. StepsTo(c, k, p)
  BY <1>1 DEF StepsTo
<1>7. \A o \in Paths \ raced : PassTrue(o)' /\ Fits(Place(o)', told'[o], kept'[o])
  <2>1. ASSUME NEW o \in Paths \ raced, o # p
        PROVE  PassTrue(o)' /\ Fits(Place(o)', told'[o], kept'[o])
    BY <2>1 DEF MirrorInv, PathTrue, PassTrue
  <2>2. p \notin raced => PassTrue(p)' /\ Fits(Place(p)', told'[p], kept'[p])
    BY DEF PathTrue
  <2> QED
    BY <2>1, <2>2
<1>8. ASSUME NEW o \in PathsOf(c) \ raced
      PROVE  Remembers(k, o, told'[o], kept'[o]) /\ Progress(k, o, Place(o)')
  <2>1. Remembers(k, o, told'[o], kept'[o])
    BY <1>0, <1>3, <1>8, OtherRemembers DEF CallTrue
  <2>2. CASE o = p
    BY <1>0, <1>3, <1>8, <2>1, <2>2 DEF Progress
  <2>3. CASE o # p
    <3>1. Progress(call[c], o, Place(o)') /\ o # Head(call[c].writes).path
      BY <1>0, <1>1, <1>8, <2>3 DEF CallTrue
    <3> QED
      BY <1>3, <2>1, <3>1, OtherPath
  <2> QED
    BY <2>2, <2>3
<1> QED
  BY <1>1, <1>3, <1>4, <1>6, <1>7, <1>8, StepKeepsInv

\* What was put back at a path is as good as what was there.
LEMMA UndoneFits ==
    ASSUME NEW k, NEW p, NEW x, NEW v, NEW T, NEW K, Remembers(k, p, T, K),
           v \in k.was.told[p], Holds(k, p, x, v)
    PROVE  /\ x.row \in k.was.told[p]
           /\ p \notin k.behind => Shows(x) \in k.was.kept[p] \cup (k.was.told[p] \cap {None})
           /\ x.row = None => Shows(x) \in k.was.told[p] \cup {None}
BY DEF Remembers, Holds

\* An untouched path needs nothing.
LEMMA UntouchedFits ==
    ASSUME NEW k, NEW p, NEW x, Untouched(k, p, x)
    PROVE  /\ x.row \in k.was.told[p]
           /\ Shows(x) \in k.was.kept[p] \cup (k.was.told[p] \cap {None})
           /\ x.row = None => Shows(x) \in k.was.told[p] \cup {None}
BY DEF Untouched

\* A call has done with a write: it answers, or goes on to the second one.
LEMMA WriteEnds ==
    ASSUME MirrorInv, NEW c \in Running, NEW k, k = call[c] \/ k = Behind(c),
           NEW p, NEW v, p = Doing(c).path, v = Doing(c).value,
           Advance(c, k, TRUE), Typed',
           \A o \in Paths \ {p} : Place(o)' = Place(o),
           p \notin raced => /\ PassTrue(p)'
                            /\ Fits(Place(p)', told[p], kept[p])
                            /\ Holds(k, p, Place(p)', v)
    PROVE  MirrorInv'
<1>0. CallTrue(c) /\ p = Head(call[c].writes).path /\ v = Head(call[c].writes).value
  BY DEF MirrorInv, Doing
<1>1. /\ c \in Calls /\ IsCall(call[c]) /\ Shape(call[c])
      /\ PathsOf(c) = DOMAIN call[c].does /\ PathsOf(c) \subseteq Paths /\ p \in PathsOf(c)
  BY AtWork
<1>2. UNCHANGED <<pass, raced>>
  BY DEF Advance
<1>3. /\ IsCall(k) /\ k.writes = call[c].writes /\ k.undo = call[c].undo
      /\ k.does = call[c].does /\ k.was = call[c].was /\ k.over = call[c].over
  BY <1>1, LagFields
<1>4. Shape(k)
  BY <1>1, <1>3, LagFields, ShapeFacts, SameShape
<1>5. \A o \in Paths \ raced : PassTrue(o)' /\ Fits(Place(o)', told[o], kept[o])
  <2>1. ASSUME NEW o \in Paths \ raced, o # p
        PROVE  PassTrue(o)' /\ Fits(Place(o)', told[o], kept[o])
    BY <1>2, <2>1 DEF MirrorInv, PathTrue, PassTrue
  <2> QED
    BY <2>1
<1>6. \A o \in PathsOf(c) \ raced :
        /\ Remembers(k, o, told[o], kept[o])
        /\ o # p => Progress(k, o, Place(o)')
        /\ o = p => Holds(k, p, Place(p)', v)
  <2>1. ASSUME NEW o \in PathsOf(c) \ raced
        PROVE  Remembers(k, o, told[o], kept[o]) /\ (o # p => Progress(k, o, Place(o)'))
    <3>1. Remembers(call[c], o, told[o], kept[o]) /\ Progress(call[c], o, Place(o))
      BY <1>0, <2>1 DEF CallTrue
    <3>2. Remembers(k, o, told[o], kept[o])
      BY <1>3, <3>1, OtherRemembers
    <3>3. ASSUME o # p PROVE Progress(k, o, Place(o)')
      <4>1. Place(o)' = Place(o)
        BY <1>1, <2>1, <3>3
      <4> QED
        BY <1>1, <3>1, <3>3, <4>1, LagElsewhere
    <3> QED
      BY <3>2, <3>3
  <2> QED
    BY <2>1
<1>7. CASE Len(k.writes) = 1
  <2>1. Answer(c, k, k.over)
    BY <1>7 DEF Advance
  <2>2. StepsTo(c, Idle, p)
    <3>1. call' = [call EXCEPT ![c] = Idle]
      BY <2>1 DEF Answer
    <3>2. \A o \in Paths \ PathsOf(c) : told'[o] = told[o] /\ kept'[o] = kept[o]
      BY <1>1, <1>3, <2>1 DEF Answer
    <3> QED
      BY <1>1, <1>2, <3>1, <3>2 DEF StepsTo
  <2>3. ASSUME NEW o \in PathsOf(c) \ raced, k.over = "done" PROVE Written(k, o, Place(o)')
    <3>1. CASE o = p
      <4>1. v = k.does[p]
        BY <1>0, <1>3, <1>4, <2>3, ShapeFacts
      <4> QED
        BY <1>6, <2>3, <3>1, <4>1 DEF Written
    <3>2. CASE o # p
      BY <1>0, <1>3, <1>6, <1>7, <2>3, <3>2 DEF Progress
    <3> QED
      BY <3>1, <3>2
  <2>4. ASSUME NEW o \in PathsOf(c) \ raced, k.over = "refused"
        PROVE  /\ Place(o)'.row \in k.was.told[o]
               /\ o \notin k.behind =>
                    Shows(Place(o)') \in k.was.kept[o] \cup (k.was.told[o] \cap {None})
               /\ Place(o)'.row = None => Shows(Place(o)') \in k.was.told[o] \cup {None}
    <3>1. CASE o = p
      <4>1. v \in k.was.told[p] /\ Holds(k, p, Place(p)', v)
        BY <1>0, <1>3, <1>4, <1>6, <2>4, <3>1, RefusedFacts DEF Remembers
      <4> QED
        BY <1>6, <2>4, <3>1, <4>1, UndoneFits
    <3>2. CASE o # p
      <4>1. Untouched(k, o, Place(o)')
        BY <1>0, <1>3, <1>6, <2>4, <3>2 DEF Progress
      <4> QED
        BY <4>1, UntouchedFits
    <3> QED
      BY <3>1, <3>2
  <2>5. k.over \in {"done", "refused", "torn"}
    BY <1>4, ShapeFacts
  <2> QED
    BY <1>1, <1>3, <1>5, <2>1, <2>2, <2>3, <2>4, <2>5, AnswerKeepsInv
<1>8. CASE Len(k.writes) # 1
  <2> DEFINE j == [k EXCEPT !.writes = Tail(@), !.at = 1]
  <2>1. call' = [call EXCEPT ![c] = j] /\ UNCHANGED <<told, kept>>
    BY <1>8 DEF Advance
  <2>2. /\ IsCall(j) /\ Shape(j) /\ k.over = "done" /\ Len(j.writes) = 1
        /\ Head(j.writes).path # p /\ DOMAIN k.does = {p, Head(j.writes).path}
        /\ Head(j.writes).value \in Texts
    BY <1>0, <1>3, <1>4, <1>8, ShapeNext
  <2>3. /\ j.at = 1 /\ j.undo = k.undo /\ j.does = k.does /\ j.was = k.was
        /\ j.over = k.over /\ j.behind = k.behind
    BY <1>3 DEF IsCall, Fields
  <2> HIDE DEF j
  <2>4. StepsTo(c, j, p)
    BY <1>1, <1>2, <2>1 DEF StepsTo
  <2>5. ASSUME NEW o \in PathsOf(c) \ raced
        PROVE  Remembers(j, o, told'[o], kept'[o]) /\ Progress(j, o, Place(o)')
    <3>1. Remembers(j, o, told'[o], kept'[o])
      BY <1>6, <2>1, <2>3, <2>5, OtherRemembers
    <3>2. CASE o = p
      <4>1. Holds(j, p, Place(p)', j.does[p])
        BY <1>0, <1>3, <1>4, <1>6, <2>2, <2>3, <2>5, <3>2, ShapeFacts DEF Holds
      <4> QED
        BY <2>2, <2>3, <3>1, <3>2, <4>1 DEF Progress, Written
    <3>3. CASE o # p
      <4>1. o = Head(j.writes).path
        BY <1>1, <1>3, <2>2, <2>5, <3>3
      <4>2. Untouched(k, o, Place(o)')
        BY <1>0, <1>3, <1>6, <1>8, <2>5, <3>3 DEF Progress
      <4>3. Untouched(j, o, Place(o)')
        BY <2>3, <4>2 DEF Untouched
      <4>4. Under(j, Place(o)')
        BY <2>2, <2>3, <4>1, <4>3, OverlayAssumption DEF Under
      <4> QED
        BY <3>1, <4>1, <4>4 DEF Progress
    <3> QED
      BY <3>2, <3>3
  <2> QED
    BY <1>1, <1>3, <1>5, <2>1, <2>2, <2>3, <2>4, <2>5, StepKeepsInv
<1> QED
  BY <1>7, <1>8

-----------------------------------------------------------------------------
(***************************************************************************)
(* The steps of a write that land.                                         *)
(***************************************************************************)
LEMMA PartFacts ==
    ASSUME MirrorInv, NEW c \in Running
    PROVE  /\ call[c].at \in 1..3
           /\ Part(c) = "row" => IF Doing(c).value = None THEN call[c].at = 3
                                                          ELSE call[c].at = 1
           /\ Part(c) = "file" => call[c].at = 2
           /\ Part(c) = "side" => IF Doing(c).value = None THEN call[c].at = 1
                                                           ELSE call[c].at = 3
           /\ Part(c) \in {"row", "file", "side"}
<1>1. call[c].at \in 1..3
  BY AtWork, ShapeFacts
<1>2. call[c].at = 1 \/ call[c].at = 2 \/ call[c].at = 3
  BY <1>1
<1>3. CASE Doing(c).value = None
  <2>1. Part(c) = <<"side", "file", "row">>[call[c].at]
    BY <1>3 DEF Part, Order
  <2> QED
    BY <1>1, <1>2, <1>3, <2>1
<1>4. CASE Doing(c).value # None
  <2>1. Part(c) = <<"row", "file", "side">>[call[c].at]
    BY <1>4 DEF Part, Order
  <2> QED
    BY <1>1, <1>2, <1>4, <2>1
<1> QED
  BY <1>3, <1>4

\* The observers allow for what a call is about to write.
LEMMA ValueAllowed ==
    ASSUME NEW k, Shape(k), NEW p, NEW T, NEW K, p = Head(k.writes).path,
           Remembers(k, p, T, K)
    PROVE  Head(k.writes).value \in T /\ Tried(Head(k.writes).value) \subseteq K
<1>1. CASE k.over = "done"
  BY <1>1, ShapeFacts DEF Remembers
<1>2. CASE k.over = "refused"
  <2>1. /\ Head(k.writes).value \in k.was.told[p]
        /\ Head(k.writes).value \in Texts \cup {None}
        /\ Head(k.writes).value = None => k.does[p] = Tomb
    BY <1>2, RefusedFacts DEF Remembers
  <2> QED
    BY <2>1, OverlayAssumption DEF Remembers, Tried
<1> QED
  BY <1>1, <1>2, ShapeFacts

LEMMA TypesKept ==
    ASSUME Typed, NEW c \in Running, MirrorInv,
           LandRow(c) \/ LandDraft(c) \/ LandSidecar(c)
    PROVE  Typed'
<1>1. Doing(c).path \in Paths /\ Doing(c).value \in Values
  BY AtWork, ShapeFacts DEF Doing
<1>2. UNCHANGED <<base, pass>>
  BY DEF LandRow, LandDraft, LandSidecar, Lands, Advance
<1>3. CASE LandRow(c)
  BY <1>1, <1>2, <1>3 DEF Typed, LandRow, disk
<1>4. CASE LandDraft(c)
  BY <1>1, <1>2, <1>4 DEF Typed, LandDraft
<1>5. CASE LandSidecar(c)
  BY <1>1, <1>2, <1>5 DEF Typed, LandSidecar
<1> QED
  BY <1>3, <1>4, <1>5

\* What Advance comes to, with a write that is not over yet.
LEMMA NotLast ==
    ASSUME NEW c, Lands(c), call[c].at # 3
    PROVE  /\ call' = [call EXCEPT ![c] = [call[c] EXCEPT !.at = @ + 1]]
           /\ UNCHANGED <<told, kept, raced, pass>>
BY DEF Lands, Advance

LEMMA Last ==
    ASSUME NEW c, Lands(c), call[c].at = 3
    PROVE  Advance(c, call[c], TRUE)
BY DEF Lands, Advance

LEMMA NextStep ==
    ASSUME NEW c, IsCall(call[c]), NEW k, k = [call[c] EXCEPT !.at = @ + 1]
    PROVE  /\ k.at = call[c].at + 1 /\ k.writes = call[c].writes /\ k.over = call[c].over
           /\ k.was = call[c].was
BY DEF IsCall, Fields

LEMMA LandRowKeeps ==
    ASSUME MirrorInv, NEW c \in Running, LandRow(c) PROVE MirrorInv'
<1>1. PICK p, v, k : /\ p = Doing(c).path /\ v = Doing(c).value
                     /\ k = [call[c] EXCEPT !.at = @ + 1]
  OBVIOUS
<1>2. /\ p = Head(call[c].writes).path /\ v = Head(call[c].writes).value
      /\ p \in Paths /\ v \in Values /\ IsCall(call[c]) /\ Shape(call[c])
  BY <1>1, AtWork, ShapeFacts DEF Doing
<1>3. /\ row' = [row EXCEPT ![p] = v] /\ file' = file /\ side' = side
      /\ Lands(c) /\ Part(c) = "row" /\ pass' = pass /\ DOMAIN pass = {}
  BY <1>1 DEF LandRow, Lands, Advance, disk, StoreFree
<1>4. Typed /\ Typed'
  BY TypesKept DEF MirrorInv
<1>5. \A o \in Paths \ {p} : Place(o)' = Place(o)
  BY <1>3, <1>4 DEF Place, Typed
<1>6. Place(p)'.row = v /\ Place(p)'.file = Place(p).file /\ Place(p)'.side = Place(p).side
  BY <1>2, <1>3, <1>4 DEF Place, Typed
<1>7. Shows(Place(p)') = Shows(Place(p))
  BY <1>6 DEF Shows
<1>8. PassTrue(p)'
  BY <1>3 DEF PassTrue
<1>9. ASSUME p \notin raced
      PROVE  /\ Under(call[c], Place(p)) /\ Fits(Place(p), told[p], kept[p]) /\ v \in told[p]
             /\ v # None => Fits(Place(p)', told[p], kept[p])
  <2>1. /\ Under(call[c], Place(p)) /\ Fits(Place(p), told[p], kept[p])
        /\ Remembers(call[c], p, told[p], kept[p])
    BY <1>1, <1>9, AtWork DEF PathTrue
  <2>2. v \in told[p]
    BY <1>2, <2>1, ValueAllowed
  <2> QED
    BY <1>6, <1>7, <2>1, <2>2 DEF Fits
<1>10. CASE v = None
  <2>1. call[c].at = 3
    BY <1>1, <1>3, <1>10, PartFacts
  <2>2. Advance(c, call[c], TRUE)
    BY <1>3, <2>1, Last
  <2>3. ASSUME p \notin raced
        PROVE  Fits(Place(p)', told[p], kept[p]) /\ Holds(call[c], p, Place(p)', v)
    <3>1. Place(p).side = None /\ Place(p).file = None
      BY <1>2, <1>9, <1>10, <2>1, <2>3 DEF Under
    <3>2. Shows(Place(p)) = None
      BY <3>1 DEF Shows
    <3> QED
      BY <1>6, <1>7, <1>9, <1>10, <2>3, <3>2 DEF Fits, Holds
  <2> QED
    BY <1>1, <1>4, <1>5, <1>8, <2>2, <2>3, WriteEnds
<1>11. CASE v # None
  <2>1. call[c].at = 1
    BY <1>1, <1>3, <1>11, PartFacts
  <2>2. /\ call' = [call EXCEPT ![c] = k] /\ UNCHANGED <<told, kept, raced, pass>>
        /\ call[c].at < 3
    BY <1>1, <1>3, <2>1, NotLast
  <2>3. k.at = 2 /\ k.writes = call[c].writes
    BY <1>1, <1>2, <2>1, NextStep
  <2>4. ASSUME p \notin raced PROVE PathTrue(p)' /\ Under(k, Place(p)')
    <3>1. PathTrue(p)'
      BY <1>8, <1>9, <1>11, <2>2, <2>4 DEF PathTrue
    <3>2. Under(k, Place(p)')
      BY <1>2, <1>6, <1>11, <2>3 DEF Under
    <3> QED
      BY <3>1, <3>2
  <2> QED
    BY <1>1, <1>4, <1>5, <2>2, <2>4, GoingOn
<1> QED
  BY <1>10, <1>11

LEMMA LandDraftKeeps ==
    ASSUME MirrorInv, NEW c \in Running, LandDraft(c) PROVE MirrorInv'
<1>1. PICK p, v, k : /\ p = Doing(c).path /\ v = Doing(c).value
                     /\ k = [call[c] EXCEPT !.at = @ + 1]
  OBVIOUS
<1>2. /\ p = Head(call[c].writes).path /\ v = Head(call[c].writes).value
      /\ p \in Paths /\ v \in Values /\ IsCall(call[c]) /\ Shape(call[c])
  BY <1>1, AtWork, ShapeFacts DEF Doing
<1>3. /\ file' = [file EXCEPT ![p] = IF v \in Texts THEN v ELSE None]
      /\ row' = row /\ side' = side /\ Lands(c) /\ Part(c) = "file"
  BY <1>1 DEF LandDraft
<1>4. Typed /\ Typed'
  BY TypesKept DEF MirrorInv
<1>5. \A o \in Paths \ {p} : Place(o)' = Place(o)
  BY <1>3, <1>4 DEF Place, Typed
<1>6. /\ Place(p)'.row = Place(p).row /\ Place(p)'.side = Place(p).side
      /\ Place(p)'.file = IF v \in Texts THEN v ELSE None
      /\ Place(p).side \in {Tomb, None}
  BY <1>2, <1>3, <1>4 DEF Place, Typed
<1>7. call[c].at = 2
  BY <1>1, <1>3, PartFacts
<1>8. /\ call' = [call EXCEPT ![c] = k] /\ UNCHANGED <<told, kept, raced, pass>>
      /\ call[c].at < 3
  BY <1>1, <1>3, <1>7, NotLast
<1>9. k.at = 3 /\ k.writes = call[c].writes /\ k.over = call[c].over /\ k.was = call[c].was
  BY <1>1, <1>2, <1>7, NextStep
<1>10. ASSUME p \notin raced PROVE PathTrue(p)' /\ Under(k, Place(p)')
  <2>1. /\ Under(call[c], Place(p)) /\ Fits(Place(p), told[p], kept[p])
        /\ Remembers(call[c], p, told[p], kept[p])
    BY <1>1, <1>10, AtWork DEF PathTrue
  <2>2. v \in told[p] /\ Tried(v) \subseteq kept[p]
    BY <1>2, <2>1, ValueAllowed
  <2>3. /\ v = None => /\ Place(p).row # None /\ Place(p).side = None
                       /\ call[c].over = "done" => Place(p).row \in call[c].was.told[p]
        /\ v # None => Place(p).row = v
    <3>1. call[c].at > 1
      BY <1>7
    <3>2. CASE v = None
      BY <1>2, <2>1, <3>1, <3>2 DEF Under
    <3>3. CASE v # None
      BY <1>2, <2>1, <3>1, <3>3 DEF Under
    <3> QED
      BY <3>2, <3>3
  <2>4. Shows(Place(p)') \in kept[p]
    BY <1>2, <1>6, <2>2, <2>3, OverlayAssumption DEF Shows, Tried, Values
  <2>5. Place(p)'.row # None
    BY <1>6, <2>3
  <2>6. PathTrue(p)'
    BY <1>6, <1>8, <2>1, <2>4, <2>5 DEF PathTrue, PassTrue, Fits
  <2>7. Under(k, Place(p)')
    BY <1>2, <1>6, <1>9, <2>3, OverlayAssumption DEF Under, Values
  <2> QED
    BY <2>6, <2>7
<1> QED
  BY <1>1, <1>4, <1>5, <1>8, <1>10, GoingOn

LEMMA LandSidecarKeeps ==
    ASSUME MirrorInv, NEW c \in Running, LandSidecar(c) PROVE MirrorInv'
<1>1. PICK p, v, k : /\ p = Doing(c).path /\ v = Doing(c).value
                     /\ k = [call[c] EXCEPT !.at = @ + 1]
  OBVIOUS
<1>2. /\ p = Head(call[c].writes).path /\ v = Head(call[c].writes).value
      /\ p \in Paths /\ v \in Values /\ IsCall(call[c]) /\ Shape(call[c])
  BY <1>1, AtWork, ShapeFacts DEF Doing
<1>3. /\ side' = IF v = Tomb THEN side \cup {p} ELSE side \ {p}
      /\ row' = row /\ file' = file /\ Lands(c) /\ Part(c) = "side" /\ pass' = pass
  BY <1>1 DEF LandSidecar, Lands, Advance
<1>4. Typed /\ Typed'
  BY TypesKept DEF MirrorInv
<1>5. \A o \in Paths \ {p} : Place(o)' = Place(o)
  BY <1>3, <1>4 DEF Place, Typed
<1>6. /\ Place(p)'.row = Place(p).row /\ Place(p)'.file = Place(p).file
      /\ Place(p)'.side = IF v = Tomb THEN Tomb ELSE None
      /\ Place(p).side \in {Tomb, None}
  BY <1>2, <1>3, <1>4 DEF Place, Typed
<1>7. ASSUME p \notin raced
      PROVE  /\ Under(call[c], Place(p)) /\ Fits(Place(p), told[p], kept[p]) /\ PassTrue(p)
             /\ Tried(v) \subseteq kept[p]
  <2>1. /\ Under(call[c], Place(p)) /\ Fits(Place(p), told[p], kept[p]) /\ PassTrue(p)
        /\ Remembers(call[c], p, told[p], kept[p])
    BY <1>1, <1>7, AtWork DEF PathTrue
  <2> QED
    BY <1>2, <2>1, ValueAllowed
<1>8. CASE v # None
  <2>1. call[c].at = 3
    BY <1>1, <1>3, <1>8, PartFacts
  <2>2. Advance(c, call[c], TRUE)
    BY <1>3, <2>1, Last
  <2>3. ASSUME p \notin raced
        PROVE  /\ PassTrue(p)' /\ Fits(Place(p)', told[p], kept[p])
               /\ Holds(call[c], p, Place(p)', v)
    <3>1. Place(p).row = v /\ Place(p).file = IF v = Tomb THEN None ELSE v
      BY <1>2, <1>7, <1>8, <2>1, <2>3 DEF Under
    <3>2. Shows(Place(p)') = v
      BY <1>6, <1>8, <3>1 DEF Shows
    <3>3. v \in kept[p]
      BY <1>7, <2>3 DEF Tried
    <3>4. Fits(Place(p)', told[p], kept[p])
      BY <1>6, <1>7, <1>8, <2>3, <3>1, <3>2, <3>3 DEF Fits
    <3>5. PassTrue(p)'
      BY <1>6, <1>8, <3>1 DEF PassTrue
    <3>6. Holds(call[c], p, Place(p)', v)
      BY <1>6, <1>8, <3>1, <3>2 DEF Holds
    <3> QED
      BY <3>4, <3>5, <3>6
  <2> QED
    BY <1>1, <1>4, <1>5, <2>2, <2>3, WriteEnds
<1>9. CASE v = None
  <2>1. call[c].at = 1
    BY <1>1, <1>3, <1>9, PartFacts
  <2>2. /\ call' = [call EXCEPT ![c] = k] /\ UNCHANGED <<told, kept, raced, pass>>
        /\ call[c].at < 3
    BY <1>1, <1>3, <2>1, NotLast
  <2>3. k.at = 2 /\ k.writes = call[c].writes /\ k.over = call[c].over /\ k.was = call[c].was
    BY <1>1, <1>2, <2>1, NextStep
  <2>4. ASSUME p \notin raced PROVE PathTrue(p)' /\ Under(k, Place(p)')
    <3>1. /\ Place(p).row # None
          /\ call[c].over = "done" => Place(p).row \in call[c].was.told[p]
      BY <1>2, <1>7, <1>9, <2>4 DEF Under
    <3>2. Place(p)'.side = None
      BY <1>6, <1>9, OverlayAssumption
    <3>3. Shows(Place(p)') \in kept[p]
      BY <1>6, <1>7, <1>9, <2>4, <3>2, OverlayAssumption DEF Shows, Fits, Tried
    <3>4. PathTrue(p)'
      BY <1>6, <1>7, <2>2, <2>4, <3>1, <3>3 DEF PathTrue, PassTrue, Fits
    <3>5. Under(k, Place(p)')
      BY <1>2, <1>6, <1>9, <2>3, <3>1, <3>2 DEF Under
    <3> QED
      BY <3>4, <3>5
  <2> QED
    BY <1>1, <1>4, <1>5, <2>2, <2>4, GoingOn
<1> QED
  BY <1>8, <1>9

-----------------------------------------------------------------------------
(***************************************************************************)
(* What fails.                                                             *)
(***************************************************************************)
\* A refusal puts the first write of two back, or ends the call.
LEMMA RefusalKeeps ==
    ASSUME MirrorInv, NEW c \in Running, NEW k, NEW p, NEW v, Refused(c, k),
           p = Doing(c).path, v = Doing(c).value,
           \/ k = call[c] /\ call[c].at = 1 /\ v # None
           \/ k = Behind(c) /\ v = None
    PROVE  MirrorInv'
<1>0. /\ CallTrue(c) /\ p = Head(call[c].writes).path /\ v = Head(call[c].writes).value
      /\ Typed
  BY DEF MirrorInv, Doing
<1>1. /\ c \in Calls /\ IsCall(call[c]) /\ Shape(call[c])
      /\ PathsOf(c) = DOMAIN call[c].does /\ PathsOf(c) \subseteq Paths /\ p \in PathsOf(c)
  BY AtWork
<1>2. UNCHANGED <<base, row, file, side, pass, raced>>
  BY DEF Refused, disk
<1>3. /\ IsCall(k) /\ k.writes = call[c].writes /\ k.undo = call[c].undo
      /\ k.at = call[c].at
      /\ k.does = call[c].does /\ k.was = call[c].was /\ k.over = call[c].over
      /\ k.behind = call[c].behind \/ k.behind = call[c].behind \cup {p}
  BY <1>1, LagFields
<1>4. Shape(k)
  BY <1>1, <1>3, LagFields, ShapeFacts, SameShape
<1>5. Typed' /\ \A o \in Paths : Place(o)' = Place(o)
  BY <1>0, <1>2 DEF Typed, Place
<1>6. \A o \in Paths \ raced : PassTrue(o)' /\ Fits(Place(o)', told[o], kept[o])
  BY <1>2, <1>5 DEF MirrorInv, PathTrue, PassTrue
<1>7. ASSUME NEW o \in PathsOf(c) \ raced
      PROVE  /\ Remembers(k, o, told[o], kept[o])
             /\ o # p => Progress(k, o, Place(o)')
             /\ o = p => Under(call[c], Place(p)')
  <2>1. Remembers(call[c], o, told[o], kept[o]) /\ Progress(call[c], o, Place(o))
    BY <1>0, <1>7 DEF CallTrue
  <2>2. Remembers(k, o, told[o], kept[o])
    BY <1>3, <2>1, OtherRemembers
  <2>3. ASSUME o # p PROVE Progress(k, o, Place(o)')
    <3>1. Place(o)' = Place(o)
      BY <1>1, <1>5, <1>7
    <3> QED
      BY <1>1, <2>1, <2>3, <3>1, LagElsewhere
  <2>4. ASSUME o = p PROVE Under(call[c], Place(p)')
    BY <1>0, <1>1, <1>5, <2>1, <2>4 DEF Progress
  <2> QED
    BY <2>2, <2>3, <2>4
<1>8. CASE Len(k.writes) = 1 /\ k.undo # <<>> /\ k.over = "done"
  <2> DEFINE j == [k EXCEPT !.writes = k.undo, !.at = 1, !.over = "refused"]
  <2>1. call' = [call EXCEPT ![c] = j] /\ UNCHANGED <<told, kept>>
    BY <1>8 DEF Refused
  <2>2. IsCall(j) /\ Shape(j)
    BY <1>3, <1>4, <1>8, ShapeUndo
  <2>3. /\ j.at = 1 /\ j.undo = k.undo /\ j.does = k.does /\ j.was = k.was
        /\ j.over = "refused" /\ j.writes = k.undo /\ j.behind = k.behind
    BY <1>3 DEF IsCall, Fields
  <2> HIDE DEF j
  <2>4. StepsTo(c, j, p)
    BY <1>1, <1>2, <1>5, <2>1 DEF StepsTo
  <2>5. v \in Texts /\ k.undo[1].path # p /\ DOMAIN k.does = {k.undo[1].path, p}
    BY <1>0, <1>3, <1>4, <1>8, SecondFacts
  <2>6. k = call[c] /\ call[c].at = 1
    BY <2>5, OverlayAssumption
  <2>7. /\ Head(j.writes) = k.undo[1] /\ Len(j.writes) = 1
        /\ Head(j.writes).value = None => j.does[Head(j.writes).path] = Tomb
    BY <2>2, <2>3, RefusedFacts
  <2>8. ASSUME NEW o \in PathsOf(c) \ raced
        PROVE  Remembers(j, o, told'[o], kept'[o]) /\ Progress(j, o, Place(o)')
    <3>1. Remembers(j, o, told'[o], kept'[o])
      BY <1>7, <2>1, <2>3, <2>8, OtherRemembers
    <3>2. CASE o = p
      <4>1. Untouched(k, o, Place(o)')
        BY <1>0, <1>3, <1>7, <1>8, <2>6, <2>8, <3>2 DEF Under
      <4>2. Untouched(j, o, Place(o)')
        BY <2>3, <4>1 DEF Untouched
      <4> QED
        BY <2>3, <2>5, <2>7, <3>1, <3>2, <4>2 DEF Progress
    <3>3. CASE o # p
      <4>1. o = Head(j.writes).path
        BY <1>1, <1>3, <2>5, <2>7, <2>8, <3>3
      <4>2. Written(k, o, Place(o)')
        BY <1>0, <1>3, <1>7, <1>8, <2>8, <3>3 DEF Progress
      <4>3. Written(j, o, Place(o)')
        BY <2>3, <4>2 DEF Written, Holds
      <4>4. Head(j.writes).value = None => Place(o)'.row # None
        BY <2>7, <4>1, <4>3, OverlayAssumption DEF Written, Holds
      <4>5. Under(j, Place(o)')
        BY <2>3, <4>1, <4>3, <4>4 DEF Under
      <4> QED
        BY <3>1, <4>1, <4>5 DEF Progress
    <3> QED
      BY <3>2, <3>3
  <2> QED
    BY <1>1, <1>3, <1>5, <1>6, <2>1, <2>2, <2>3, <2>4, <2>8, StepKeepsInv
<1>9. CASE ~(Len(k.writes) = 1 /\ k.undo # <<>> /\ k.over = "done")
  <2> DEFINE over == IF k.over = "refused" THEN "torn" ELSE "refused"
  <2>1. Answer(c, k, over)
    BY <1>9 DEF Refused
  <2>2. StepsTo(c, Idle, p)
    <3>1. call' = [call EXCEPT ![c] = Idle]
      BY <2>1 DEF Answer
    <3>2. \A o \in Paths \ PathsOf(c) : told'[o] = told[o] /\ kept'[o] = kept[o]
      BY <1>1, <1>3, <2>1 DEF Answer
    <3> QED
      BY <1>1, <1>2, <1>5, <3>1, <3>2 DEF StepsTo
  <2>3. over \in {"done", "refused", "torn"} /\ over # "done"
    OBVIOUS
  <2>4. ASSUME NEW o \in PathsOf(c) \ raced, over = "refused"
        PROVE  /\ Place(o)'.row \in k.was.told[o]
               /\ o \notin k.behind =>
                    Shows(Place(o)') \in k.was.kept[o] \cup (k.was.told[o] \cap {None})
               /\ Place(o)'.row = None => Shows(Place(o)') \in k.was.told[o] \cup {None}
    <3>1. k.over = "done"
      BY <1>4, <2>4, ShapeFacts
    <3>2. CASE o = p /\ v # None
      <4>1. Untouched(k, o, Place(o)')
        BY <1>0, <1>3, <1>7, <2>4, <3>1, <3>2 DEF Under
      <4> QED
        BY <4>1, UntouchedFits
    <3>3. CASE o = p /\ v = None
      <4>1. p \in k.behind
        BY <1>1, <3>3 DEF Behind, IsCall, Fields
      <4>2. Place(o)'.row # None /\ Place(o)'.row \in k.was.told[o]
        BY <1>0, <1>3, <1>7, <2>4, <3>1, <3>3 DEF Under
      <4> QED
        BY <3>3, <4>1, <4>2
    <3>4. CASE o # p
      <4>1. Len(k.writes) # 1
        <5>1. ASSUME Len(k.writes) = 1 PROVE DOMAIN k.does = {p}
          BY <1>0, <1>3, <1>4, <1>9, <3>1, <5>1, SoloFacts
        <5> QED
          BY <1>1, <1>3, <2>4, <3>4, <5>1
      <4>2. Untouched(k, o, Place(o)')
        BY <1>0, <1>3, <1>7, <2>4, <3>4, <4>1 DEF Progress
      <4> QED
        BY <4>1, <4>2, UntouchedFits
    <3> QED
      BY <3>2, <3>3, <3>4
  <2> HIDE DEF over
  <2>5. \A o \in PathsOf(c) \ raced : Fits(Place(o)', told[o], kept[o])
    BY <1>1, <1>6
  <2> QED
    BY <1>3, <1>5, <1>6, <2>1, <2>2, <2>3, <2>4, <2>5, AnswerKeepsInv
<1> QED
  BY <1>8, <1>9

LEMMA DecisionFailsKeeps ==
    ASSUME MirrorInv, NEW c \in Calls, DecisionFails(c) PROVE MirrorInv'
<1>1. /\ c \in Running /\ Refused(c, call[c]) /\ Part(c) = "row" /\ Doing(c).value # None
  BY DEF DecisionFails, Fails
<1>2. call[c].at = 1
  BY <1>1, PartFacts
<1> QED
  BY <1>1, <1>2, RefusalKeeps

LEMMA RemovalFailsKeeps ==
    ASSUME MirrorInv, NEW c \in Calls, RemovalFails(c) PROVE MirrorInv'
<1>1. /\ c \in Running /\ Refused(c, Behind(c)) /\ Doing(c).value = None
  BY DEF RemovalFails, Fails
<1> QED
  BY <1>1, RefusalKeeps

LEMMA MirrorFailsKeeps ==
    ASSUME MirrorInv, NEW c \in Calls, MirrorFails(c) PROVE MirrorInv'
<1>1. PICK p, v, k : p = Doing(c).path /\ v = Doing(c).value /\ k = Behind(c)
  OBVIOUS
<1>2. /\ c \in Running /\ Advance(c, k, TRUE) /\ Part(c) # "row" /\ v # None
      /\ UNCHANGED <<row, file, side, base, pass>>
  BY <1>1 DEF MirrorFails, Fails, Advance, disk
<1>3. call[c].at \in {2, 3}
  BY <1>1, <1>2, PartFacts DEF Part, Order
<1>4. Typed' /\ \A o \in Paths : Place(o)' = Place(o)
  BY <1>2 DEF MirrorInv, Typed, Place
<1>5. IsCall(call[c]) /\ p \in Paths
  BY <1>1, <1>2, AtWork
<1>6. ASSUME p \notin raced
      PROVE  /\ PassTrue(p)' /\ Fits(Place(p)', told[p], kept[p])
             /\ Holds(k, p, Place(p)', v)
  <2>1. Under(call[c], Place(p)) /\ PathTrue(p)
    BY <1>1, <1>2, <1>6, AtWork
  <2>2. call[c].at > 1
    BY <1>3
  <2>3. Place(p).row = v
    BY <1>1, <1>2, <2>1, <2>2 DEF Under, Doing
  <2>4. p \in k.behind
    BY <1>1, <1>5 DEF Behind, IsCall, Fields
  <2>5. PassTrue(p)' /\ Fits(Place(p)', told[p], kept[p])
    BY <1>2, <1>4, <1>5, <2>1 DEF PathTrue, PassTrue
  <2> QED
    BY <1>2, <1>4, <1>5, <2>3, <2>4, <2>5 DEF Holds
<1> QED
  BY <1>1, <1>2, <1>4, <1>6, WriteEnds

-----------------------------------------------------------------------------
(***************************************************************************)
(* A call begins.                                                          *)
(***************************************************************************)
\* The observers allow for what a call may do before it does it.
LEMMA BeginFits ==
    ASSUME NEW x, NEW T, NEW K, NEW d, Fits(x, T, K)
    PROVE  Fits(x, T \cup {d}, K \cup Tried(d))
BY DEF Fits, Tried

LEMMA BeginKeeps ==
    ASSUME MirrorInv, NEW c \in Calls, c \notin Running, NEW k, IsCall(k), Shape(k),
           k.at = 1, k.over = "done",
           DOMAIN k.does = {Head(k.writes).path} \/ Len(k.writes) = 2,
           \A o \in DOMAIN k.does : k.was.told[o] = told[o] /\ k.was.kept[o] = kept[o],
           k.undo # <<>> /\ k.undo[1].path \notin raced =>
               k.undo[1].value \in told[k.undo[1].path],
           Head(k.writes).value = None => row[Head(k.writes).path] # None,
           call' = [call EXCEPT ![c] = k],
           raced' = raced \cup {o \in DOMAIN k.does : ~Quiet(o)},
           \A o \in Paths \ raced' :
               /\ told'[o] = IF o \in DOMAIN k.does THEN told[o] \cup {k.does[o]} ELSE told[o]
               /\ kept'[o] = IF o \in DOMAIN k.does THEN kept[o] \cup Tried(k.does[o])
                                                    ELSE kept[o],
           UNCHANGED <<base, row, file, side, pass>>
    PROVE  MirrorInv'
<1>1. /\ Typed /\ CallsShaped /\ DOMAIN k.does \subseteq Paths /\ k.writes # <<>>
      /\ Head(k.writes).value = k.does[Head(k.writes).path]
  BY ShapeFacts DEF MirrorInv
<1>2. call'[c] = k /\ \A d \in Calls \ {c} : call'[d] = call[d]
  BY <1>1 DEF CallsShaped
<1>3. /\ Typed' /\ \A o \in Paths : Place(o)' = Place(o)
      /\ \A o \in Paths : PassTrue(o) => PassTrue(o)'
  BY <1>1 DEF Typed, Place, PassTrue
<1>4. CallsShaped'
  <2>1. call' = [d \in Calls |-> call'[d]]
    BY <1>1 DEF CallsShaped
  <2>2. \A d \in Calls : IsCall(call'[d]) /\ (call'[d] = Idle \/ Shape(call'[d]))
    BY <1>1, <1>2 DEF CallsShaped
  <2> QED
    BY <2>1, <2>2 DEF CallsShaped
<1>5. \A d \in Running' : d # c => /\ d \in Running /\ call'[d] = call[d]
                                   /\ PathsOf(d)' = PathsOf(d)
  BY <1>2 DEF Running, PathsOf
<1>6. PathsOf(c)' = DOMAIN k.does
  BY <1>2 DEF PathsOf
<1>7. \A d \in Running, o \in DOMAIN k.does : o \in PathsOf(d) => o \in raced'
  BY DEF Quiet
<1>8. Apart'
  <2>1. ASSUME NEW d \in Running', NEW e \in Running', d # e,
               NEW o \in PathsOf(d)' \cap PathsOf(e)'
        PROVE  o \in raced'
    <3>1. CASE d = c \/ e = c
      BY <1>5, <1>6, <1>7, <2>1, <3>1
    <3>2. CASE d # c /\ e # c
      <4>1. d \in Running /\ e \in Running /\ o \in PathsOf(d) \cap PathsOf(e)
        BY <1>5, <2>1, <3>2
      <4> QED
        BY <2>1, <4>1 DEF MirrorInv, Apart
    <3> QED
      BY <3>1, <3>2
  <2> QED
    BY <2>1 DEF Apart
<1>9. ASSUME NEW o \in Paths \ raced' PROVE PathTrue(o)'
  <2>1. PathTrue(o) /\ o \in Paths
    BY <1>9 DEF MirrorInv
  <2>2. Fits(Place(o)', told[o], kept[o]) /\ PassTrue(o)'
    BY <1>3, <2>1 DEF PathTrue
  <2>3. CASE o \in DOMAIN k.does
    <3>1. /\ told'[o] = told[o] \cup {k.does[o]}
          /\ kept'[o] = kept[o] \cup Tried(k.does[o])
      BY <1>9, <2>3
    <3>2. Fits(Place(o)', told'[o], kept'[o])
      BY <2>2, <3>1, BeginFits
    <3> QED
      BY <2>2, <3>2 DEF PathTrue
  <2>4. CASE o \notin DOMAIN k.does
    BY <1>9, <2>2, <2>4 DEF PathTrue
  <2> QED
    BY <2>3, <2>4
<1>10. ASSUME NEW o \in DOMAIN k.does \ raced'
       PROVE  Remembers(k, o, told'[o], kept'[o]) /\ Progress(k, o, Place(o)')
  <2>1. /\ told'[o] = told[o] \cup {k.does[o]} /\ kept'[o] = kept[o] \cup Tried(k.does[o])
        /\ k.was.told[o] = told[o] /\ k.was.kept[o] = kept[o] /\ o \notin raced
    BY <1>1, <1>10
  <2>2. Fits(Place(o)', told[o], kept[o])
    BY <1>1, <1>3, <1>10, <2>1 DEF MirrorInv, PathTrue
  <2>3. Untouched(k, o, Place(o)')
    BY <2>1, <2>2 DEF Untouched, Fits
  <2>4. Remembers(k, o, told'[o], kept'[o])
    BY <2>1, <2>2 DEF Remembers, Fits
  <2>5. CASE o = Head(k.writes).path
    <3>1. Head(k.writes).value = None => Place(o)'.row # None
      BY <1>1, <1>3, <2>5 DEF Place
    <3>2. Under(k, Place(o)')
      BY <2>3, <2>5, <3>1 DEF Under, Untouched
    <3> QED
      BY <2>4, <2>5, <3>2 DEF Progress
  <2>6. CASE o # Head(k.writes).path
    <3>1. Len(k.writes) # 1
      BY <1>10, <2>6
    <3> QED
      BY <2>3, <2>4, <2>6, <3>1 DEF Progress
  <2> QED
    BY <2>5, <2>6
<1>11. ASSUME NEW d \in Running' PROVE CallTrue(d)'
  <2>1. CASE d = c
    BY <1>2, <1>6, <1>10, <2>1 DEF CallTrue
  <2>2. CASE d # c
    <3>1. d \in Running /\ call'[d] = call[d] /\ PathsOf(d)' = PathsOf(d)
      BY <1>5, <2>2
    <3>2. ASSUME NEW o \in PathsOf(d) \ raced'
          PROVE  Remembers(call[d], o, told'[o], kept'[o]) /\ Progress(call[d], o, Place(o)')
      <4>1. o \notin DOMAIN k.does /\ o \notin raced
        BY <1>7, <3>1, <3>2
      <4>2. o \in Paths
        BY <1>1, <3>1, <3>2, RunningShaped, ShapeFacts DEF PathsOf
      <4>3. told'[o] = told[o] /\ kept'[o] = kept[o] /\ Place(o)' = Place(o)
        BY <1>3, <3>2, <4>1, <4>2
      <4> QED
        BY <3>1, <3>2, <4>1, <4>3 DEF MirrorInv, CallTrue
    <3> QED
      BY <3>1, <3>2 DEF CallTrue
  <2> QED
    BY <2>1, <2>2
<1> QED
  BY <1>3, <1>4, <1>8, <1>9, <1>11 DEF MirrorInv

\* A call with one write.
LEMMA BeginOne ==
    ASSUME MirrorInv, NEW c \in Calls, NEW p \in Paths, NEW v \in Values, NEW holds,
           Begin(c, <<To(p, v)>>, <<>>, holds), v = None => row[p] # None
    PROVE  MirrorInv'
<1> DEFINE writes == <<To(p, v)>>
           paths == {w.path : w \in Range(writes)}
           does == [o \in paths |-> (CHOOSE w \in Range(writes) : w.path = o).value]
           was == [told |-> Restrict(told, paths), kept |-> Restrict(kept, paths)]
           k == [Idle EXCEPT !.writes = writes, !.undo = <<>>, !.holds = holds,
                             !.does = does, !.was = was]
<1>1. Range(writes) = {To(p, v)}
  BY DEF Range
<1>2. paths = {p} /\ DOMAIN does = {p} /\ does[p] = v
  BY <1>1 DEF To
<1>3. /\ IsCall(k) /\ k.writes = writes /\ k.undo = <<>> /\ k.does = does /\ k.was = was
      /\ k.at = 1 /\ k.over = "done"
  BY DEF Idle, IsCall, Fields
<1>4. was.told[p] = told[p] /\ was.kept[p] = kept[p]
  BY <1>2 DEF Restrict
<1>5. /\ c \notin Running /\ call' = [call EXCEPT ![c] = k]
      /\ raced' = raced \cup {o \in {p} : ~Quiet(o)}
      /\ \A o \in Paths \ raced' :
            /\ told'[o] = IF o \in {p} THEN told[o] \cup {does[o]} ELSE told[o]
            /\ kept'[o] = IF o \in {p} THEN kept[o] \cup Tried(does[o]) ELSE kept[o]
      /\ UNCHANGED <<base, row, file, side, pass>>
  BY <1>2 DEF Begin, disk
<1> HIDE DEF k, does, was
<1>6. OneWrite(k, p, v)
  BY <1>2, <1>3 DEF OneWrite
<1>7. Shape(k)
  BY <1>3, <1>6 DEF Shape
<1>8. Head(k.writes) = To(p, v)
  BY <1>3
<1>9. Head(k.writes).path = p /\ Head(k.writes).value = v
  BY <1>8 DEF To
<1> QED
  BY <1>2, <1>3, <1>4, <1>5, <1>7, <1>9, BeginKeeps

\* A call with two, of which the first can be put back.
LEMMA BeginTwo ==
    ASSUME MirrorInv, NEW c \in Calls, NEW p \in Paths, NEW q \in Paths, p # q,
           NEW d \in {Tomb, None}, NEW t \in Texts, row[p] \in Texts \cup {None},
           row[p] = None => d = Tomb, NEW holds,
           Begin(c, <<To(p, d), To(q, t)>>, <<To(p, row[p])>>, holds)
    PROVE  MirrorInv'
<1> DEFINE writes == <<To(p, d), To(q, t)>>
           paths == {w.path : w \in Range(writes)}
           does == [o \in paths |-> (CHOOSE w \in Range(writes) : w.path = o).value]
           was == [told |-> Restrict(told, paths), kept |-> Restrict(kept, paths)]
           k == [Idle EXCEPT !.writes = writes, !.undo = <<To(p, row[p])>>, !.holds = holds,
                             !.does = does, !.was = was]
<1>0. /\ To(p, d).path = p /\ To(p, d).value = d /\ To(q, t).path = q /\ To(q, t).value = t
      /\ To(p, row[p]).path = p /\ To(p, row[p]).value = row[p]
  BY DEF To
<1>1. Range(writes) = {To(p, d), To(q, t)}
  BY DEF Range
<1>2. paths = {p, q} /\ DOMAIN does = {p, q} /\ does[p] = d /\ does[q] = t
  <2>1. paths = {p, q}
    BY <1>0, <1>1
  <2>2. (CHOOSE w \in Range(writes) : w.path = p) = To(p, d)
    BY <1>0, <1>1
  <2>3. (CHOOSE w \in Range(writes) : w.path = q) = To(q, t)
    BY <1>0, <1>1
  <2> QED
    BY <1>0, <2>1, <2>2, <2>3
<1>3. /\ IsCall(k) /\ k.writes = writes /\ k.undo = <<To(p, row[p])>> /\ k.does = does
      /\ k.was = was /\ k.at = 1 /\ k.over = "done"
  BY DEF Idle, IsCall, Fields
<1>4. \A o \in {p, q} : was.told[o] = told[o] /\ was.kept[o] = kept[o]
  BY <1>2 DEF Restrict
<1>5. /\ c \notin Running /\ call' = [call EXCEPT ![c] = k]
      /\ raced' = raced \cup {o \in {p, q} : ~Quiet(o)}
      /\ \A o \in Paths \ raced' :
            /\ told'[o] = IF o \in {p, q} THEN told[o] \cup {does[o]} ELSE told[o]
            /\ kept'[o] = IF o \in {p, q} THEN kept[o] \cup Tried(does[o]) ELSE kept[o]
      /\ UNCHANGED <<base, row, file, side, pass>>
  BY <1>2 DEF Begin, disk
<1> HIDE DEF k, does, was
<1>6. TwoWrites(k, p, q, d, t, row[p])
  BY <1>2, <1>3 DEF TwoWrites
<1>7. Shape(k)
  BY <1>3, <1>6 DEF Shape
<1>8. Head(k.writes) = To(p, d) /\ Len(k.writes) = 2 /\ k.undo[1] = To(p, row[p])
  BY <1>3
<1>9. p \notin raced => row[p] \in told[p]
  BY DEF MirrorInv, PathTrue, Fits, Place
<1>10. d = None => row[p] # None
  BY OverlayAssumption
<1>11. /\ \A o \in DOMAIN k.does : k.was.told[o] = told[o] /\ k.was.kept[o] = kept[o]
       /\ raced' = raced \cup {o \in DOMAIN k.does : ~Quiet(o)}
       /\ \A o \in Paths \ raced' :
             /\ told'[o] = IF o \in DOMAIN k.does THEN told[o] \cup {k.does[o]} ELSE told[o]
             /\ kept'[o] = IF o \in DOMAIN k.does THEN kept[o] \cup Tried(k.does[o])
                                                  ELSE kept[o]
  BY <1>2, <1>3, <1>4, <1>5
<1>12. /\ k.undo[1].path \notin raced => k.undo[1].value \in told[k.undo[1].path]
       /\ Head(k.writes).value = None => row[Head(k.writes).path] # None
  BY <1>0, <1>8, <1>9, <1>10
<1> QED
  BY <1>3, <1>5, <1>7, <1>8, <1>11, <1>12, BeginKeeps

LEMMA VerbKeeps ==
    ASSUME MirrorInv, NEW c \in Calls, Verb(c) PROVE MirrorInv'
<1>0. Typed /\ Texts \subseteq Values /\ None \notin Texts /\ Tomb \notin Texts
      /\ Tomb # None /\ None \in Values /\ Tomb \in Values
  BY OverlayAssumption DEF MirrorInv, Values
<1>1. ASSUME NEW p \in Paths, NEW t \in Texts,
             Save(c, p, t) \/ RestoreEngram(c, p, t) \/ ResolveMerged(c, p, t)
      PROVE  MirrorInv'
  BY <1>0, <1>1, BeginOne DEF Save, RestoreEngram, ResolveMerged
<1>2. ASSUME NEW p \in Paths, Discard(c, p) PROVE MirrorInv'
  BY <1>0, <1>2, BeginOne DEF Discard
<1>3. ASSUME NEW p \in Paths, Visible(p) # None
      PROVE  /\ row[p] \in Texts \cup {None} /\ Visible(p) \in Texts
             /\ base[p] = None => row[p] # None
  BY <1>0, <1>3 DEF Visible, Typed, Values
<1>4. ASSUME NEW p \in Paths, Delete(c, p) PROVE MirrorInv'
  <2>1. Visible(p) # None /\ Begin(c, <<Removal(p)>>, <<>>, {p})
    BY <1>4 DEF Delete
  <2> DEFINE v == IF base[p] # None THEN Tomb ELSE None
  <2>2. v \in Values /\ Removal(p) = To(p, v) /\ (v = None => row[p] # None)
    BY <1>0, <1>3, <2>1 DEF Removal
  <2> HIDE DEF v
  <2> QED
    BY <2>1, <2>2, BeginOne
<1>5. ASSUME NEW p \in Paths, NEW q \in Paths, Move(c, p, q) PROVE MirrorInv'
  <2>1. p # q /\ Visible(p) # None
        /\ Begin(c, <<Removal(p), To(q, Visible(p))>>, PutBack(p), {p, q})
    BY <1>5 DEF Move
  <2> DEFINE d == IF base[p] # None THEN Tomb ELSE None
  <2>2. d \in {Tomb, None} /\ Removal(p) = To(p, d) /\ (row[p] = None => d = Tomb)
    BY <1>3, <2>1 DEF Removal
  <2>3. row[p] \in Texts \cup {None} /\ Visible(p) \in Texts
    BY <1>3, <2>1
  <2> HIDE DEF d
  <2> QED
    BY <2>1, <2>2, <2>3, BeginTwo DEF PutBack
<1>6. ASSUME NEW p \in Paths, NEW q \in Paths, FollowBase(c, p, q) PROVE MirrorInv'
  <2>1. row[p] \in Texts /\ base[q] # None /\ base[p] = None
    BY <1>6 DEF FollowBase
  <2>2. CASE base[q] = row[p]
    BY <1>0, <1>6, <2>1, <2>2, BeginOne DEF FollowBase
  <2>3. CASE base[q] # row[p]
    <3>1. Begin(c, <<To(p, None), To(q, row[p])>>, <<To(p, row[p])>>, {Origin})
      BY <1>6, <2>3 DEF FollowBase, PutBack
    <3>2. p # q /\ row[p] # None
      BY <1>0, <2>1
    <3> QED
      BY <2>1, <3>1, <3>2, BeginTwo
  <2> QED
    BY <2>2, <2>3
<1> QED
  BY <1>1, <1>2, <1>4, <1>5, <1>6 DEF Verb

-----------------------------------------------------------------------------
(***************************************************************************)
(* Restores, crashes, rebuilds and pulls.                                  *)
(***************************************************************************)
\* A restore that starts reads the mirror.
LEMMA RestoreBeginsKeeps == ASSUME MirrorInv, RestoreBegins PROVE MirrorInv'
<1>1. /\ DOMAIN pass' \subseteq Paths
      /\ \A p \in DOMAIN pass' : pass'[p] = Mirror(p) /\ Mirror(p) # None
      /\ UNCHANGED <<base, row, file, side, call, told, kept, raced>>
  BY DEF RestoreBegins, disk, observers
<1>2. Typed /\ \A p \in Paths : Place(p)' = Place(p) /\ Mirror(p) = Shows(Place(p))
  BY <1>1, MirrorShows DEF MirrorInv, Place
<1>3. Typed'
  <2>1. \A p \in Paths : Mirror(p) # None => Mirror(p) \in Texts \cup {Tomb}
    BY <1>2 DEF Mirror, Typed
  <2> QED
    BY <1>1, <1>2, <2>1 DEF Typed
<1>4. CallsShaped' /\ Apart' /\ Running' = Running /\ \A c \in Running : PathsOf(c)' = PathsOf(c)
  BY <1>1 DEF MirrorInv, CallsShaped, Apart, Running, PathsOf
<1>5. \A p \in Paths \ raced' : PathTrue(p)'
  BY <1>1, <1>2 DEF MirrorInv, PathTrue, PassTrue
<1>6. ASSUME NEW c \in Running PROVE CallTrue(c)'
  <2>1. PathsOf(c) \subseteq Paths /\ CallTrue(c)
    BY AtWork DEF MirrorInv
  <2> QED
    BY <1>1, <1>2, <1>4, <2>1 DEF CallTrue
<1> QED
  BY <1>3, <1>4, <1>5, <1>6 DEF MirrorInv

\* A row that a restore puts back is one the answers allow, and one that
\* every call at its path reckons with.
LEMMA PutBackFits ==
    ASSUME NEW x, NEW y, NEW T, NEW K, Fits(x, T, K), x.row = None,
           y.row = Shows(x), y.file = x.file, y.side = x.side, y.row # None
    PROVE  Fits(y, T, K)
BY DEF Fits, Shows

LEMMA PutBackUntouched ==
    ASSUME NEW x, NEW y, NEW k, NEW p, Untouched(k, p, x), x.row = None,
           y.row = Shows(x), y.file = x.file, y.side = x.side, y.row # None
    PROVE  Untouched(k, p, y)
BY DEF Untouched, Shows

LEMMA PutBackProgress ==
    ASSUME NEW x, NEW y, NEW k, NEW p, Progress(k, p, x), Shape(k), x.row = None,
           y.row = Shows(x), y.file = x.file, y.side = x.side, y.row # None
    PROVE  Progress(k, p, y)
<1>1. ASSUME Written(k, p, x) PROVE FALSE
  BY <1>1 DEF Written, Holds
<1>2. ASSUME p = Head(k.writes).path, Under(k, x) PROVE Under(k, y)
  <2>1. Head(k.writes).value # None
    BY <1>2 DEF Under
  <2>2. ~(k.at > 1)
    BY <1>2, <2>1 DEF Under
  <2>3. k.at \in 1..3
    BY ShapeFacts
  <2>4. k.at = 1 /\ ~(k.at > 2)
    BY <2>2, <2>3
  <2>5. k.over = "done" /\ Untouched(k, p, x)
    BY <1>1, <1>2, <2>4, ShapeFacts DEF Under
  <2>6. Untouched(k, p, y)
    BY <2>5, PutBackUntouched
  <2> QED
    BY <1>2, <2>1, <2>2, <2>4, <2>5, <2>6 DEF Under
<1> QED
  BY <1>1, <1>2, PutBackUntouched DEF Progress

LEMMA RestoreEntryKeeps ==
    ASSUME MirrorInv, NEW p \in Paths, RestoreEntry(p) PROVE MirrorInv'
<1>1. /\ p \in DOMAIN pass
      /\ row' = IF FillsGap(p) THEN [row EXCEPT ![p] = pass[p]] ELSE row
      /\ DOMAIN pass' = DOMAIN pass \ {p}
      /\ \A o \in DOMAIN pass \ {p} : pass'[o] = pass[o]
      /\ UNCHANGED <<base, file, side, call, told, kept, raced>>
  BY DEF RestoreEntry, disk, observers, Restrict
<1>2. Typed /\ pass[p] # None /\ pass[p] \in Values
  BY <1>1, OverlayAssumption DEF MirrorInv, Typed, Values
<1>3. Typed'
  BY <1>1, <1>2 DEF Typed
<1>4. CallsShaped' /\ Apart' /\ Running' = Running /\ \A c \in Running : PathsOf(c)' = PathsOf(c)
  BY <1>1 DEF MirrorInv, CallsShaped, Apart, Running, PathsOf
<1>5. ASSUME NEW o \in Paths, o # p \/ ~FillsGap(p) PROVE Place(o)' = Place(o)
  BY <1>1, <1>2, <1>5 DEF Place, Typed
<1>6. /\ Place(p)'.file = Place(p).file /\ Place(p)'.side = Place(p).side
      /\ FillsGap(p) => Place(p).row = None /\ Place(p)'.row = pass[p]
  BY <1>1, <1>2 DEF Place, Typed, FillsGap
<1>7. p \notin raced /\ FillsGap(p) => Place(p)'.row = Shows(Place(p)) /\ Place(p)'.row # None
  BY <1>1, <1>2, <1>6 DEF MirrorInv, PathTrue, PassTrue
<1>8. ASSUME NEW o \in Paths \ raced PROVE PathTrue(o)'
  <2>1. PathTrue(o)
    BY <1>8 DEF MirrorInv
  <2>2. CASE o # p \/ ~FillsGap(p)
    <3>1. Place(o)' = Place(o) /\ (o \in DOMAIN pass' => o \in DOMAIN pass /\ pass'[o] = pass[o])
      BY <1>1, <1>5, <1>8, <2>2
    <3> QED
      BY <1>1, <2>1, <3>1 DEF PathTrue, PassTrue
  <2>3. CASE o = p /\ FillsGap(p)
    <3>1. Fits(Place(p)', told[p], kept[p])
      BY <1>6, <1>7, <1>8, <2>1, <2>3, PutBackFits DEF PathTrue
    <3>2. PassTrue(p)'
      BY <1>1 DEF PassTrue
    <3> QED
      BY <1>1, <2>3, <3>1, <3>2 DEF PathTrue
  <2> QED
    BY <2>2, <2>3
<1>9. ASSUME NEW c \in Running PROVE CallTrue(c)'
  <2>1. PathsOf(c) \subseteq Paths /\ CallTrue(c) /\ Shape(call[c])
    BY AtWork DEF MirrorInv
  <2>2. ASSUME NEW o \in PathsOf(c) \ raced PROVE Progress(call[c], o, Place(o)')
    <3>1. Progress(call[c], o, Place(o)) /\ o \in Paths
      BY <2>1, <2>2 DEF CallTrue
    <3>2. CASE o # p \/ ~FillsGap(p)
      BY <1>5, <3>1, <3>2
    <3>3. CASE o = p /\ FillsGap(p)
      BY <1>6, <1>7, <2>1, <2>2, <3>1, <3>3, PutBackProgress
    <3> QED
      BY <3>2, <3>3
  <2> QED
    BY <1>1, <1>4, <2>1, <2>2 DEF CallTrue
<1> QED
  BY <1>3, <1>4, <1>8, <1>9, <1>1 DEF MirrorInv

\* A pass that stops, a pull and a crash leave every path as it was.
LEMMA StopsKeep ==
    ASSUME MirrorInv, UNCHANGED <<row, file, side, told, kept, raced>>,
           base' \in [Paths -> Texts \cup {None}], pass' = pass \/ pass' = <<>>,
           call' = call \/ call' = [c \in Calls |-> Idle]
    PROVE  MirrorInv'
<1>1. DOMAIN <<>> = {}
  OBVIOUS
<1>2. Typed' /\ \A p \in Paths : Place(p)' = Place(p)
  BY <1>1 DEF MirrorInv, Typed, Place
<1>3. \A p \in Paths \ raced' : PathTrue(p)'
  BY <1>1, <1>2 DEF MirrorInv, PathTrue, PassTrue
<1>4. CASE call' = call
  <2>1. CallsShaped' /\ Apart' /\ Running' = Running /\ \A c \in Running : PathsOf(c)' = PathsOf(c)
    BY <1>4 DEF MirrorInv, CallsShaped, Apart, Running, PathsOf
  <2>2. ASSUME NEW c \in Running PROVE CallTrue(c)'
    <3>1. PathsOf(c) \subseteq Paths /\ CallTrue(c)
      BY AtWork DEF MirrorInv
    <3> QED
      BY <1>2, <1>4, <2>1, <3>1 DEF CallTrue
  <2> QED
    BY <1>2, <1>3, <2>1, <2>2 DEF MirrorInv
<1>5. CASE call' = [c \in Calls |-> Idle]
  <2>1. IsCall(Idle) /\ Idle.writes = <<>>
    BY DEF IsCall, Fields, Idle
  <2>2. CallsShaped' /\ Running' = {}
    BY <1>5, <2>1 DEF CallsShaped, Running
  <2> QED
    BY <1>2, <1>3, <2>2 DEF MirrorInv, Apart
<1> QED
  BY <1>4, <1>5

\* A rebuilt index knows no decision; a restore may bring back what the
\* mirror says.
LEMMA WipeKeeps == ASSUME MirrorInv, Wipe PROVE MirrorInv'
<1>1. /\ Running = {} /\ DOMAIN pass = {} /\ row' = [p \in Paths |-> None]
      /\ \A p \in Paths \ raced : told'[p] = kept[p] \cup {None}
      /\ UNCHANGED <<base, file, side, call, pass, kept, raced>>
  BY DEF Wipe, disk, StoreFree
<1>2. Typed' /\ CallsShaped' /\ Running' = {}
  BY <1>1 DEF MirrorInv, Typed, CallsShaped, Running, Values
<1>3. ASSUME NEW p \in Paths \ raced PROVE PathTrue(p)'
  <2>1. Place(p)'.row = None /\ Shows(Place(p)') = Shows(Place(p))
    BY <1>1 DEF Place, Shows
  <2>2. Shows(Place(p)) \in kept[p]
    BY DEF MirrorInv, PathTrue, Fits
  <2>3. Fits(Place(p)', told'[p], kept'[p])
    BY <1>1, <2>1, <2>2 DEF Fits
  <2> QED
    BY <1>1, <2>3 DEF PathTrue, PassTrue
<1> QED
  BY <1>1, <1>2, <1>3 DEF MirrorInv, Apart

-----------------------------------------------------------------------------
\* The inductive invariant of the drafts.
THEOREM MirrorInvariant == Spec => []MirrorInv
<1>1. Init => MirrorInv
  <2> SUFFICES ASSUME Init PROVE MirrorInv
    OBVIOUS
  <2>1. IsCall(Idle) /\ Idle.writes = <<>> /\ DOMAIN <<>> = {}
    BY DEF IsCall, Fields, Idle
  <2>2. Typed
    BY <2>1, OverlayAssumption DEF Init, Typed, Values
  <2>3. CallsShaped /\ Running = {}
    BY <2>1 DEF Init, CallsShaped, Running
  <2>4. ASSUME NEW p \in Paths PROVE PathTrue(p)
    <3>1. Place(p).row = None /\ Shows(Place(p)) = None
      BY DEF Init, Place, Shows
    <3>2. told[p] = {None} /\ kept[p] = {None} /\ DOMAIN pass = {}
      BY <2>1 DEF Init
    <3> QED
      BY <3>1, <3>2 DEF PathTrue, PassTrue, Fits
  <2> QED
    BY <2>2, <2>3, <2>4 DEF MirrorInv, Apart
<1>2. ASSUME MirrorInv, Next PROVE MirrorInv'
  <2>1. ASSUME NEW c \in Calls, Verb(c) \/ Works(c) \/ Trouble(c) PROVE MirrorInv'
    <3>1. CASE Verb(c)
      BY <1>2, <3>1, VerbKeeps
    <3>2. CASE Works(c)
      <4>1. c \in Running
        BY <3>2 DEF Works, LandRow, LandDraft, LandSidecar
      <4> QED
        BY <1>2, <3>2, <4>1, LandRowKeeps, LandDraftKeeps, LandSidecarKeeps DEF Works
    <3>3. CASE Trouble(c)
      BY <1>2, <3>3, DecisionFailsKeeps, MirrorFailsKeeps, RemovalFailsKeeps DEF Trouble
    <3> QED
      BY <2>1, <3>1, <3>2, <3>3
  <2>2. CASE Restore
    BY <1>2, <2>2, RestoreBeginsKeeps, RestoreEntryKeeps DEF Restore
  <2>3. ASSUME NEW p \in Paths, RestoreFails(p) PROVE MirrorInv'
    BY <1>2, <2>3, StopsKeep DEF RestoreFails, disk, observers, MirrorInv, Typed
  <2>4. CASE Crash
    BY <1>2, <2>4, StopsKeep DEF Crash, disk, observers, MirrorInv, Typed
  <2>5. CASE Wipe
    BY <1>2, <2>5, WipeKeeps
  <2>6. ASSUME NEW p \in Paths, NEW v \in TeamTexts \cup {None}, Pull(p, v) PROVE MirrorInv'
    <3>1. base' \in [Paths -> Texts \cup {None}]
      BY <1>2, <2>6, OverlayAssumption DEF Pull, MirrorInv, Typed
    <3> QED
      BY <1>2, <2>6, <3>1, StopsKeep DEF Pull, disk, observers
  <2> QED
    BY <1>2, <2>1, <2>2, <2>3, <2>4, <2>5, <2>6 DEF Next
<1>3. ASSUME MirrorInv, UNCHANGED vars PROVE MirrorInv'
  BY <1>3, StopsKeep DEF vars, disk, observers, MirrorInv, Typed
<1> QED
  BY <1>1, <1>2, <1>3, PTL DEF Spec

\* Once nothing is under way at a path, its row says what the last answer
\* said, and its mirror that or what the answer warned of, for any paths,
\* texts and calls, and any number of failures, crashes, rebuilds and pulls.
THEOREM StandTheorem == Spec => []DecisionsStand
<1>1. MirrorInv => DecisionsStand
  BY MirrorShows DEF MirrorInv, PathTrue, Fits, DecisionsStand, Place
<1> QED
  BY <1>1, MirrorInvariant, PTL
=============================================================================
