------------------------------ MODULE TriggerSlot ------------------------------
(***************************************************************************)
(* The webhook that tells a runner that a loop has work on a domain         *)
(* (crates/service/src/automation_trigger.rs): one slot of the daemon's      *)
(* task, for the reflect or for the evolve loop, with what it reads of the   *)
(* engine as its surroundings.                                              *)
(*                                                                         *)
(* Instants are left out: a timer is armed or not and may fire once it is,  *)
(* also early (as another event may have armed it), and each window (the    *)
(* rate limit, the wait after a failed delivery, the quiet clock, the       *)
(* backoff) is open until a step of its own closes it.  The domain's loop    *)
(* runs on this instance, and the URL and the secret are set.               *)
(***************************************************************************)
EXTENDS Integers, FiniteSets

CONSTANTS
    Loops,       \* the loops a slot is for: "reflect", "evolve"
    Threshold,   \* automation.evolve_threshold
    MaxCount,    \* per loop, a bound of the updates (reflect) or the findings
    Attempts,    \* tries of one delivery: 1 + RETRY_DELAYS.len()
    Flights,     \* deliveries that can be in flight
    MaxFaults    \* faults (failed posts, broken deliveries, restarts) and odd
                 \* steps (a look whose status could not be read, a trigger
                 \* turned off, a run that starts and ends between two lease
                 \* ticks, a lag before the first of them)

ASSUME TriggerAssumption ==
    /\ Loops \subseteq {"reflect", "evolve"}
    /\ Threshold \in Nat \ {0} /\ MaxCount \in [Loops -> Nat] /\ Attempts \in Nat \ {0}
    /\ MaxFaults \in Nat
    /\ Flights # {}

VARIABLES
    loop,      \* the slot's loop
    slot,      \* slots[(domain, loop)], or NoSlot
    known,     \* the domain is in reflect_domains or evolve_domains
    flight,    \* the deliveries in flight
    trigger,   \* loop_trigger reads Webhook
    people,    \* reflect: threads for the agent and feedback wait
    count,     \* updates, or mechanical findings
    lease,     \* a run holds a fresh lease
    backoff,   \* the loop backs off after failed runs
    event,     \* what the bus has for the task: nothing, an event, a lag
    faults, odd,
    recent,    \* observer: a delivery started within the last RATE_LIMIT
    owed,      \* observer: work came up and no delivery of it got through
    cut        \* observer: the trigger was read as off over a delivery, or
               \* within the RATE_LIMIT of one

work == <<trigger, people, count, lease, backoff>>
bounds == <<faults, odd>>
triggerVars == <<loop, slot, known, flight, work, event, bounds, recent, owed, cut>>

Reflects == loop = "reflect"
NoSlot == [none |-> TRUE]
NotSeen == -1
Slots ==
    [armed : BOOLEAN, afterLease : BOOLEAN, urgent : BOOLEAN, recent : BOOLEAN,
     waits : BOOLEAN, inFlight : BOOLEAN, seen : NotSeen..MaxCount[loop], quiet : BOOLEAN]
Fresh ==
    [armed |-> FALSE, afterLease |-> FALSE, urgent |-> FALSE, recent |-> FALSE,
     waits |-> FALSE, inFlight |-> FALSE, seen |-> NotSeen, quiet |-> FALSE]
Outcomes == {"none", "sent", "failed", "lease"}
NoFlight == [try |-> 0, end |-> "none"]

TriggerTypeOK ==
    /\ slot \in Slots \cup {NoSlot}
    /\ flight \in [Flights -> [try : 0..Attempts, end : Outcomes]]
    /\ {known, trigger, people, lease, backoff, recent, owed} \subseteq BOOLEAN
    /\ event \in {"none", "threads", "sources", "lag"}
    /\ count \in 0..MaxCount[loop]
    /\ loop \in Loops /\ cut \in BOOLEAN
    /\ faults \in 0..MaxFaults /\ odd \in 0..MaxFaults

TriggerInit ==
    /\ loop \in Loops
    /\ slot = NoSlot /\ known = FALSE
    /\ flight = [f \in Flights |-> NoFlight]
    /\ trigger = TRUE /\ people = FALSE /\ count = 0
    /\ lease = FALSE /\ backoff = FALSE /\ event = "none"
    /\ faults = 0 /\ odd = 0
    /\ recent = FALSE /\ owed = FALSE /\ cut = FALSE

\* slots.entry(..).or_default().
Slot == IF slot = NoSlot THEN Fresh ELSE slot
Armed(s) == [s EXCEPT !.armed = TRUE]
Work == people \/ count > 0
InTheAir == {f \in Flights : flight[f] # NoFlight}

-----------------------------------------------------------------------------
\* One of the odd steps, which are bounded.
Odd == faults + odd < MaxFaults /\ odd' = odd + 1
OddIf(c) == IF c THEN Odd ELSE odd' = odd

\* The surroundings.  Threads and feedback wait for the agent.
PeopleAsk ==
    /\ Reflects /\ ~people
    /\ people' = TRUE /\ event' = "threads" /\ owed' = trigger
    /\ UNCHANGED <<loop, cut, slot, known, flight, trigger, count, lease, backoff, bounds, recent>>

\* What the receiver has to be told of n updates or findings: a crossing is
\* counted from what the last look recorded.
Tells(n) ==
    IF Reflects THEN n > 0
    ELSE n >= Threshold /\ (owed \/ slot = NoSlot \/ slot.seen < Threshold)

\* Page updates come up with an engram event, mechanical findings with none.
CountMoves(n) ==
    /\ n # count
    /\ count' = n
    /\ event' = IF Reflects /\ event # "lag" THEN "sources" ELSE event
    /\ owed' = IF people THEN owed ELSE trigger /\ Tells(n)
    /\ UNCHANGED <<loop, cut, slot, known, flight, trigger, people, lease, backoff, bounds, recent>>

\* A run takes the lease, told of the work or not.
RunStarts ==
    /\ ~lease
    /\ lease' = TRUE /\ owed' = FALSE
    /\ UNCHANGED <<loop, cut, slot, known, flight, trigger, people, count, backoff, event, bounds, recent>>

\* It ends with the work done, or leaves some, or fails and starts the
\* backoff.  Work that is left is due, and has to be told.
RunEnds ==
    /\ lease
    /\ OddIf(trigger /\ ~(slot # NoSlot /\ slot.afterLease))
    /\ lease' = FALSE
    /\ \/ /\ backoff' = FALSE
          /\ people' = FALSE /\ count' = 0 /\ owed' = FALSE
       \/ /\ backoff' \in BOOLEAN
          /\ owed' = (trigger /\ IF Reflects THEN Work ELSE count >= Threshold)
          /\ UNCHANGED <<people, count>>
    /\ UNCHANGED <<loop, cut, slot, known, flight, trigger, event, faults, recent>>

BackoffEnds ==
    /\ backoff
    /\ backoff' = FALSE
    /\ UNCHANGED <<loop, cut, slot, known, flight, trigger, people, count, lease, event, bounds, recent, owed>>

\* The MANIFEST changes, or cannot be read or parsed for a while.
Toggle ==
    /\ OddIf(trigger)
    /\ trigger' = ~trigger
    /\ owed' = FALSE
    /\ event' = IF Reflects /\ event # "lag" THEN "sources" ELSE event
    /\ UNCHANGED <<loop, cut, slot, known, flight, people, count, lease, backoff, faults, recent>>

\* The bus laps the task.
Laps ==
    /\ event # "none"
    /\ OddIf(~known)
    /\ event' = "lag"
    /\ UNCHANGED <<loop, cut, slot, known, flight, work, faults, recent, owed>>

\* RATE_LIMIT after the last delivery started.
RateEnds ==
    /\ recent
    /\ recent' = FALSE
    /\ slot' = IF slot = NoSlot THEN slot ELSE [slot EXCEPT !.recent = FALSE]
    /\ UNCHANGED <<loop, cut, known, flight, work, event, bounds, owed>>

\* One of FAILED_DELIVERY_WAITS is over.
WaitEnds ==
    /\ slot # NoSlot
    /\ slot.waits
    /\ slot' = [slot EXCEPT !.waits = FALSE]
    /\ UNCHANGED <<loop, cut, known, flight, work, event, bounds, recent, owed>>

\* SOURCE_QUIET went by without a source change.
QuietEnds ==
    /\ slot # NoSlot
    /\ ~slot.quiet
    /\ slot' = [slot EXCEPT !.quiet = TRUE]
    /\ UNCHANGED <<loop, cut, known, flight, work, event, bounds, recent, owed>>

-----------------------------------------------------------------------------
\* The look at a slot s, urgent or not, by how it ends.  The task waits for
\* it, so nothing else moves the slot; what it awaits is read at one instant.
LookOff ==
    /\ ~trigger
    /\ slot' = NoSlot
    /\ cut' = (cut \/ recent \/ InTheAir # {})
    /\ UNCHANGED <<flight, odd, recent>>

\* The status is not read: a message, and no look after it.
LookFails(s) ==
    /\ trigger
    /\ Odd
    /\ slot' = IF slot = NoSlot THEN NoSlot ELSE s
    /\ UNCHANGED <<cut, flight, recent>>

\* What every other look leaves alone.
Read == trigger /\ UNCHANGED <<cut, odd>>
Quietly == UNCHANGED <<flight, recent>>

\* Mutant of LookBacksOff: the slot does not look again on its own.
LookBacksOffOnce(s, urgent) ==
    /\ Read /\ backoff
    /\ slot' = [s EXCEPT !.urgent = urgent]
    /\ Quietly

\* While the loop backs off the slot looks again, keeping what it owes.
LookBacksOff(s, urgent) ==
    /\ Read /\ backoff
    /\ slot' = [Armed(s) EXCEPT !.urgent = urgent]
    /\ Quietly

\* Mutant of LookRuns: the slot is started over.
LookRunsAnew(s) ==
    /\ Read /\ ~backoff /\ lease
    /\ slot' = [Fresh EXCEPT !.afterLease = TRUE, !.inFlight = s.inFlight]
    /\ Quietly

\* A run holds the lease: its release will be looked at.
LookRuns(s) ==
    /\ Read /\ ~backoff /\ lease
    /\ slot' = [s EXCEPT !.afterLease = TRUE]
    /\ Quietly

\* The slot as the look leaves it: the count is recorded, and an update count
\* that moved restarts the quiet clock.
Counted(s) ==
    [s EXCEPT !.seen = count, !.quiet = @ /\ ~(Reflects /\ s.seen # count)]

\* What the rules say with work due.
Wanted(s, urgent) ==
    IF Reflects THEN people \/ urgent \/ Counted(s).quiet
    ELSE count >= Threshold /\ (s.seen < Threshold \/ urgent)

\* Mutant of Held: the cap is not looked at.
HeldInFlight(s) == s.inFlight \/ s.waits

\* A delivery in flight, the cap since the last one, or the wait after a
\* failed one.
Held(s) == s.inFlight \/ s.recent \/ s.waits

LookNothingDue(s) ==
    /\ ~Work
    /\ slot' = [Counted(s) EXCEPT !.urgent = FALSE]
    /\ Quietly

\* Page updates alone wait for the quiet; findings below the threshold, or
\* above it as before, wait for a crossing.
LookNotYet(s, urgent) ==
    /\ Work /\ ~Wanted(s, urgent)
    /\ slot' = IF Reflects THEN Armed(Counted(s)) ELSE Counted(s)
    /\ Quietly

\* The send is owed: the look at the hold's end sends it.
LookHolds(s, urgent) ==
    /\ Work /\ Wanted(s, urgent) /\ Held(s)
    /\ slot' = [Armed(Counted(s)) EXCEPT !.urgent = TRUE]
    /\ Quietly

LookSends(s, urgent, f) ==
    /\ Work /\ Wanted(s, urgent) /\ ~Held(s)
    /\ flight[f] = NoFlight
    /\ flight' = [flight EXCEPT ![f] = [try |-> 1, end |-> "none"]]
    /\ slot' = [Counted(s) EXCEPT !.urgent = FALSE, !.recent = TRUE, !.inFlight = TRUE]
    /\ recent' = TRUE

Look(s, release) ==
    LET urgent == release \/ s.urgent IN
    \/ LookOff
    \/ LookFails(s)
    \/ LookBacksOff(s, urgent)
    \/ LookRuns(s)
    \/ /\ Read /\ ~backoff /\ ~lease
       /\ \/ LookNothingDue(s) \/ LookNotYet(s, urgent) \/ LookHolds(s, urgent)
          \/ \E f \in Flights : LookSends(s, urgent, f)

-----------------------------------------------------------------------------
\* The task's wakeups.  on_change: an event of the domain arms a look of its
\* reflect slot.
OnChange ==
    /\ event \in {"threads", "sources"}
    /\ event' = "none"
    /\ slot' = IF event = "threads" THEN Armed(Slot) ELSE [Armed(Slot) EXCEPT !.quiet = FALSE]
    /\ UNCHANGED <<loop, cut, known, flight, work, bounds, recent, owed>>

\* on_lag: a source change everywhere.
OnLag ==
    /\ event = "lag"
    /\ event' = "none"
    /\ slot' = IF known THEN [Armed(Slot) EXCEPT !.quiet = FALSE] ELSE slot
    /\ UNCHANGED <<loop, cut, known, flight, work, bounds, recent, owed>>

\* lease_tick: the trigger domains are read again.  The first tick of a
\* reflect slot arms its look.
LeaseTick ==
    /\ known' = trigger
    /\ ~(trigger /\ ~lease /\ Slot.afterLease)
    /\ slot' = CASE ~trigger -> slot
                 [] trigger /\ lease -> [Slot EXCEPT !.afterLease = TRUE]
                 [] trigger /\ ~lease /\ slot = NoSlot /\ Reflects -> Armed(Fresh)
                 [] OTHER -> Slot
    /\ UNCHANGED <<loop, cut, flight, work, event, bounds, recent, owed>>

\* A lease that went away is looked at, urgently.
ReleaseTick ==
    /\ trigger /\ ~lease /\ Slot.afterLease
    /\ known' = TRUE
    /\ Look([slot EXCEPT !.afterLease = FALSE], TRUE)
    /\ UNCHANGED <<loop, work, event, faults, owed>>

EvolveTick ==
    /\ ~Reflects /\ known
    /\ Look(Slot, FALSE)
    /\ UNCHANGED <<loop, known, work, event, faults, owed>>

\* due_looks takes the timer of what is due.
DueLook ==
    /\ slot # NoSlot
    /\ slot.armed
    /\ Look([slot EXCEPT !.armed = FALSE], FALSE)
    /\ UNCHANGED <<loop, known, work, event, faults, owed>>

-----------------------------------------------------------------------------
\* A delivery.  A retry looks at the lease before it posts.
Posting(f) == flight[f].try > 0 /\ flight[f].end = "none"
MayPost(f) == Posting(f) /\ (flight[f].try > 1 => ~lease)

PostTaken(f) ==
    /\ MayPost(f)
    /\ flight' = [flight EXCEPT ![f].end = "sent"]
    /\ owed' = FALSE
    /\ UNCHANGED <<loop, cut, slot, known, work, event, bounds, recent>>

\* A try that failed: there is another, or the delivery has failed.
Retried(d) ==
    IF d.try < Attempts THEN [d EXCEPT !.try = @ + 1] ELSE [d EXCEPT !.end = "failed"]

PostFails(f) ==
    /\ MayPost(f)
    /\ faults + odd < MaxFaults
    /\ faults' = faults + 1
    /\ flight' = [flight EXCEPT ![f] = Retried(@)]
    /\ UNCHANGED <<loop, cut, slot, known, work, event, odd, recent, owed>>

RetryYields(f) ==
    /\ Posting(f)
    /\ flight[f].try > 1 /\ lease
    /\ flight' = [flight EXCEPT ![f].end = "lease"]
    /\ UNCHANGED <<loop, cut, slot, known, work, event, bounds, recent, owed>>

\* The delivery's task panics or is cut off.
Breaks(f) ==
    /\ Posting(f)
    /\ faults + odd < MaxFaults
    /\ faults' = faults + 1
    /\ flight' = [flight EXCEPT ![f].end = "failed"]
    /\ UNCHANGED <<loop, cut, slot, known, work, event, odd, recent, owed>>

\* What the end of a delivery makes of the slot.
Settled(end) ==
    CASE end = "sent" -> [Slot EXCEPT !.inFlight = FALSE, !.waits = FALSE]
      [] end = "failed" ->
           [Armed(Slot) EXCEPT !.inFlight = FALSE, !.waits = TRUE, !.urgent = TRUE]
      [] end = "lease" -> [Slot EXCEPT !.inFlight = FALSE, !.afterLease = TRUE]

Delivered(f) ==
    /\ flight[f].end # "none"
    /\ slot' = Settled(flight[f].end)
    /\ flight' = [flight EXCEPT ![f] = NoFlight]
    /\ UNCHANGED <<loop, cut, known, work, event, bounds, recent, owed>>

\* The daemon restarts: the slots and what is in flight are in memory only,
\* and so is the cap.
Restart ==
    /\ faults + odd < MaxFaults
    /\ faults' = faults + 1
    /\ slot' = NoSlot /\ known' = FALSE /\ event' = "none"
    /\ flight' = [f \in Flights |-> NoFlight]
    /\ recent' = FALSE
    /\ UNCHANGED <<loop, cut, work, odd, owed>>

Delivers ==
    \E f \in Flights :
        PostTaken(f) \/ PostFails(f) \/ RetryYields(f) \/ Breaks(f) \/ Delivered(f)

Surroundings ==
    \/ PeopleAsk \/ RunStarts \/ RunEnds \/ BackoffEnds \/ Toggle \/ Laps
    \/ \E n \in 0..MaxCount[loop] : CountMoves(n)

TriggerNext ==
    \/ Surroundings \/ RateEnds \/ WaitEnds \/ QuietEnds
    \/ OnChange \/ OnLag \/ LeaseTick \/ ReleaseTick \/ EvolveTick \/ DueLook
    \/ Delivers \/ Restart

TriggerSpec == TriggerInit /\ [][TriggerNext]_triggerVars

\* The task's select takes every arm that stays ready, time goes on, and a
\* run ends or its lease goes stale.
TriggerFairSpec ==
    /\ TriggerSpec
    /\ WF_triggerVars(RateEnds) /\ WF_triggerVars(WaitEnds) /\ WF_triggerVars(QuietEnds)
    /\ WF_triggerVars(OnChange \/ OnLag) /\ WF_triggerVars(LeaseTick \/ ReleaseTick)
    /\ WF_triggerVars(EvolveTick) /\ WF_triggerVars(DueLook)
    /\ \A f \in Flights : WF_triggerVars(PostTaken(f) \/ RetryYields(f)) /\ WF_triggerVars(Delivered(f))
    /\ WF_triggerVars(RunEnds) /\ WF_triggerVars(BackoffEnds)

-----------------------------------------------------------------------------
\* A slot says a delivery is in flight exactly while there is one, so no slot
\* is left unable to send and no two deliveries of a loop run side by side;
\* unless the trigger was read as off over one, which forgets it.
InFlightIsTrue ==
    ~cut =>
    /\ Cardinality(InTheAir) <= 1
    /\ InTheAir # {} <=> (slot # NoSlot /\ Slot.inFlight)

\* A delivery starts.
Starts == \E f \in Flights : flight[f] = NoFlight /\ flight'[f] # NoFlight

\* No delivery starts within RATE_LIMIT of the one before, whatever asks for
\* it ("At most one delivery per domain and loop per [RATE_LIMIT], and that
\* cap wins over everything above"), but for a trigger read as off and on
\* again in between.
CapHolds ==
    [][Starts => ~recent \/ cut]_triggerVars

\* A slot that owes a send keeps owing it, whatever fails, until it sends,
\* finds nothing due, is turned off or is lost with the daemon ("keeping a
\* send it was owed").
Owes(s) == s # NoSlot /\ s.urgent
OwedIsKept ==
    [][Owes(slot) /\ ~Owes(slot') =>
         Starts \/ ~Work \/ ~trigger \/ faults' # faults]_triggerVars

\* Work that came up is told to the receiver, or is done or gone, across
\* failed deliveries, runs, backoffs, lags and restarts ("A delivery whose
\* attempts all failed stays owed and is sent again"), as long as the task
\* reads the trigger and the status, and sees the runs and the lags.
WorkIsTold == owed ~> (~owed \/ odd > 0)
=============================================================================
