------------------------- MODULE AutomationLeaseProofs -------------------------
(***************************************************************************)
(* For any runners, accounts and files, any number of takes and any losses: *)
(* a run is in the history once, and is there unless a daemon died; and a   *)
(* pull request carries only what its run's account wrote.                  *)
(***************************************************************************)
EXTENDS AutomationLease, SequenceTheorems, TLAPS

Entries == [token : Tokens, outcome : Outcomes, pr : BOOLEAN]

\* A take makes a token that nobody has and nothing names.
TokensAreOld ==
    /\ lease.token <= takes
    /\ \A r \in Runners : run[r].token <= takes
    /\ \A i \in DOMAIN history :
         history[i].token <= takes /\ history[i].token # lease.token

\* The runner that carries the lease's token is the one the lease names.
HolderIsRunner == \A r \in Runners : Holds(r) => lease.runner = r

\* The runs and their records.
Records == TokensAreOld /\ HolderIsRunner /\ RecordedOnce /\ EveryRunIsInHistory

\* What is noted for a lease was written by the account it runs as ...
WrittenIsOwn ==
    lease # NoLease /\ AccountOf[lease.runner] # Owner =>
        \A p \in lease.written : <<AccountOf[lease.runner], p>> \in wrote

\* ... and so is what its run is about to push.
FilesAreOwn ==
    \A r \in Runners :
        AccountOf[r] # Owner => \A p \in run[r].files : <<AccountOf[r], p>> \in wrote

Own == noting \subseteq wrote /\ WrittenIsOwn /\ FilesAreOwn /\ SharesOnlyOwnWrites

\* What a take looked at is still so when it claims; ...
LookedIsNow ==
    \A r \in Runners :
        run[r].at = "looked" => run[r].start = unshared /\ run[r].files = {}

\* ... so what its lease does not hold back was clean when it took it.
HeldBack == \A r \in Runners : Holds(r) => Paths \ lease.start \subseteq run[r].clean
FilesAreClean == \A r \in Runners : run[r].files \subseteq run[r].clean

Clean == LookedIsNow /\ HeldBack /\ FilesAreClean /\ SharesOnlyWhatWasClean

-----------------------------------------------------------------------------
LEMMA LeaseType ==
    ASSUME TypeOK
    PROVE  /\ lease.token \in Nat /\ takes \in Nat /\ MaxTakes \in Nat
           /\ lease.token = 0 <=> lease = NoLease
           /\ lease # NoLease => lease \in Leases
  BY LeaseAssumption DEF TypeOK, Leases, NoLease, Tokens

LEMMA HistoryType ==
    ASSUME TypeOK
    PROVE  /\ history \in Seq(Entries) /\ Len(history) \in Nat
           /\ DOMAIN history = 1..Len(history)
           /\ \A i \in DOMAIN history : history[i] \in Entries
  <1>1. history \in Seq(Entries)
    BY DEF TypeOK, Entries
  <1>2. \A i \in 1..Len(history) : history[i] \in Entries
    BY <1>1, ElementOfSeq
  <1> QED
    BY <1>1, <1>2, LenProperties

LEMMA RunType ==
    ASSUME TypeOK PROVE \A r \in Runners : run[r].token \in Nat
  BY LeaseAssumption DEF TypeOK

LEMMA AppendType ==
    ASSUME TypeOK, NEW e \in Entries, history' = Append(history, e)
    PROVE  /\ history' \in Seq(Entries)
           /\ \A i \in DOMAIN history' : history'[i].token \in Tokens
  <1>1. history' \in Seq(Entries)
    BY HistoryType, AppendProperties
  <1>2. \A i \in 1..Len(history') : history'[i] \in Entries
    BY <1>1, ElementOfSeq
  <1>3. DOMAIN history' = 1..Len(history')
    BY <1>1, LenProperties
  <1> QED
    BY <1>1, <1>2, <1>3 DEF Entries

LEMMA ExpiredType ==
    ASSUME TypeOK, lease # NoLease
    PROVE  /\ Entry(lease.token, "expired", lease.pr) \in Entries
           /\ history \o Expired = Append(history, Entry(lease.token, "expired", lease.pr))
  <1>1. lease \in Leases
    BY LeaseType
  <1>2. Entry(lease.token, "expired", lease.pr) \in Entries
    BY <1>1 DEF Entry, Entries, Leases, Outcomes
  <1> QED
    BY <1>2, HistoryType, AppendIsConcat DEF Expired

LEMMA NothingExpired ==
    ASSUME TypeOK, lease = NoLease PROVE history \o Expired = history
  BY HistoryType, ConcatEmptySeq DEF Expired

LEMMA OwnEntryType ==
    ASSUME TypeOK, NEW r \in Runners, Holds(r)
    PROVE  /\ Entry(run[r].token, run[r].outcome, lease.pr) \in Entries
           /\ lease \in Leases
  <1>1. run[r].token \in 0..MaxTakes /\ run[r].outcome \in Outcomes
    BY DEF TypeOK
  <1>2. lease # NoLease
    BY <1>1 DEF Holds, NoLease
  <1>3. lease \in Leases
    BY <1>2, LeaseType
  <1> QED
    BY <1>1, <1>3, LeaseAssumption DEF Holds, Entry, Entries, Leases, Tokens

-----------------------------------------------------------------------------
\* The steps that leave the history and whose lease it is alone.
LEMMA QuietKeepsRecords ==
    ASSUME TypeOK, Records, UNCHANGED <<takes, history, torn>>,
           lease'.token = lease.token, lease'.runner = lease.runner \/ lease = NoLease,
           \A r \in Runners : run'[r].token \in {run[r].token, 0}
    PROVE  Records'
  <1>1. TokensAreOld'
    BY LeaseType, HistoryType DEF Records, TokensAreOld
  <1>2. HolderIsRunner'
    BY LeaseType DEF Records, HolderIsRunner, Holds
  <1>3. RecordedOnce' /\ EveryRunIsInHistory'
    BY DEF Records, RecordedOnce, EveryRunIsInHistory, Recorded
  <1> QED
    BY <1>1, <1>2, <1>3 DEF Records

\* What Append does to the history's own properties.
LEMMA AppendKeepsRecords ==
    ASSUME TypeOK, Records, NEW e \in Entries, e.token = lease.token,
           history' = Append(history, e)
    PROVE  /\ RecordedOnce'
           /\ \A t \in Int : Recorded(t) \/ t = lease.token => Recorded(t)'
           /\ \A i \in DOMAIN history' : history'[i].token <= takes
  <1>1. /\ Len(history) \in Nat /\ DOMAIN history = 1..Len(history)
        /\ \A i \in DOMAIN history : history[i] \in Entries
    BY HistoryType
  <1>2. /\ DOMAIN history' = 1..(Len(history) + 1)
        /\ \A i \in 1..Len(history) : history'[i] = history[i]
        /\ history'[Len(history) + 1] = e
    BY <1>1, HistoryType, AppendProperties, LenProperties
  <1>3. RecordedOnce'
    <2> SUFFICES ASSUME NEW i \in DOMAIN history', NEW j \in DOMAIN history',
                        history'[i].token = history'[j].token
                 PROVE  i = j
      BY DEF RecordedOnce
    <2>1. CASE i \in DOMAIN history /\ j \in DOMAIN history
      BY <1>1, <1>2, <2>1 DEF Records, RecordedOnce
    <2>2. CASE i \notin DOMAIN history \/ j \notin DOMAIN history
      BY <1>1, <1>2, <2>2 DEF Records, TokensAreOld
    <2> QED
      BY <2>1, <2>2
  <1>4. ASSUME NEW t \in Int, Recorded(t) \/ t = lease.token PROVE Recorded(t)'
    BY <1>1, <1>2, <1>4 DEF Recorded
  <1>5. ASSUME NEW i \in DOMAIN history' PROVE history'[i].token <= takes
    BY <1>1, <1>2 DEF Records, TokensAreOld
  <1> QED
    BY <1>3, <1>4, <1>5

\* A take: what it replaced is recorded as expired, or torn.
LEMMA ClaimKeepsRecords ==
    ASSUME TypeOK, Records, NEW r \in Runners,
           takes' = takes + 1, lease' = Claimed(r, takes'),
           \A q \in Runners : run'[q].token \in {run[q].token, 0}
                              \/ (q = r /\ run'[q].token = takes'),
           \/ history' = history \o Expired /\ torn' = torn
           \/ lease # NoLease /\ history' = history /\ torn' = torn \cup {lease.token}
    PROVE  Records'
  <1>1. lease'.token = takes + 1 /\ lease'.runner = r /\ takes \in Nat /\ takes' \in Nat
    BY LeaseType DEF Claimed
  <1>2. HolderIsRunner'
    BY <1>1, LeaseType DEF Records, TokensAreOld, HolderIsRunner, Holds, TypeOK
  <1>3. \A q \in Runners : run'[q].token <= takes'
    BY <1>1, RunType DEF Records, TokensAreOld
  <1>4. CASE history' = history
    <2>1. TokensAreOld'
      <3>1. \A i \in DOMAIN history :
              history[i].token \in Int /\ history[i].token <= takes
        BY HistoryType DEF Records, TokensAreOld, Entries, Tokens
      <3> QED
        BY <1>1, <1>3, <1>4, <3>1 DEF TokensAreOld
    <2>2. RecordedOnce'
      BY <1>4 DEF Records, RecordedOnce
    <2>3. EveryRunIsInHistory'
      <3> SUFFICES ASSUME NEW t \in 1..takes', ~(lease'.token = t)
                   PROVE  Recorded(t)' \/ t \in torn'
        BY DEF EveryRunIsInHistory
      <3>1. t \in 1..takes
        BY <1>1
      <3>2. Recorded(t) \/ lease.token = t \/ t \in torn
        BY <3>1 DEF Records, EveryRunIsInHistory
      <3>3. lease.token = t => lease # NoLease
        BY <3>1, LeaseType
      <3>4. CASE torn' = torn \cup {lease.token}
        BY <1>4, <3>2, <3>4 DEF Recorded
      <3>5. CASE history' = history \o Expired /\ torn' = torn
        <4>1. lease = NoLease
          <5> SUFFICES ASSUME lease # NoLease PROVE FALSE
            OBVIOUS
          <5>1. /\ history' = Append(history, Entry(lease.token, "expired", lease.pr))
                /\ Entry(lease.token, "expired", lease.pr) \in Entries
            BY <3>5, ExpiredType
          <5>2. Len(history') = Len(history) + 1 /\ Len(history) \in Nat
            BY <5>1, HistoryType, AppendProperties
          <5> QED
            BY <1>4, <5>2
        <4> QED
          BY <1>4, <3>2, <3>3, <3>5, <4>1 DEF Recorded
      <3> QED
        BY <3>4, <3>5
    <2> QED
      BY <1>2, <2>1, <2>2, <2>3 DEF Records
  <1>5. CASE lease # NoLease /\ history' = history \o Expired /\ torn' = torn
    <2> DEFINE e == Entry(lease.token, "expired", lease.pr)
    <2>1. e \in Entries /\ e.token = lease.token /\ history' = Append(history, e)
      BY <1>5, ExpiredType DEF Entry
    <2> HIDE DEF e
    <2>2. /\ RecordedOnce'
          /\ \A t \in Int : Recorded(t) \/ t = lease.token => Recorded(t)'
          /\ \A i \in DOMAIN history' : history'[i].token <= takes
      BY <2>1, AppendKeepsRecords
    <2>3. \A i \in DOMAIN history' : history'[i].token \in Int
      BY <2>1, AppendType DEF Tokens
    <2>4. TokensAreOld'
      BY <1>1, <1>3, <2>2, <2>3 DEF TokensAreOld
    <2>5. EveryRunIsInHistory'
      BY <1>1, <1>5, <2>2 DEF Records, EveryRunIsInHistory
    <2> QED
      BY <1>2, <2>2, <2>4, <2>5 DEF Records
  <1> QED
    BY <1>4, <1>5, NothingExpired

\* A record: the holder's lease goes, and its run is recorded or torn.
LEMMA ReleaseKeepsRecords ==
    ASSUME TypeOK, Records, NEW r \in Runners, Holds(r), lease' = NoLease,
           UNCHANGED takes, \A q \in Runners : run'[q].token \in {run[q].token, 0},
           \/ /\ history' = Append(history, Entry(run[r].token, run[r].outcome, lease.pr))
              /\ torn' = torn
           \/ history' = history /\ torn' = torn \cup {run[r].token}
    PROVE  Records'
  <1>1. lease'.token = 0 /\ takes \in Nat /\ lease.token = run[r].token
    BY LeaseType DEF NoLease, Holds
  <1>2. HolderIsRunner'
    BY <1>1 DEF HolderIsRunner, Holds
  <1>3. \A q \in Runners : run'[q].token <= takes'
    BY <1>1 DEF Records, TokensAreOld
  <1>4. CASE history' = history /\ torn' = torn \cup {run[r].token}
    <2>1. TokensAreOld'
      BY <1>1, <1>3, <1>4, HistoryType DEF Records, TokensAreOld, Entries, Tokens
    <2>2. RecordedOnce' /\ EveryRunIsInHistory'
      BY <1>1, <1>4 DEF Records, RecordedOnce, EveryRunIsInHistory, Recorded
    <2> QED
      BY <1>2, <2>1, <2>2 DEF Records
  <1>5. CASE /\ history' = Append(history, Entry(run[r].token, run[r].outcome, lease.pr))
             /\ torn' = torn
    <2> DEFINE e == Entry(run[r].token, run[r].outcome, lease.pr)
    <2>1. e \in Entries /\ e.token = lease.token /\ history' = Append(history, e)
      BY <1>1, <1>5, OwnEntryType DEF Entry
    <2> HIDE DEF e
    <2>2. /\ RecordedOnce'
          /\ \A t \in Int : Recorded(t) \/ t = lease.token => Recorded(t)'
          /\ \A i \in DOMAIN history' : history'[i].token <= takes
      BY <2>1, AppendKeepsRecords
    <2>3. \A i \in DOMAIN history' : history'[i].token \in Tokens
      BY <2>1, AppendType
    <2>4. TokensAreOld'
      BY <1>1, <1>3, <2>2, <2>3 DEF TokensAreOld, Tokens
    <2>5. EveryRunIsInHistory'
      BY <1>1, <1>5, <2>2 DEF Records, EveryRunIsInHistory
    <2> QED
      BY <1>2, <2>2, <2>4, <2>5 DEF Records
  <1> QED
    BY <1>4, <1>5

-----------------------------------------------------------------------------
Where == {"idle", "looked", "working", "sharing", "pushing", "proposed", "ended"}
Numbers == 0..MaxTakes
Tries == 0..(MaxRecords - 1)
Runs ==
    [at : Where, token : Numbers, start : SUBSET Paths, clean : SUBSET Paths,
     files : SUBSET Paths, outcome : Outcomes, tries : Tries]

\* TypeOK of what the runs change, and of the rest.
LeaseTypes ==
    /\ lease \in Leases \cup {NoLease}
    /\ takes \in 0..MaxTakes
    /\ history \in Seq(Entries)
    /\ run \in [Runners -> Runs]
WorldTypes ==
    /\ unshared \subseteq Paths
    /\ noting \subseteq Accounts \X Paths /\ wrote \subseteq Accounts \X Paths
    /\ shared \subseteq [token : Tokens, path : Paths, account : Accounts \cup {Owner}, clean : BOOLEAN]
    /\ torn \subseteq Tokens /\ told \subseteq Tokens
    /\ faults \in 0..MaxFaults

Types == LeaseTypes /\ WorldTypes

LEMMA TypeParts == TypeOK <=> Types
  BY DEF TypeOK, Types, LeaseTypes, WorldTypes, Entries, Runs, Where, Numbers, Tries

LEMMA TypePartsNext == TypeOK' <=> Types'
  BY DEF TypeOK, Types, LeaseTypes, WorldTypes, Entries, Runs, Where, Numbers, Tries

LEMMA IdleType == Idle \in Runs
  BY LeaseAssumption DEF Idle, Runs, Where, Outcomes, Numbers, Tries

\* Only a run that took a lease is past its look.
Carries == \A r \in Runners : run[r].at \notin {"idle", "looked"} => run[r].token # 0

LEMMA ClaimTypes ==
    ASSUME TypeOK, NEW r \in Runners, takes < MaxTakes, takes' = takes + 1,
           lease' = Claimed(r, takes'), history' \in {history, history \o Expired},
           run' \in [Runners -> Runs]
    PROVE  LeaseTypes'
  <1>1. takes' \in Tokens /\ takes' \in 0..MaxTakes
    BY LeaseType DEF Tokens
  <1>2. lease' \in Leases
    BY <1>1 DEF Claimed, Leases, TypeOK
  <1>3. history' \in Seq(Entries)
    <2>1. CASE lease = NoLease
      BY <2>1, HistoryType, NothingExpired
    <2>2. CASE lease # NoLease
      <3> DEFINE e == Entry(lease.token, "expired", lease.pr)
      <3>1. e \in Entries /\ history \o Expired = Append(history, e)
        BY <2>2, ExpiredType
      <3> HIDE DEF e
      <3>2. Append(history, e) \in Seq(Entries)
        BY <3>1, HistoryType, AppendProperties
      <3> QED
        BY <3>1, <3>2, HistoryType
    <2> QED
      BY <2>1, <2>2
  <1> QED
    BY <1>1, <1>2, <1>3 DEF LeaseTypes

LEMMA TypeStep == ASSUME TypeOK, Carries, Next PROVE TypeOK'
  <1> SUFFICES Types'
    BY TypePartsNext
  <1> Types
    BY TypeParts
  <1> USE LeaseAssumption, IdleType DEF Types, LeaseTypes, WorldTypes
  <1>1. ASSUME NEW r \in Runners, Look(r) PROVE Types'
    BY <1>1 DEF Look, world, Runs, Where, Idle
  <1>2. ASSUME NEW r \in Runners, TakeRefused(r) PROVE Types'
    BY <1>2 DEF TakeRefused, world
  <1>3. ASSUME NEW r \in Runners, Take(r) PROVE Types'
    <2>1. takes' \in Numbers /\ Paths \ unshared \in SUBSET Paths /\ run[r] \in Runs
      BY <1>3, LeaseType DEF Take, Numbers
    <2>2. [run[r] EXCEPT !.at = "working", !.token = takes', !.clean = Paths \ unshared]
            \in Runs
      BY <2>1 DEF Runs, Where
    <2>3. run' \in [Runners -> Runs]
      BY <1>3, <2>2 DEF Take
    <2> QED
      BY <1>3, <2>3, ClaimTypes DEF Take, world
  <1>4. ASSUME NEW r \in Runners, TakeUnheard(r) PROVE Types'
    <2>1. run' \in [Runners -> Runs]
      BY <1>4 DEF TakeUnheard
    <2> QED
      BY <1>4, <2>1, ClaimTypes DEF TakeUnheard, world
  <1>5. ASSUME NEW r \in Runners, TakeTorn(r) PROVE Types'
    <2>1. run' \in [Runners -> Runs] /\ lease.token \in Tokens
      BY <1>5, LeaseType DEF TakeTorn, Leases
    <2> QED
      BY <1>5, <2>1, ClaimTypes DEF TakeTorn, world
  <1>6. ASSUME NEW r \in Runners, Renew(r) \/ ShareNotes(r) PROVE Types'
    <2>1. lease \in Leases => /\ [lease EXCEPT !.stale = FALSE] \in Leases
                              /\ [lease EXCEPT !.pr = TRUE] \in Leases
      BY DEF Leases
    <2>2. Holds(r) => lease \in Leases
      BY OwnEntryType
    <2>3. run' \in [Runners -> Runs]
      BY <1>6 DEF Renew, ShareNotes, Runs, Where
    <2> QED
      BY <1>6, <2>1, <2>2, <2>3 DEF Renew, ShareNotes, world
  <1>7. ASSUME NEW r \in Runners, LeaseLost(r) \/ AgentExits(r) \/ Stopped(r) PROVE Types'
    <2>1. run[r] \in Runs
      OBVIOUS
    <2>2. \A w \in Where, o \in Outcomes : [run[r] EXCEPT !.at = w, !.outcome = o] \in Runs
      <3> TAKE w \in Where, o \in Outcomes
      <3> QED
        BY <2>1 DEF Runs
    <2>3. \E w \in Where, o \in Outcomes :
            run' = [run EXCEPT ![r] = [run[r] EXCEPT !.at = w, !.outcome = o]]
      <3>1. CASE LeaseLost(r) \/ Stopped(r)
        BY <3>1 DEF LeaseLost, Stopped, Where, Outcomes
      <3>2. CASE AgentExits(r)
        BY <3>2 DEF AgentExits, Where, Outcomes
      <3> QED
        BY <1>7, <3>1, <3>2
    <2>4. run' \in [Runners -> Runs]
      BY <2>2, <2>3
    <2> QED
      BY <1>7, <2>4 DEF LeaseLost, AgentExits, Stopped, world
  <1>8. ASSUME NEW r \in Runners, Dies(r) PROVE Types'
    BY <1>8 DEF Dies, world
  <1>9. ASSUME NEW r \in Runners, ShareLists(r) \/ ShareRefused(r) PROVE Types'
    <2>1. Shareable \subseteq Paths
      BY DEF Shareable
    <2>2. run[r] \in Runs
      OBVIOUS
    <2>3. /\ [run[r] EXCEPT !.at = "ended"] \in Runs
          /\ [run[r] EXCEPT !.at = "pushing", !.files = Shareable] \in Runs
      BY <2>1, <2>2 DEF Runs, Where
    <2>4. run' \in [Runners -> Runs]
      BY <1>9, <2>3 DEF ShareLists, ShareRefused
    <2> QED
      BY <1>9, <2>4 DEF ShareLists, ShareRefused, world
  <1>10. ASSUME NEW r \in Runners, SharePushes(r) PROVE Types'
    <2>1. run[r] \in Runs /\ run[r].at = "pushing"
      BY <1>10 DEF SharePushes
    <2>2. run[r].token \in Tokens /\ AccountOf[r] \in Accounts \cup {Owner}
      BY <2>1 DEF Carries, Tokens, Runs, Numbers
    <2>3. run' \in [Runners -> Runs]
      BY <1>10, <2>1 DEF SharePushes, Runs, Where
    <2>4. shared' \subseteq [token : Tokens, path : Paths, account : Accounts \cup {Owner},
                             clean : BOOLEAN]
      <3>1. \A p \in run[r].files \cap unshared :
              [token |-> run[r].token, path |-> p, account |-> AccountOf[r],
               clean |-> p \in run[r].clean]
                \in [token : Tokens, path : Paths, account : Accounts \cup {Owner},
                    clean : BOOLEAN]
        BY <2>2
      <3>2. shared' = shared \cup
              {[token |-> run[r].token, path |-> p, account |-> AccountOf[r],
                clean |-> p \in run[r].clean] : p \in run[r].files \cap unshared}
        BY <1>10 DEF SharePushes
      <3> QED
        BY <3>1, <3>2
    <2> QED
      BY <1>10, <2>3, <2>4 DEF SharePushes, world
  <1>11. ASSUME NEW r \in Runners,
                Record(r) \/ RecordUnheard(r) \/ RecordTorn(r) \/ RecordLost(r)
                \/ RecordRefused(r)
         PROVE  Types'
    <2>1. run[r] \in Runs /\ run[r].at = "ended"
      BY <1>11 DEF Record, RecordUnheard, RecordTorn, RecordLost, RecordRefused
    <2>2. run[r].token \in Tokens
      <3>1. run[r].token # 0
        BY <2>1 DEF Carries
      <3>2. run[r].token \in 0..MaxTakes
        BY <2>1 DEF Runs, Numbers
      <3> QED
        BY <3>1, <3>2 DEF Tokens
    <2>3. Unheard(r) => run' \in [Runners -> Runs] /\ told' \subseteq Tokens
      <3>1. CASE run[r].tries + 1 < MaxRecords
        <4>1. run[r].tries + 1 \in Tries
          BY <2>1, <3>1 DEF Runs, Tries
        <4>2. [run[r] EXCEPT !.tries = @ + 1] \in Runs
          BY <2>1, <4>1 DEF Runs
        <4> QED
          BY <3>1, <4>2 DEF Unheard
      <3>2. CASE ~(run[r].tries + 1 < MaxRecords)
        BY <2>2, <3>2 DEF Unheard
      <3> QED
        BY <3>1, <3>2
    <2>4. run' \in [Runners -> Runs] /\ told' \subseteq Tokens
      BY <1>11, <2>2, <2>3 DEF Record, RecordUnheard, RecordTorn, RecordLost, RecordRefused
    <2>5. Holds(r) =>
            Append(history, Entry(run[r].token, run[r].outcome, lease.pr)) \in Seq(Entries)
      <3> SUFFICES ASSUME Holds(r)
                   PROVE  Append(history, Entry(run[r].token, run[r].outcome, lease.pr))
                            \in Seq(Entries)
        OBVIOUS
      <3>1. Entry(run[r].token, run[r].outcome, lease.pr) \in Entries
        BY OwnEntryType
      <3> QED
        BY <3>1, HistoryType, AppendProperties
    <2>6. history' \in Seq(Entries) /\ lease' \in Leases \cup {NoLease}
      BY <1>11, <2>5 DEF Record, RecordUnheard, RecordTorn, RecordLost, RecordRefused, Releases
    <2> QED
      BY <1>11, <2>2, <2>4, <2>6
         DEF Record, RecordUnheard, RecordTorn, RecordLost, RecordRefused, world
  <1>12. CASE Lapses
    BY <1>12 DEF Lapses, world, Leases
  <1>13. ASSUME NEW p \in Paths, PersonEdits(p) \/ Settles(p) PROVE Types'
    BY <1>13 DEF PersonEdits, Settles
  <1>14. ASSUME NEW a \in Accounts, NEW p \in Paths, McpWrites(a, p) PROVE Types'
    BY <1>14 DEF McpWrites
  <1>15. ASSUME NEW a \in Accounts, NEW p \in Paths, NoteWritten(a, p) PROVE Types'
    BY <1>15 DEF NoteWritten, NotesIn, Leases
  <1> QED
    BY <1>1, <1>2, <1>3, <1>4, <1>5, <1>6, <1>7, <1>8, <1>9, <1>10, <1>11, <1>12,
       <1>13, <1>14, <1>15 DEF Next

\* Apart from a take, a step of a runner keeps its token or drops it, and only
\* one that had a token goes on.
TokensKept ==
    \A q \in Runners :
        /\ run'[q].token \in {run[q].token, 0}
        /\ run'[q].at \notin {"idle", "looked"} =>
             run[q].at \notin {"idle", "looked"} /\ run'[q].token = run[q].token

LEMMA RunsKeepTokens ==
    ASSUME TypeOK, NEW r \in Runners,
           \/ Look(r) \/ TakeRefused(r) \/ TakeUnheard(r) \/ TakeTorn(r) \/ Dies(r)
           \/ Renew(r) \/ LeaseLost(r) \/ AgentExits(r) \/ Stopped(r)
           \/ ShareLists(r) \/ ShareRefused(r) \/ SharePushes(r) \/ ShareNotes(r)
           \/ Record(r) \/ RecordRefused(r)
           \/ RecordUnheard(r) \/ RecordTorn(r) \/ RecordLost(r)
    PROVE  TokensKept
  <1>1. run \in [Runners -> Runs]
    BY TypeParts DEF Types, LeaseTypes
  <1>2. run[r] \in Runs
    BY <1>1
  <1> USE DEF TokensKept, Idle
  <1>3. CASE TakeRefused(r) \/ TakeUnheard(r) \/ TakeTorn(r) \/ Dies(r) \/ Record(r)
             \/ RecordRefused(r)
    <2>1. run' = [run EXCEPT ![r] = Idle]
      BY <1>3 DEF TakeRefused, TakeUnheard, TakeTorn, Dies, Record, RecordRefused
    <2> QED
      BY <1>1, <2>1
  <1>4. CASE Look(r)
    BY <1>1, <1>4 DEF Look
  <1>5. CASE Renew(r)
    BY <1>5 DEF Renew
  <1>6. CASE RecordUnheard(r) \/ RecordTorn(r) \/ RecordLost(r)
    <2>1. Unheard(r)
      BY <1>6 DEF RecordUnheard, RecordTorn, RecordLost
    <2> QED
      BY <1>1, <1>2, <2>1 DEF Unheard, Runs
  <1>7. CASE LeaseLost(r)
    BY <1>1, <1>2, <1>7 DEF LeaseLost, Runs
  <1>8. CASE AgentExits(r)
    BY <1>1, <1>2, <1>8 DEF AgentExits, Runs
  <1>9. CASE Stopped(r)
    BY <1>1, <1>2, <1>9 DEF Stopped, Runs
  <1>10. CASE ShareLists(r)
    BY <1>1, <1>2, <1>10 DEF ShareLists, Runs
  <1>11. CASE ShareRefused(r)
    BY <1>1, <1>2, <1>11 DEF ShareRefused, Runs
  <1>12. CASE SharePushes(r)
    BY <1>1, <1>2, <1>12 DEF SharePushes, Runs
  <1>13. CASE ShareNotes(r)
    BY <1>1, <1>2, <1>13 DEF ShareNotes, Runs
  <1> QED
    BY <1>3, <1>4, <1>5, <1>6, <1>7, <1>8, <1>9, <1>10, <1>11, <1>12, <1>13

LEMMA CarriesStep == ASSUME TypeOK, Carries, Next PROVE Carries'
  <1>1. ASSUME TokensKept PROVE Carries'
    BY <1>1 DEF Carries, TokensKept
  <1>2. ASSUME NEW r \in Runners, Take(r) PROVE Carries'
    BY <1>2, LeaseType DEF Take, TypeOK, Carries
  <1>3. ASSUME UNCHANGED run PROVE Carries'
    BY <1>3 DEF Carries
  <1> QED
    BY <1>1, <1>2, <1>3, RunsKeepTokens
       DEF Next, Lapses, PersonEdits, Settles, McpWrites, NoteWritten

LEMMA RecordsStep == ASSUME TypeOK, Records, Next PROVE Records'
  <1>1. ASSUME NEW r \in Runners, Look(r) \/ TakeRefused(r) \/ Dies(r) PROVE Records'
    BY <1>1, RunsKeepTokens, QuietKeepsRecords DEF Look, TakeRefused, Dies, TokensKept
  <1>2. ASSUME NEW r \in Runners, Take(r) \/ TakeUnheard(r) \/ TakeTorn(r) PROVE Records'
    <2>1. \A q \in Runners : run'[q].token \in {run[q].token, 0}
                             \/ (q = r /\ run'[q].token = takes')
      BY <1>2 DEF Take, TakeUnheard, TakeTorn, Idle, TypeOK
    <2>2. takes' = takes + 1 /\ lease' = Claimed(r, takes')
      BY <1>2 DEF Take, TakeUnheard, TakeTorn
    <2>3. \/ history' = history \o Expired /\ torn' = torn
          \/ lease # NoLease /\ history' = history /\ torn' = torn \cup {lease.token}
      BY <1>2 DEF Take, TakeUnheard, TakeTorn
    <2> QED
      BY <2>1, <2>2, <2>3, ClaimKeepsRecords
  <1>3. ASSUME NEW r \in Runners, Renew(r) \/ ShareNotes(r) PROVE Records'
    <2>1. Holds(r) => lease \in Leases
      BY OwnEntryType
    <2>2. lease'.token = lease.token /\ lease'.runner = lease.runner
      BY <1>3, <2>1 DEF Renew, ShareNotes, Leases
    <2>3. \A q \in Runners : run'[q].token \in {run[q].token, 0}
      BY <1>3, RunsKeepTokens DEF TokensKept
    <2> QED
      BY <1>3, <2>2, <2>3, QuietKeepsRecords DEF Renew, ShareNotes
  <1>4. ASSUME NEW r \in Runners, LeaseLost(r) \/ AgentExits(r) \/ Stopped(r) PROVE Records'
    <2>1. \A q \in Runners : run'[q].token \in {run[q].token, 0}
      BY <1>4, RunsKeepTokens DEF TokensKept
    <2> QED
      BY <1>4, <2>1, QuietKeepsRecords DEF LeaseLost, AgentExits, Stopped
  <1>5. ASSUME NEW r \in Runners, ShareLists(r) \/ ShareRefused(r) \/ SharePushes(r)
        PROVE  Records'
    <2>1. \A q \in Runners : run'[q].token \in {run[q].token, 0}
      BY <1>5, RunsKeepTokens DEF TokensKept
    <2> QED
      BY <1>5, <2>1, QuietKeepsRecords DEF ShareLists, ShareRefused, SharePushes
  <1>6. ASSUME NEW r \in Runners, Record(r) \/ RecordUnheard(r) \/ RecordTorn(r)
        PROVE  Records'
    <2>1. \A q \in Runners : run'[q].token \in {run[q].token, 0}
      BY <1>6, RunsKeepTokens DEF TokensKept
    <2>2. Holds(r) /\ lease' = NoLease /\ UNCHANGED takes
      BY <1>6 DEF Record, RecordUnheard, RecordTorn, Releases
    <2>3. \/ /\ history' = Append(history, Entry(run[r].token, run[r].outcome, lease.pr))
             /\ torn' = torn
          \/ history' = history /\ torn' = torn \cup {run[r].token}
      BY <1>6 DEF Record, RecordUnheard, RecordTorn
    <2> QED
      BY <2>1, <2>2, <2>3, ReleaseKeepsRecords
  <1>7. ASSUME NEW r \in Runners, RecordLost(r) \/ RecordRefused(r) PROVE Records'
    <2>1. \A q \in Runners : run'[q].token \in {run[q].token, 0}
      BY <1>7, RunsKeepTokens DEF TokensKept
    <2> QED
      BY <1>7, <2>1, QuietKeepsRecords DEF RecordLost, RecordRefused
  <1>8. CASE Lapses
    <2>1. lease'.token = lease.token /\ lease'.runner = lease.runner
      BY <1>8, LeaseType DEF Lapses, Leases
    <2> QED
      BY <1>8, <2>1, QuietKeepsRecords DEF Lapses
  <1>9. ASSUME NEW p \in Paths,
               PersonEdits(p) \/ Settles(p) \/ \E a \in Accounts : McpWrites(a, p)
        PROVE  Records'
    BY <1>9, QuietKeepsRecords DEF PersonEdits, Settles, McpWrites
  <1>10. ASSUME NEW a \in Accounts, NEW p \in Paths, NoteWritten(a, p) PROVE Records'
    <2>1. lease'.token = lease.token /\ lease'.runner = lease.runner
      BY <1>10, LeaseType DEF NoteWritten, NotesIn, Leases
    <2> QED
      BY <1>10, <2>1, QuietKeepsRecords DEF NoteWritten
  <1> QED
    BY <1>1, <1>2, <1>3, <1>4, <1>5, <1>6, <1>7, <1>8, <1>9, <1>10 DEF Next

-----------------------------------------------------------------------------
\* Apart from a look, a take and the listing of a share, a step of a runner
\* leaves what it will push and what it found clean as they are, or drops both.
FilesKept ==
    \A q \in Runners :
        \/ run'[q] = Idle
        \/ /\ run'[q].files = run[q].files /\ run'[q].clean = run[q].clean
           /\ run'[q].at = "looked" => run'[q] = run[q]

LEMMA RunsKeepFiles ==
    ASSUME TypeOK, NEW r \in Runners,
           \/ TakeRefused(r) \/ TakeUnheard(r) \/ TakeTorn(r) \/ Dies(r)
           \/ Renew(r) \/ LeaseLost(r) \/ AgentExits(r) \/ Stopped(r)
           \/ ShareRefused(r) \/ SharePushes(r) \/ ShareNotes(r)
           \/ Record(r) \/ RecordRefused(r)
           \/ RecordUnheard(r) \/ RecordTorn(r) \/ RecordLost(r)
    PROVE  FilesKept
  <1>1. run \in [Runners -> Runs]
    BY TypeParts DEF Types, LeaseTypes
  <1>2. run[r] \in Runs
    BY <1>1
  <1> USE DEF FilesKept
  <1>3. CASE TakeRefused(r) \/ TakeUnheard(r) \/ TakeTorn(r) \/ Dies(r) \/ Record(r)
             \/ RecordRefused(r)
    <2>1. run' = [run EXCEPT ![r] = Idle]
      BY <1>3 DEF TakeRefused, TakeUnheard, TakeTorn, Dies, Record, RecordRefused
    <2> QED
      BY <1>1, <2>1
  <1>4. CASE Renew(r)
    BY <1>4 DEF Renew
  <1>5. CASE RecordUnheard(r) \/ RecordTorn(r) \/ RecordLost(r)
    <2>1. Unheard(r) /\ run[r].at = "ended"
      BY <1>5 DEF RecordUnheard, RecordTorn, RecordLost
    <2> QED
      BY <1>1, <1>2, <2>1 DEF Unheard, Runs
  <1>6. CASE LeaseLost(r)
    BY <1>1, <1>2, <1>6 DEF LeaseLost, Runs
  <1>7. CASE AgentExits(r)
    BY <1>1, <1>2, <1>7 DEF AgentExits, Runs
  <1>8. CASE Stopped(r)
    BY <1>1, <1>2, <1>8 DEF Stopped, Runs
  <1>9. CASE ShareRefused(r)
    BY <1>1, <1>2, <1>9 DEF ShareRefused, Runs
  <1>10. CASE SharePushes(r)
    BY <1>1, <1>2, <1>10 DEF SharePushes, Runs
  <1>11. CASE ShareNotes(r)
    BY <1>1, <1>2, <1>11 DEF ShareNotes, Runs
  <1> QED
    BY <1>3, <1>4, <1>5, <1>6, <1>7, <1>8, <1>9, <1>10, <1>11

LEMMA HolderOf ==
    ASSUME TypeOK, Records, NEW r \in Runners, Holds(r)
    PROVE  lease \in Leases /\ lease # NoLease /\ lease.runner = r
  <1>1. lease \in Leases /\ lease.runner = r
    BY OwnEntryType DEF Records, HolderIsRunner
  <1> QED
    BY <1>1, LeaseType DEF Leases, Tokens

\* The lease's own part of Own: a claim notes nothing yet, and a note is of
\* what its account wrote.
LEMMA WrittenStep ==
    ASSUME TypeOK, Records, Own, wrote \subseteq wrote',
           \/ lease' = NoLease
           \/ \E r \in Runners : lease' = Claimed(r, takes')
           \/ lease'.runner = lease.runner /\ lease'.written = lease.written /\ lease # NoLease
           \/ lease' = lease
    PROVE  WrittenIsOwn'
  BY DEF Own, WrittenIsOwn, Claimed

LEMMA OwnStep == ASSUME TypeOK, Records, Own, Next PROVE Own'
  <1> USE DEF Own
  <1>1. ASSUME FilesKept \/ UNCHANGED run, wrote \subseteq wrote' PROVE FilesAreOwn'
    BY <1>1 DEF FilesAreOwn, FilesKept, Idle
  <1>2. ASSUME NEW r \in Runners, Look(r) PROVE Own'
    <2>1. FilesAreOwn'
      BY <1>2 DEF Look, FilesAreOwn, Idle, world, TypeOK
    <2> QED
      BY <1>2, <2>1 DEF Look, world, WrittenIsOwn, SharesOnlyOwnWrites
  <1>3. ASSUME NEW r \in Runners, Take(r) PROVE Own'
    <2>1. run \in [Runners -> Runs]
      BY TypeParts DEF Types, LeaseTypes
    <2>2. FilesAreOwn'
      BY <1>3, <2>1 DEF Take, FilesAreOwn, world, Runs
    <2> QED
      BY <1>3, <2>2, WrittenStep DEF Take, world, SharesOnlyOwnWrites
  <1>4. ASSUME NEW r \in Runners,
               TakeRefused(r) \/ TakeUnheard(r) \/ TakeTorn(r) \/ Dies(r)
               \/ LeaseLost(r) \/ AgentExits(r) \/ Stopped(r) \/ ShareRefused(r)
        PROVE  Own'
    <2>1. FilesKept
      BY <1>4, RunsKeepFiles
    <2>2. UNCHANGED <<world, shared>> /\ (lease' = lease \/ lease' = Claimed(r, takes'))
      BY <1>4 DEF TakeRefused, TakeUnheard, TakeTorn, Dies, LeaseLost, AgentExits, Stopped,
                  ShareRefused
    <2> QED
      BY <1>1, <2>1, <2>2, WrittenStep DEF world, SharesOnlyOwnWrites
  <1>5. ASSUME NEW r \in Runners, Renew(r) \/ ShareNotes(r) PROVE Own'
    <2>1. FilesKept
      BY <1>5, RunsKeepFiles
    <2>2. UNCHANGED <<world, shared>>
      BY <1>5 DEF Renew, ShareNotes
    <2>3. lease' = lease \/ (lease \in Leases /\ lease # NoLease
            /\ lease'.runner = lease.runner /\ lease'.written = lease.written)
      BY <1>5, HolderOf DEF Renew, ShareNotes, Leases
    <2> QED
      BY <1>1, <2>1, <2>2, <2>3, WrittenStep DEF world, SharesOnlyOwnWrites
  <1>6. ASSUME NEW r \in Runners, ShareLists(r) PROVE Own'
    <2>1. run \in [Runners -> Runs]
      BY TypeParts DEF Types, LeaseTypes
    <2>2. AccountOf[r] # Owner => \A p \in Shareable : <<AccountOf[r], p>> \in wrote
      BY <1>6, HolderOf DEF ShareLists, Shareable, WrittenIsOwn
    <2>3. FilesAreOwn'
      BY <1>6, <2>1, <2>2 DEF ShareLists, FilesAreOwn, world, Runs
    <2> QED
      BY <1>6, <2>3 DEF ShareLists, world, WrittenIsOwn, SharesOnlyOwnWrites
  <1>7. ASSUME NEW r \in Runners, SharePushes(r) PROVE Own'
    <2>1. FilesKept
      BY <1>7, RunsKeepFiles
    <2>2. SharesOnlyOwnWrites'
      BY <1>7 DEF SharePushes, world, FilesAreOwn, SharesOnlyOwnWrites
    <2> QED
      BY <1>1, <1>7, <2>1, <2>2 DEF SharePushes, world, WrittenIsOwn
  <1>8. ASSUME NEW r \in Runners,
               Record(r) \/ RecordUnheard(r) \/ RecordTorn(r) \/ RecordLost(r)
               \/ RecordRefused(r)
        PROVE  Own'
    <2>1. FilesKept
      BY <1>8, RunsKeepFiles
    <2>2. UNCHANGED <<world, shared>> /\ (lease' = lease \/ lease' = NoLease)
      BY <1>8 DEF Record, RecordUnheard, RecordTorn, RecordLost, RecordRefused
    <2> QED
      BY <1>1, <2>1, <2>2, WrittenStep DEF world, SharesOnlyOwnWrites
  <1>9. CASE Lapses
    <2>1. lease \in Leases /\ lease'.runner = lease.runner /\ lease'.written = lease.written
      BY <1>9, LeaseType DEF Lapses, Leases
    <2> QED
      BY <1>1, <1>9, <2>1, WrittenStep DEF Lapses, world, SharesOnlyOwnWrites
  <1>10. ASSUME NEW p \in Paths,
                PersonEdits(p) \/ Settles(p) \/ \E a \in Accounts : McpWrites(a, p)
         PROVE  Own'
    BY <1>1, <1>10, WrittenStep DEF PersonEdits, Settles, McpWrites, SharesOnlyOwnWrites
  <1>11. ASSUME NEW a \in Accounts, NEW p \in Paths, NoteWritten(a, p) PROVE Own'
    <2>1. WrittenIsOwn'
      <3>1. CASE NotesIn(a)
        BY <1>11, <3>1, LeaseType DEF NoteWritten, NotesIn, WrittenIsOwn, Leases
      <3>2. CASE ~NotesIn(a)
        BY <1>11, <3>2 DEF NoteWritten, WrittenIsOwn
      <3> QED
        BY <3>1, <3>2
    <2> QED
      BY <1>1, <1>11, <2>1 DEF NoteWritten, SharesOnlyOwnWrites
  <1> QED
    BY <1>2, <1>3, <1>4, <1>5, <1>6, <1>7, <1>8, <1>9, <1>10, <1>11 DEF Next

-----------------------------------------------------------------------------
\* The steps that neither take a lease nor list files.
LEMMA QuietKeepsClean ==
    ASSUME Clean, FilesKept, TokensKept,
           \/ UNCHANGED unshared
           \/ UNCHANGED run /\ \A q \in Runners : run[q].at # "looked",
           \/ lease' = NoLease \/ lease' = lease
           \/ lease'.token = lease.token /\ lease'.start = lease.start
    PROVE  LookedIsNow' /\ HeldBack' /\ FilesAreClean'
  <1>1. LookedIsNow'
    BY DEF Clean, LookedIsNow, FilesKept, Idle
  <1>2. FilesAreClean'
    BY DEF Clean, FilesAreClean, FilesKept, Idle
  <1>3. HeldBack'
    <2> SUFFICES ASSUME NEW q \in Runners, Holds(q)'
                 PROVE  (Paths \ lease.start \subseteq run[q].clean)'
      BY DEF HeldBack
    <2>1. run'[q].token # 0 /\ run'[q].token = lease'.token
      BY DEF Holds
    <2>2. run'[q].token = run[q].token /\ run'[q].clean = run[q].clean
      BY <2>1 DEF TokensKept, FilesKept, Idle
    <2>3. lease'.token = lease.token /\ lease'.start = lease.start
      BY <2>1 DEF NoLease
    <2> QED
      BY <2>1, <2>2, <2>3 DEF Clean, HeldBack, Holds
  <1> QED
    BY <1>1, <1>2, <1>3

\* A claim: nobody but the run that heard of it carries the new token.
LEMMA ClaimHoldsBack ==
    ASSUME TypeOK, Records, Clean, NEW r \in Runners, run[r].at = "looked",
           lease' = Claimed(r, takes'), takes' = takes + 1,
           \A q \in Runners : run'[q].token \in {run[q].token, 0} \/ q = r,
           run'[r].token = 0 \/ run'[r].clean = Paths \ unshared
    PROVE  HeldBack'
  <1> SUFFICES ASSUME NEW q \in Runners, Holds(q)'
               PROVE  (Paths \ lease.start \subseteq run[q].clean)'
    BY DEF HeldBack
  <1>1. run'[q].token # 0 /\ run'[q].token = takes + 1 /\ lease'.start = run[r].start
    BY DEF Holds, Claimed
  <1>2. run[q].token \in Nat /\ run[q].token <= takes /\ takes \in Nat
    BY RunType, LeaseType DEF Records, TokensAreOld
  <1>3. q = r
    BY <1>1, <1>2
  <1> QED
    BY <1>1, <1>3 DEF Clean, LookedIsNow

LEMMA CleanStep == ASSUME ~Raced, TypeOK, Records, Clean, Next PROVE Clean'
  <1> USE DEF Clean
  <1>a. run \in [Runners -> Runs] /\ (UNCHANGED run => TokensKept /\ FilesKept)
    BY TypeParts DEF Types, LeaseTypes, TokensKept, FilesKept
  <1>1. ASSUME NEW r \in Runners, Look(r) PROVE Clean'
    <2>1. /\ run'[r] = [Idle EXCEPT !.at = "looked", !.start = unshared]
          /\ \A q \in Runners : q # r => run'[q] = run[q]
          /\ UNCHANGED <<lease, unshared, shared>>
      BY <1>a, <1>1 DEF Look, world
    <2>2. /\ run'[r].token = 0 /\ run'[r].files = {} /\ run'[r].start = unshared
          /\ run'[r].clean = {}
      BY <2>1 DEF Idle
    <2>3. LookedIsNow' /\ FilesAreClean'
      BY <2>1, <2>2 DEF LookedIsNow, FilesAreClean
    <2>4. HeldBack'
      BY <2>1, <2>2 DEF HeldBack, Holds
    <2> QED
      BY <2>1, <2>3, <2>4 DEF SharesOnlyWhatWasClean
  <1>2. ASSUME NEW r \in Runners, Take(r) PROVE Clean'
    <2>1. run[r] \in Runs
      BY <1>a
    <2>2. /\ run'[r].at = "working" /\ run'[r].files = run[r].files
          /\ run'[r].clean = Paths \ unshared
          /\ \A q \in Runners : q # r => run'[q] = run[q]
          /\ UNCHANGED <<unshared, shared>>
      BY <1>a, <1>2, <2>1 DEF Take, world, Runs
    <2>3. HeldBack'
      BY <1>2, <2>2, ClaimHoldsBack DEF Take
    <2>4. LookedIsNow' /\ FilesAreClean'
      BY <1>2, <2>2 DEF Take, LookedIsNow, FilesAreClean
    <2> QED
      BY <2>2, <2>3, <2>4 DEF SharesOnlyWhatWasClean
  <1>3. ASSUME NEW r \in Runners, TakeUnheard(r) \/ TakeTorn(r) PROVE Clean'
    <2>1. FilesKept /\ run' = [run EXCEPT ![r] = Idle] /\ UNCHANGED <<unshared, shared>>
      BY <1>3, RunsKeepFiles DEF TakeUnheard, TakeTorn, world
    <2>2. HeldBack'
      BY <1>a, <1>3, <2>1, ClaimHoldsBack DEF TakeUnheard, TakeTorn, Idle
    <2>3. LookedIsNow' /\ FilesAreClean'
      BY <2>1 DEF FilesKept, LookedIsNow, FilesAreClean, Idle
    <2> QED
      BY <2>1, <2>2, <2>3 DEF SharesOnlyWhatWasClean
  <1>4. ASSUME NEW r \in Runners,
               TakeRefused(r) \/ Dies(r) \/ LeaseLost(r) \/ AgentExits(r) \/ Stopped(r)
               \/ ShareRefused(r)
        PROVE  Clean'
    <2>1. FilesKept /\ TokensKept
      BY <1>4, RunsKeepFiles, RunsKeepTokens
    <2>2. UNCHANGED <<unshared, shared, lease>>
      BY <1>4 DEF TakeRefused, Dies, LeaseLost, AgentExits, Stopped, ShareRefused, world
    <2> QED
      BY <2>1, <2>2, QuietKeepsClean DEF SharesOnlyWhatWasClean
  <1>5. ASSUME NEW r \in Runners, Renew(r) \/ ShareNotes(r) PROVE Clean'
    <2>1. FilesKept /\ TokensKept
      BY <1>5, RunsKeepFiles, RunsKeepTokens
    <2>2. UNCHANGED <<unshared, shared>>
      BY <1>5 DEF Renew, ShareNotes, world
    <2>3. lease' = lease \/ (lease'.token = lease.token /\ lease'.start = lease.start)
      BY <1>5, OwnEntryType DEF Renew, ShareNotes, Leases
    <2> QED
      BY <2>1, <2>2, <2>3, QuietKeepsClean DEF SharesOnlyWhatWasClean
  <1>6. ASSUME NEW r \in Runners, ShareLists(r) PROVE Clean'
    <2>1. Shareable \subseteq run[r].clean
      <3>1. Shareable \subseteq Paths \ lease.start
        BY DEF Shareable, TypeOK
      <3>2. Paths \ lease.start \subseteq run[r].clean
        BY <1>6 DEF ShareLists, HeldBack
      <3> QED
        BY <3>1, <3>2
    <2>2. TokensKept /\ run[r] \in Runs /\ UNCHANGED <<lease, unshared, shared>>
      BY <1>6, <1>a, RunsKeepTokens DEF ShareLists, world
    <2>3. /\ run'[r].at # "looked" /\ run'[r].clean = run[r].clean
          /\ run'[r].files \in {run[r].files, Shareable}
          /\ \A q \in Runners : q # r => run'[q] = run[q]
      BY <1>6, <1>a, <2>2 DEF ShareLists, Runs
    <2>4. LookedIsNow' /\ FilesAreClean'
      BY <2>1, <2>2, <2>3 DEF LookedIsNow, FilesAreClean
    <2>5. HeldBack'
      BY <2>2, <2>3 DEF HeldBack, Holds, TokensKept
    <2> QED
      BY <2>2, <2>4, <2>5 DEF SharesOnlyWhatWasClean
  <1>7. ASSUME NEW r \in Runners, SharePushes(r) PROVE Clean'
    <2>1. FilesKept /\ TokensKept
      BY <1>7, RunsKeepFiles, RunsKeepTokens
    <2>2. UNCHANGED <<unshared, lease>>
      BY <1>7 DEF SharePushes, world
    <2>3. SharesOnlyWhatWasClean'
      <3> DEFINE files == run[r].files \cap unshared
                 Pushed(p) == [token |-> run[r].token, path |-> p, account |-> AccountOf[r],
                               clean |-> p \in run[r].clean]
      <3>1. shared' = shared \cup {Pushed(p) : p \in files}
        BY <1>7 DEF SharePushes
      <3>2. ASSUME NEW p \in files PROVE Pushed(p).clean
        BY <1>7 DEF FilesAreClean
      <3> HIDE DEF files, Pushed
      <3> QED
        BY <3>1, <3>2 DEF SharesOnlyWhatWasClean
    <2> QED
      BY <2>1, <2>2, <2>3, QuietKeepsClean
  <1>8. ASSUME NEW r \in Runners,
               Record(r) \/ RecordUnheard(r) \/ RecordTorn(r) \/ RecordLost(r)
               \/ RecordRefused(r)
        PROVE  Clean'
    <2>1. FilesKept /\ TokensKept
      BY <1>8, RunsKeepFiles, RunsKeepTokens
    <2>2. UNCHANGED <<unshared, shared>> /\ (lease' = lease \/ lease' = NoLease)
      BY <1>8 DEF Record, RecordUnheard, RecordTorn, RecordLost, RecordRefused, world
    <2> QED
      BY <2>1, <2>2, QuietKeepsClean DEF SharesOnlyWhatWasClean
  <1>9. CASE Lapses
    <2>1. lease'.token = lease.token /\ lease'.start = lease.start
      BY <1>9, LeaseType DEF Lapses, Leases
    <2> QED
      BY <1>a, <1>9, <2>1, QuietKeepsClean DEF Lapses, world, SharesOnlyWhatWasClean
  <1>10. ASSUME NEW p \in Paths,
                PersonEdits(p) \/ Settles(p) \/ \E a \in Accounts : McpWrites(a, p)
         PROVE  Clean'
    <2>1. \A q \in Runners : run[q].at # "looked"
      BY <1>10, ~Raced DEF PersonEdits, Settles, McpWrites, Unraced
    <2>2. UNCHANGED <<run, lease, shared>>
      BY <1>10 DEF PersonEdits, Settles, McpWrites
    <2> QED
      BY <1>a, <2>1, <2>2, QuietKeepsClean DEF SharesOnlyWhatWasClean
  <1>11. ASSUME NEW a \in Accounts, NEW p \in Paths, NoteWritten(a, p) PROVE Clean'
    <2>1. lease' = lease \/ (lease'.token = lease.token /\ lease'.start = lease.start)
      BY <1>11, LeaseType DEF NoteWritten, NotesIn, Leases
    <2> QED
      BY <1>a, <1>11, <2>1, QuietKeepsClean DEF NoteWritten, SharesOnlyWhatWasClean
  <1> QED
    BY <1>1, <1>2, <1>3, <1>4, <1>5, <1>6, <1>7, <1>8, <1>9, <1>10, <1>11 DEF Next

-----------------------------------------------------------------------------
LEMMA InitHolds == Init => TypeOK /\ Carries /\ Records /\ Own /\ Clean
  <1> SUFFICES ASSUME Init PROVE TypeOK /\ Carries /\ Records /\ Own /\ Clean
    OBVIOUS
  <1> USE DEF Init, Idle, NoLease
  <1>1. Types
    <2>1. history \in Seq(Entries)
      BY EmptySeq
    <2> QED
      BY <2>1, IdleType, LeaseAssumption DEF Types, LeaseTypes, WorldTypes
  <1>2. Carries
    BY DEF Carries
  <1>3. Records
    BY DEF Records, TokensAreOld, HolderIsRunner, Holds, RecordedOnce, EveryRunIsInHistory
  <1>4. Own
    BY DEF Own, WrittenIsOwn, FilesAreOwn, SharesOnlyOwnWrites
  <1>5. Clean
    BY DEF Clean, LookedIsNow, HeldBack, Holds, FilesAreClean, SharesOnlyWhatWasClean
  <1> QED
    BY <1>1, <1>2, <1>3, <1>4, <1>5, TypeParts

IInv == TypeOK /\ Carries /\ Records /\ Own /\ (~Raced => Clean)

LEMMA Stutters == ASSUME IInv, UNCHANGED vars PROVE IInv'
  <1> USE DEF vars, world, IInv
  <1>1. TypeOK'
    BY DEF TypeOK
  <1>2. Carries' /\ Records'
    BY DEF Carries, Records, TokensAreOld, HolderIsRunner, Holds, RecordedOnce,
           EveryRunIsInHistory, Recorded
  <1>3. Own'
    BY DEF Own, WrittenIsOwn, FilesAreOwn, SharesOnlyOwnWrites
  <1>4. ~Raced => Clean'
    BY DEF Clean, LookedIsNow, HeldBack, Holds, FilesAreClean, SharesOnlyWhatWasClean
  <1> QED
    BY <1>1, <1>2, <1>3, <1>4

\* What every state of the loop's lease keeps, by every step of its runners,
\* of the sessions that write and of the clock.
THEOREM LeaseInvariant == Spec => []IInv
  <1>1. Init => IInv
    BY InitHolds DEF IInv
  <1>2. IInv /\ [Next]_vars => IInv'
    <2> SUFFICES ASSUME IInv, [Next]_vars PROVE IInv'
      OBVIOUS
    <2>1. CASE Next
      BY <2>1, TypeStep, CarriesStep, RecordsStep, OwnStep, CleanStep DEF IInv
    <2>2. CASE UNCHANGED vars
      BY <2>2, Stutters
    <2> QED
      BY <2>1, <2>2
  <1> QED
    BY <1>1, <1>2, PTL DEF Spec

\* Type correctness of the lease's row, its history and the runs.
THEOREM LeaseTypeTheorem == Spec => []TypeOK
  <1>1. IInv => TypeOK
    BY DEF IInv
  <1> QED
    BY <1>1, LeaseInvariant, PTL

\* automation_run_record and automation_lease_take put no run in the history
\* twice: the compare-and-set on the token decides who records it.
THEOREM OnceTheorem == Spec => []RecordedOnce
  <1>1. IInv => RecordedOnce
    BY DEF IInv, Records
  <1> QED
    BY <1>1, LeaseInvariant, PTL

\* A run that holds its lease no more is in the history, unless the daemon died
\* between automation_lease_take's claim, or automation_run_record's release,
\* and the record.
THEOREM HistoryTheorem == Spec => []EveryRunIsInHistory
  <1>1. IInv => EveryRunIsInHistory
    BY DEF IInv, Records
  <1> QED
    BY <1>1, LeaseInvariant, PTL

\* automation_share opens a pull request, for a run that works as an account,
\* with files that account wrote over MCP only.
THEOREM OwnWritesTheorem == Spec => []SharesOnlyOwnWrites
  <1>1. IInv => SharesOnlyOwnWrites
    BY DEF IInv, Own
  <1> QED
    BY <1>1, LeaseInvariant, PTL

\* automation_share holds back what was unshared when the run took its lease,
\* provided that no file changed between automation_lease_take's look and its
\* claim.
THEOREM CleanTheorem == ASSUME ~Raced PROVE Spec => []SharesOnlyWhatWasClean
  <1>1. IInv => SharesOnlyWhatWasClean
    BY ~Raced DEF IInv, Clean
  <1> QED
    BY <1>1, LeaseInvariant, PTL
=============================================================================
