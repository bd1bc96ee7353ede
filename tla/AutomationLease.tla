--------------------------- MODULE AutomationLease ---------------------------
(***************************************************************************)
(* The lease of one loop (reflect or evolve) on one domain, and the runs    *)
(* that take it: `crystalline <loop> run' on any machine                    *)
(* (crates/cli/src/automation/run.rs) against the verbs of the engine       *)
(* (crates/engine/src/engine/automation.rs) over the store's                *)
(* compare-and-set rows (crates/index/src/turso/mod.rs).                    *)
(*                                                                         *)
(* A token is the number of the take that made it.  Time is left out: a     *)
(* lease that is not renewed may go stale at any moment.                    *)
(***************************************************************************)
EXTENDS Integers, Sequences, FiniteSets

CONSTANTS
    Runners,     \* processes that run the loop on this domain
    Accounts,    \* accounts that write over MCP
    Owner,       \* the machine's owner, who is no account
    AccountOf,   \* whom each runner works as
    Paths,       \* the files of the domain
    MaxTakes,    \* how many takes land
    MaxFaults,   \* how many answers are lost and daemons die
    MaxRecords,  \* tries of a record: one, and one after each of RECORD_WAITS
    Raced        \* FALSE: no file changes between a take's look and its claim

ASSUME LeaseAssumption ==
    /\ Owner \notin Accounts
    /\ AccountOf \in [Runners -> Accounts \cup {Owner}]
    /\ MaxTakes \in Nat /\ MaxFaults \in Nat /\ MaxRecords \in Nat \ {0}
    /\ Raced \in BOOLEAN

VARIABLES
    lease,     \* automation_lease: its row, or NoLease
    takes,     \* takes that landed
    history,   \* automation_run: what was recorded, oldest first
    unshared,  \* files that differ from the team's copy
    run,       \* per runner: where it is, and what it carries
    noting,    \* MCP writes whose note has not reached the store
    faults,
    wrote,     \* observer: which account ever wrote what over MCP
    shared,    \* observer: what each token's pull request carried
    torn,      \* observer: let go by a daemon that died before recording it
    told       \* observer: runs reported as not recorded

world == <<unshared, noting, wrote>>
vars == <<lease, takes, history, unshared, run, noting, faults, wrote, shared, torn, told>>

Tokens == 1..MaxTakes
NoLease == [token |-> 0]
Leases ==
    [token : Tokens, runner : Runners, start : SUBSET Paths, written : SUBSET Paths,
     pr : BOOLEAN, stale : BOOLEAN]
Outcomes == {"done", "failed", "expired"}
Idle ==
    [at |-> "idle", token |-> 0, start |-> {}, clean |-> {}, files |-> {},
     outcome |-> "failed", tries |-> 0]

TypeOK ==
    /\ lease \in Leases \cup {NoLease}
    /\ takes \in 0..MaxTakes
    /\ history \in Seq([token : Tokens, outcome : Outcomes, pr : BOOLEAN])
    /\ run \in [Runners ->
         [at : {"idle", "looked", "working", "sharing", "pushing", "proposed", "ended"},
          token : 0..MaxTakes, start : SUBSET Paths, clean : SUBSET Paths,
          files : SUBSET Paths, outcome : Outcomes, tries : 0..(MaxRecords - 1)]]
    /\ unshared \subseteq Paths
    /\ noting \subseteq Accounts \X Paths /\ wrote \subseteq Accounts \X Paths
    /\ shared \subseteq [token : Tokens, path : Paths, account : Accounts \cup {Owner}, clean : BOOLEAN]
    /\ torn \subseteq Tokens /\ told \subseteq Tokens
    /\ faults \in 0..MaxFaults

Init ==
    /\ lease = NoLease /\ takes = 0 /\ history = <<>>
    /\ unshared \in SUBSET Paths
    /\ run = [r \in Runners |-> Idle]
    /\ noting = {} /\ wrote = {} /\ shared = {} /\ torn = {} /\ told = {}
    /\ faults = 0

Holds(r) == lease.token = run[r].token /\ run[r].token # 0
Entry(token, outcome, pr) == [token |-> token, outcome |-> outcome, pr |-> pr]
Recorded(token) == \E i \in DOMAIN history : history[i].token = token

-----------------------------------------------------------------------------
\* The take.  automation_lease_take lists what is unshared, then claims.
Look(r) ==
    /\ run[r] = Idle
    /\ takes < MaxTakes
    /\ run' = [run EXCEPT ![r] = [Idle EXCEPT !.at = "looked", !.start = unshared]]
    /\ UNCHANGED <<lease, takes, history, world, faults, shared, torn, told>>

\* A lease that is held and not stale is the other runner's.
TakeRefused(r) ==
    /\ run[r].at = "looked"
    /\ lease # NoLease /\ ~lease.stale
    /\ run' = [run EXCEPT ![r] = Idle]
    /\ UNCHANGED <<lease, takes, history, world, faults, shared, torn, told>>

\* The row a landed claim writes.
Claimed(r, token) ==
    [token |-> token, runner |-> r, start |-> run[r].start,
     written |-> {}, pr |-> FALSE, stale |-> FALSE]

\* Mutant of Expired: a take over a stale lease records nothing.
ExpiredForgotten == <<>>

\* What a landed claim records of the lease it replaced.
Expired == IF lease = NoLease THEN <<>> ELSE <<Entry(lease.token, "expired", lease.pr)>>

\* The claim lands when nobody holds the lease or its holder went stale.
Take(r) ==
    /\ run[r].at = "looked"
    /\ takes < MaxTakes
    /\ lease # NoLease => lease.stale
    /\ takes' = takes + 1
    /\ lease' = Claimed(r, takes')
    /\ history' = history \o Expired
    /\ run' = [run EXCEPT ![r].at = "working", ![r].token = takes',
                          ![r].clean = Paths \ unshared]
    /\ UNCHANGED <<world, faults, shared, torn, told>>

\* The claim lands and the answer is lost: a lease whose runner is nobody.
TakeUnheard(r) ==
    /\ run[r].at = "looked"
    /\ takes < MaxTakes /\ faults < MaxFaults
    /\ lease # NoLease => lease.stale
    /\ takes' = takes + 1
    /\ faults' = faults + 1
    /\ lease' = Claimed(r, takes')
    /\ history' = history \o Expired
    /\ run' = [run EXCEPT ![r] = Idle]
    /\ UNCHANGED <<world, shared, torn, told>>

\* The daemon dies between the claim and the record of what it replaced.
TakeTorn(r) ==
    /\ run[r].at = "looked"
    /\ takes < MaxTakes /\ faults < MaxFaults
    /\ lease # NoLease /\ lease.stale
    /\ takes' = takes + 1
    /\ faults' = faults + 1
    /\ lease' = Claimed(r, takes')
    /\ torn' = torn \cup {lease.token}
    /\ run' = [run EXCEPT ![r] = Idle]
    /\ UNCHANGED <<history, world, shared, told>>

-----------------------------------------------------------------------------
\* While the agent works.

\* LEASE_STALE_SECS went by with no renewal.
Lapses ==
    /\ lease # NoLease
    /\ lease' = [lease EXCEPT !.stale = TRUE]
    /\ UNCHANGED <<takes, history, run, world, faults, shared, torn, told>>

\* renew_automation_lease, when the row still carries the token.
Renew(r) ==
    /\ run[r].at \notin {"idle", "looked"}
    /\ Holds(r)
    /\ lease' = [lease EXCEPT !.stale = FALSE]
    /\ UNCHANGED <<takes, history, run, world, faults, shared, torn, told>>

\* Another run took the lease: the agent is stopped and nothing is shared.  A
\* renewal refused after the agent ended changes nothing.
LeaseLost(r) ==
    /\ run[r].at = "working"
    /\ ~Holds(r)
    /\ run' = [run EXCEPT ![r].at = "ended", ![r].outcome = "failed"]
    /\ UNCHANGED <<lease, takes, history, world, faults, shared, torn, told>>

\* The agent exits by itself, and its changes are shared whatever its exit code.
AgentExits(r) ==
    /\ run[r].at = "working"
    /\ \E outcome \in {"done", "failed"} :
         run' = [run EXCEPT ![r].at = "sharing", ![r].outcome = outcome]
    /\ UNCHANGED <<lease, takes, history, world, faults, shared, torn, told>>

\* A stop signal, or --no-share.
Stopped(r) ==
    /\ run[r].at \in {"working", "sharing"}
    /\ run' = [run EXCEPT ![r].at = "ended", ![r].outcome = "failed"]
    /\ UNCHANGED <<lease, takes, history, world, faults, shared, torn, told>>

\* The runner's process dies; its lease stays.
Dies(r) ==
    /\ run[r].at \notin {"idle", "looked"}
    /\ faults < MaxFaults
    /\ faults' = faults + 1
    /\ run' = [run EXCEPT ![r] = Idle]
    /\ UNCHANGED <<lease, takes, history, world, shared, torn, told>>

-----------------------------------------------------------------------------
\* The files.  A write over REST, in the folder or by a pull is nobody's run's.
Unraced == Raced \/ \A r \in Runners : run[r].at # "looked"

PersonEdits(p) ==
    /\ Unraced
    /\ unshared' = unshared \cup {p}
    /\ UNCHANGED <<lease, takes, history, run, noting, wrote, faults, shared, torn, told>>

\* A person shares the file, or discards the change.
Settles(p) ==
    /\ Unraced
    /\ unshared' = unshared \ {p}
    /\ UNCHANGED <<lease, takes, history, run, noting, wrote, faults, shared, torn, told>>

\* An account's session writes over MCP: a run's agent, also of a run that
\* lapsed, or anybody else's.  note_run_writes follows in a step of its own.
McpWrites(a, p) ==
    /\ Unraced
    /\ unshared' = unshared \cup {p}
    /\ noting' = noting \cup {<<a, p>>}
    /\ wrote' = wrote \cup {<<a, p>>}
    /\ UNCHANGED <<lease, takes, history, run, faults, shared, torn, told>>

\* Mutant of NotesIn: whoever wrote it, the lease's run did.
NotesInAny(a) == lease # NoLease

\* note_automation_written: the lease the account holds, whatever its age.
NotesIn(a) == lease # NoLease /\ AccountOf[lease.runner] = a

NoteWritten(a, p) ==
    /\ <<a, p>> \in noting
    /\ noting' = noting \ {<<a, p>>}
    /\ lease' = IF NotesIn(a) THEN [lease EXCEPT !.written = @ \cup {p}] ELSE lease
    /\ UNCHANGED <<takes, history, unshared, wrote, run, faults, shared, torn, told>>

-----------------------------------------------------------------------------
\* The share.  Mutant of Shareable: a person's work is not held back.
ShareableAll ==
    IF AccountOf[lease.runner] = Owner THEN unshared ELSE unshared \cap lease.written

\* What the lease's run changed, less what was unshared when it took the
\* lease.  A run with no account cannot tell its writes from others'.
Shareable ==
    (IF AccountOf[lease.runner] = Owner THEN unshared ELSE unshared \cap lease.written)
        \ lease.start

\* automation_share reads the lease and lists the files.
ShareLists(r) ==
    /\ run[r].at = "sharing"
    /\ Holds(r)
    /\ run' = IF Shareable = {} THEN [run EXCEPT ![r].at = "ended"]
              ELSE [run EXCEPT ![r].at = "pushing", ![r].files = Shareable]
    /\ UNCHANGED <<lease, takes, history, world, faults, shared, torn, told>>

\* The lease is gone: the share is refused, and the run goes on to its record.
ShareRefused(r) ==
    /\ run[r].at = "sharing"
    /\ ~Holds(r)
    /\ run' = [run EXCEPT ![r].at = "ended"]
    /\ UNCHANGED <<lease, takes, history, world, faults, shared, torn, told>>

\* origin_share_with opens the pull request with what of the files is still
\* unshared, or finds nothing.
SharePushes(r) ==
    /\ run[r].at = "pushing"
    /\ LET files == run[r].files \cap unshared IN
         /\ shared' = shared \cup
              {[token |-> run[r].token, path |-> p, account |-> AccountOf[r],
                clean |-> p \in run[r].clean] : p \in files}
         /\ run' = [run EXCEPT ![r].at = IF files = {} THEN "ended" ELSE "proposed"]
    /\ UNCHANGED <<lease, takes, history, world, faults, torn, told>>

\* set_automation_pr_url, by token.
ShareNotes(r) ==
    /\ run[r].at = "proposed"
    /\ lease' = IF Holds(r) THEN [lease EXCEPT !.pr = TRUE] ELSE lease
    /\ run' = [run EXCEPT ![r].at = "ended"]
    /\ UNCHANGED <<takes, history, world, faults, shared, torn, told>>

-----------------------------------------------------------------------------
\* The record.  Mutant of Releases: the lease is released whoever holds it.
ReleasesAny(r) == lease # NoLease

\* The release is the authority: it compares the token.
Releases(r) == Holds(r)

\* One try more, or the runner gives up and says the run was not recorded.
Unheard(r) ==
    IF run[r].tries + 1 < MaxRecords
    THEN /\ run' = [run EXCEPT ![r].tries = @ + 1]
         /\ told' = told
    ELSE /\ run' = [run EXCEPT ![r] = Idle]
         /\ told' = told \cup {run[r].token}

\* automation_run_record: released and recorded in one hold of the store.
Record(r) ==
    /\ run[r].at = "ended"
    /\ Releases(r)
    /\ lease' = NoLease
    /\ history' = Append(history, Entry(run[r].token, run[r].outcome, lease.pr))
    /\ run' = [run EXCEPT ![r] = Idle]
    /\ UNCHANGED <<takes, world, faults, shared, torn, told>>

\* The same, and the answer does not reach the runner.
RecordUnheard(r) ==
    /\ run[r].at = "ended"
    /\ faults < MaxFaults
    /\ faults' = faults + 1
    /\ Releases(r)
    /\ lease' = NoLease
    /\ history' = Append(history, Entry(run[r].token, run[r].outcome, lease.pr))
    /\ Unheard(r)
    /\ UNCHANGED <<takes, world, shared, torn>>

\* The daemon dies, or the store fails, between the two statements.
RecordTorn(r) ==
    /\ run[r].at = "ended"
    /\ faults < MaxFaults
    /\ faults' = faults + 1
    /\ Releases(r)
    /\ lease' = NoLease
    /\ torn' = torn \cup {run[r].token}
    /\ Unheard(r)
    /\ UNCHANGED <<takes, history, world, shared>>

\* The call does not reach the engine.
RecordLost(r) ==
    /\ run[r].at = "ended"
    /\ faults < MaxFaults
    /\ faults' = faults + 1
    /\ Unheard(r)
    /\ UNCHANGED <<lease, takes, history, world, shared, torn>>

\* A refusal is final: the run is reported as not recorded.
RecordRefused(r) ==
    /\ run[r].at = "ended"
    /\ ~Releases(r)
    /\ told' = told \cup {run[r].token}
    /\ run' = [run EXCEPT ![r] = Idle]
    /\ UNCHANGED <<lease, takes, history, world, faults, shared, torn>>

Next ==
    \/ \E r \in Runners :
         \/ Look(r) \/ TakeRefused(r) \/ Take(r) \/ TakeUnheard(r) \/ TakeTorn(r)
         \/ Renew(r) \/ LeaseLost(r) \/ AgentExits(r) \/ Stopped(r) \/ Dies(r)
         \/ ShareLists(r) \/ ShareRefused(r) \/ SharePushes(r) \/ ShareNotes(r)
         \/ Record(r) \/ RecordUnheard(r) \/ RecordTorn(r) \/ RecordLost(r)
         \/ RecordRefused(r)
    \/ Lapses
    \/ \E p \in Paths : PersonEdits(p) \/ Settles(p)
    \/ \E a \in Accounts, p \in Paths : McpWrites(a, p) \/ NoteWritten(a, p)

Spec == Init /\ [][Next]_vars

-----------------------------------------------------------------------------
\* No run is in the history twice: not when its runner comes back after
\* another took the lease over, nor when a record is sent again.
RecordedOnce ==
    \A i, j \in DOMAIN history : history[i].token = history[j].token => i = j

\* Every run that holds its lease no more is in the history, by its own record
\* or as expired, unless the daemon died between taking the lease from it and
\* recording it.
EveryRunIsInHistory ==
    \A t \in 1..takes : Recorded(t) \/ lease.token = t \/ t \in torn

\* A pull request carries nothing a person had unshared work on when the run
\* took its lease, nor what an earlier run left behind ("A file a person had
\* unshared work on when the run started is held back, even when the run
\* changed it too", docs/automation.md).
SharesOnlyWhatWasClean == \A s \in shared : s.clean

\* A run that works as an account shares only files which that account wrote
\* over MCP, whoever held the lease before it and whoever else writes.
SharesOnlyOwnWrites ==
    \A s \in shared : s.account # Owner => <<s.account, s.path>> \in wrote

\* The address of a pull request is recorded with the run that opened it.
RequestsAreTheRunsOwn ==
    \A i \in DOMAIN history :
        history[i].pr => \E s \in shared : s.token = history[i].token

\* A run that its runner reports as not recorded is in nobody's history as
\* done or failed.
ReportsAreTrue ==
    \A t \in told : \A i \in DOMAIN history :
        history[i].token = t => history[i].outcome = "expired"
=============================================================================
