----------------------------- MODULE Scheduler -----------------------------
(***************************************************************************)
(* The scheduler (aivyx-server/src/scheduler.rs) and the configuration     *)
(* file that holds its schedules.  Everything that changes the file loads  *)
(* the whole of it, changes its copy and saves the copy: a tick of the     *)
(* scheduler, which runs agents in between, the handlers of                *)
(* routes/schedules.rs and of the other routes over the configuration, and *)
(* the commands of cmd/schedule.rs in processes of their own.  Nothing     *)
(* keeps them apart.                                                       *)
(*                                                                         *)
(* Time is counted in units of the model, and all schedules have the same  *)
(* occurrences.  What an agent answers, notifications and the audit log    *)
(* are left out; an agent that fails is treated as one that succeeds.      *)
(***************************************************************************)
EXTENDS Integers

CONSTANTS
    Names,       \* names of schedules
    Occurs,      \* the times at which the cron expression matches
    Period,      \* the sleep between two ticks: 60 seconds
    Window,      \* how far back a first run looks: 61 seconds
    MaxTime,     \* bound on the clock
    Editors,     \* handlers and commands that change the file
    MaxEdits,    \* bound on their changes
    MaxFaults,   \* bound on crashes and failed saves
    Ticker,      \* the scheduler, as one that changes the file
    None

ASSUME TimeAssumption ==
    /\ MaxTime \in Nat /\ Occurs \subseteq 1 .. MaxTime
    /\ Period \in 1 .. MaxTime /\ Window \in Nat /\ Window > Period
ASSUME NamesAssumption == Ticker \notin Editors
ASSUME BoundsAssumption == MaxEdits \in Nat /\ MaxFaults \in Nat

Writers == Editors \union {Ticker}

Never == -1

Entry == [enabled : BOOLEAN, last : 0 .. MaxTime \union {Never}]
EntryOfThePast == [enabled |-> TRUE, last |-> 0 - Window]

NewEntry == [enabled |-> TRUE, last |-> Never]

(* What the file, or a copy of it, says of the schedules. *)
Contents == [Names -> Entry \union {None}]

ASSUME NoneAssumption == None \notin Contents /\ None \notin Entry

EditKinds == {"create", "delete", "enable", "disable", "other"}

VARIABLES
    clock,
    file,      \* the configuration file
    image,     \* the copy of each writer, None when it has none
    op,        \* what each editor is changing
    pc,        \* the scheduler: down, sleep, tick or turn
    wake,      \* when its sleep is over
    now,       \* Utc::now() of the tick
    due,       \* the schedules the tick has still to run
    left,      \* what is left of the bounds on edits and faults
    wanted,    \* history: the schedules created and not deleted since
    runs,      \* history: the runs of each occurrence of a schedule, up to 2
    stale,     \* history: the writers whose copy is older than the file
    overwritten, \* history: a stale copy was saved
    lost       \* history: a tick was not saved

history == <<wanted, runs, stale, overwritten, lost>>
vars == <<clock, file, image, op, pc, wake, now, due, left, history>>

TypeOK ==
    /\ clock \in 0 .. MaxTime
    /\ file \in Contents
    /\ image \in [Writers -> Contents \union {None}]
    /\ op \in [Editors -> [kind : EditKinds, name : Names] \union {None}]
    /\ pc \in {"down", "sleep", "tick", "turn"}
    /\ wake \in 0 .. MaxTime
    /\ now \in 0 .. MaxTime
    /\ due \subseteq Names
    /\ left \in [{"edit", "fault"} -> Nat]
    /\ wanted \subseteq Names
    /\ runs \in [Names -> [Occurs -> 0 .. 2]]
    /\ stale \subseteq Writers
    /\ overwritten \in BOOLEAN
    /\ lost \in BOOLEAN

Init ==
    /\ clock = 0
    /\ file = [n \in Names |-> None]
    /\ image = [w \in Writers |-> None]
    /\ op = [w \in Editors |-> None]
    /\ pc = "sleep"
    /\ wake = Period
    /\ now = 0
    /\ due = {}
    /\ left = [edit |-> MaxEdits, fault |-> MaxFaults]
    /\ wanted = {}
    /\ runs = [n \in Names |-> [o \in Occurs |-> 0]]
    /\ stale = {}
    /\ overwritten = FALSE
    /\ lost = FALSE

-----------------------------------------------------------------------------
(* Helpers *)

Earlier(a, b) == IF a < b THEN a ELSE b

NoRuns == [o \in Occurs |-> 0]

Spend(what) == left[what] > 0 /\ left' = [left EXCEPT ![what] = @ - 1]

(* AivyxConfig::save: the whole copy replaces the file. *)
Save(w, copy) ==
    /\ file' = copy
    /\ stale' = (IF copy = file THEN stale
                 ELSE stale \union {x \in Writers : image[x] # None}) \ {w}
    /\ overwritten' = (overwritten \/ w \in stale)

CoveredInclusive(entry, t) ==
    LET from == IF entry.last = Never THEN t - Window ELSE entry.last
    IN  {o \in Occurs : from <= o /\ o <= t}

CoveredByWindow(entry, t) == {o \in Occurs : t - Window < o /\ o <= t}

(* The occurrences a run at time t stands for: those since the last run,   *)
(* or within the window before t if there was none.                        *)
Covered(entry, t) ==
    LET from == IF entry.last = Never THEN t - Window ELSE entry.last
    IN  {o \in Occurs : from < o /\ o <= t}

IsDue(entry, t) == entry # None /\ entry.enabled /\ Covered(entry, t) # {}

-----------------------------------------------------------------------------
(* The scheduler *)

Sleep ==
    /\ pc' = "sleep"
    /\ wake' = Earlier(clock + Period, MaxTime)

(* The sleep is over: load the file and see which schedules are due. *)
Tick ==
    /\ pc = "sleep" /\ clock >= wake
    /\ pc' = "tick"
    /\ now' = clock
    /\ image' = [image EXCEPT ![Ticker] = file]
    /\ due' = {n \in Names : IsDue(file[n], clock)}
    /\ UNCHANGED <<clock, file, op, wake, left, history>>

FireByTheClock(n) ==
    /\ pc = "tick" /\ n \in due
    /\ pc' = "turn"
    /\ due' = due \ {n}
    /\ LET covered == Covered(image[Ticker][n], now)
       IN  runs' = [runs EXCEPT ![n] = [o \in Occurs |->
               IF o \in covered THEN Earlier(@[o] + 1, 2) ELSE @[o]]]
    /\ image' = [image EXCEPT ![Ticker][n].last = clock]
    /\ UNCHANGED <<clock, file, op, wake, now, left, wanted, stale, overwritten,
                   lost>>

(* Run the agent or the team of one of them. *)
Fire(n) ==
    /\ pc = "tick" /\ n \in due
    /\ pc' = "turn"
    /\ due' = due \ {n}
    /\ LET covered == Covered(image[Ticker][n], now)
       IN  runs' = [runs EXCEPT ![n] = [o \in Occurs |->
               IF o \in covered THEN Earlier(@[o] + 1, 2) ELSE @[o]]]
    /\ image' = [image EXCEPT ![Ticker][n].last = now]
    /\ UNCHANGED <<clock, file, op, wake, now, left, wanted, stale, overwritten,
                   lost>>

(* Its turn ends, with a response or an error. *)
TurnEnds ==
    /\ pc = "turn"
    /\ pc' = "tick"
    /\ UNCHANGED <<clock, file, image, op, wake, now, due, left, history>>

(* Save the times of the runs, or the whole file as it was, and sleep. *)
EndTick ==
    /\ pc = "tick" /\ due = {}
    /\ Save(Ticker, image[Ticker])
    /\ image' = [image EXCEPT ![Ticker] = None]
    /\ Sleep
    /\ UNCHANGED <<clock, op, now, due, left, wanted, runs, lost>>

(* The save fails: the tick ends with an error, its runs are forgotten. *)
SaveFails ==
    /\ pc = "tick" /\ due = {}
    /\ Spend("fault")
    /\ image' = [image EXCEPT ![Ticker] = None]
    /\ stale' = stale \ {Ticker}
    /\ lost' = TRUE
    /\ Sleep
    /\ UNCHANGED <<clock, file, op, now, due, wanted, runs, overwritten>>

(* The process stops, and starts again; commands are not part of it, and a *)
(* handler that stops with it is an editor that does not go on.            *)
Crash ==
    /\ pc # "down"
    /\ Spend("fault")
    /\ pc' = "down"
    /\ image' = [image EXCEPT ![Ticker] = None]
    /\ due' = {}
    /\ stale' = stale \ {Ticker}
    /\ lost' = (lost \/ image[Ticker] # None)
    /\ UNCHANGED <<clock, file, op, wake, now, wanted, runs, overwritten>>

Restart ==
    /\ pc = "down"
    /\ Sleep
    /\ UNCHANGED <<clock, file, image, op, now, due, left, history>>

-----------------------------------------------------------------------------
(* Editors *)

(* Load the file and change the copy; a creation of what exists and a      *)
(* change of what does not are refused.  The other routes change what is   *)
(* not a schedule.                                                         *)
Edit(w, kind, n) ==
    /\ image[w] = None
    /\ kind # "other" => (kind = "create") = (file[n] = None)
    /\ Spend("edit")
    /\ op' = [op EXCEPT ![w] = [kind |-> kind, name |-> n]]
    /\ image' = [image EXCEPT ![w] =
          CASE kind = "create"  -> [file EXCEPT ![n] = NewEntry]
            [] kind = "delete"  -> [file EXCEPT ![n] = None]
            [] kind = "enable"  -> [file EXCEPT ![n].enabled = TRUE]
            [] kind = "disable" -> [file EXCEPT ![n].enabled = FALSE]
            [] kind = "other"   -> file]
    /\ UNCHANGED <<clock, file, pc, wake, now, due, history>>

(* Save the copy. *)
EndEdit(w) ==
    /\ image[w] # None
    /\ Save(w, image[w])
    /\ image' = [image EXCEPT ![w] = None]
    /\ op' = [op EXCEPT ![w] = None]
    /\ wanted' = CASE op[w].kind = "create" -> wanted \union {op[w].name}
                   [] op[w].kind = "delete" -> wanted \ {op[w].name}
                   [] OTHER -> wanted
    /\ runs' = IF op[w].kind = "create"
               THEN [runs EXCEPT ![op[w].name] = NoRuns] ELSE runs
    /\ UNCHANGED <<clock, pc, wake, now, due, left, lost>>

-----------------------------------------------------------------------------
(* Time passes, but a sleep is not longer than it should be. *)
Pass ==
    /\ clock < MaxTime
    /\ ~(pc = "sleep" /\ clock >= wake)
    /\ clock' = clock + 1
    /\ UNCHANGED <<file, image, op, pc, wake, now, due, left, history>>

Schedule ==
    \/ Tick
    \/ \E n \in Names : Fire(n)
    \/ TurnEnds
    \/ EndTick

Next ==
    \/ Schedule
    \/ SaveFails
    \/ Crash
    \/ Restart
    \/ \E w \in Editors :
          \/ \E kind \in EditKinds, n \in Names : Edit(w, kind, n)
          \/ EndEdit(w)
    \/ Pass

Spec == Init /\ [][Next]_vars

(* The runtime polls the scheduler, the turn of an agent ends, a stopped   *)
(* process is started again, and time passes.  Editors owe nothing.        *)
FairSpec ==
    /\ Spec
    /\ WF_vars(Schedule)
    /\ WF_vars(Restart)
    /\ WF_vars(Pass)

-----------------------------------------------------------------------------
(* Properties *)

(* As long as no tick is lost and no stale copy saved, no occurrence of a  *)
(* schedule is run twice, however long a tick takes (is_due, tick).        *)
RunsOnce ==
    ~lost /\ ~overwritten => \A n \in Names, o \in Occurs : runs[n][o] <= 1

(* Under the same condition the last run leaves no gap: once a schedule    *)
(* has run for an occurrence, it has run for all later ones up to its last *)
(* run, those that fell into a long tick or a time of being disabled too.  *)
NoGap ==
    ~lost /\ ~overwritten => \A n \in Names : \A o, p \in Occurs :
        /\ file[n] # None /\ o < p /\ p <= file[n].last
        /\ runs[n][o] > 0
        => runs[n][p] > 0

(* An occurrence of an enabled schedule that has run before is run for, or *)
(* the schedule is deleted or disabled: a tick never leaves it for good,   *)
(* not even when ticks are lost, unless a stale copy makes it forget.      *)
RunsEventually ==
    \A n \in Names : \A o \in Occurs :
        (/\ file[n] # None /\ file[n].enabled
         /\ file[n].last # Never /\ file[n].last < o /\ o <= clock)
            ~> (runs[n][o] > 0 \/ overwritten
                \/ file[n] = None \/ ~file[n].enabled)

(* A created schedule is in the file until it is deleted, and not after.   *)
EditsKept == \A n \in Names : (file[n] # None) = (n \in wanted)
=============================================================================
