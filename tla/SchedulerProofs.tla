-------------------------- MODULE SchedulerProofs --------------------------
(***************************************************************************)
(* Theorems about Scheduler, for any number of schedules and editors, any  *)
(* occurrences, and any budget of edits and faults: the type invariant,    *)
(* and what the time of the last run is good for.  While no tick is lost   *)
(* and no stale copy of the file saved, no occurrence of a schedule is run *)
(* twice, and none is passed over between two that are run.                *)
(***************************************************************************)
EXTENDS Scheduler, TLAPS

USE DEF history, vars

Ticking == pc \in {"tick", "turn"}

Change == [kind : EditKinds, name : Names]

(* The scheduler has a copy of the file during a tick, and it runs only    *)
(* schedules of that copy; an editor that has a copy has changed it.       *)
CopiesOK ==
    /\ Ticking => image[Ticker] \in Contents
    /\ ~ Ticking => image[Ticker] = None /\ due = {}
    /\ \A n \in due : image[Ticker][n] \in Entry
    /\ \A w \in Editors : image[w] # None => op[w] \in Change

TypeInv == TypeOK /\ CopiesOK

-----------------------------------------------------------------------------
LEMMA SaveTyped ==
    ASSUME NEW w \in Writers, NEW copy \in Contents, TypeOK, Save(w, copy)
    PROVE  file' \in Contents /\ stale' \subseteq Writers /\ overwritten' \in BOOLEAN
BY DEF Save, TypeOK

LEMMA EntryTyped ==
    ASSUME NEW e \in Entry, NEW t \in 0 .. MaxTime, NEW b \in BOOLEAN
    PROVE  /\ [e EXCEPT !.last = t] \in Entry
           /\ [e EXCEPT !.enabled = b] \in Entry
           /\ NewEntry \in Entry
BY DEF Entry, NewEntry

LEMMA SleepTyped ==
    ASSUME TypeOK, Sleep
    PROVE  pc' = "sleep" /\ wake' \in 0 .. MaxTime
BY TimeAssumption DEF Sleep, Earlier, TypeOK

LEMMA SpendTyped ==
    ASSUME TypeOK, NEW what \in {"edit", "fault"}, Spend(what)
    PROVE  left' \in [{"edit", "fault"} -> Nat]
BY DEF TypeOK, Spend

LEMMA TypeInit == Init => TypeInv
<1> SUFFICES ASSUME Init PROVE TypeInv
  OBVIOUS
<1>1. /\ clock \in 0 .. MaxTime /\ now \in 0 .. MaxTime
      /\ pc \in {"down", "sleep", "tick", "turn"}
      /\ due \subseteq Names /\ wanted \subseteq Names /\ stale \subseteq Writers
  BY TimeAssumption DEF Init
<1>6. overwritten \in BOOLEAN /\ lost \in BOOLEAN
  BY DEF Init
<1>7. runs \in [Names -> [Occurs -> 0 .. 2]]
  BY DEF Init
<1>2. wake \in 0 .. MaxTime
  BY TimeAssumption DEF Init
<1>5. left \in [{"edit", "fault"} -> Nat]
  BY BoundsAssumption DEF Init
<1>3. /\ file \in Contents
      /\ image \in [Writers -> Contents \union {None}]
      /\ op \in [Editors -> [kind : EditKinds, name : Names] \union {None}]
  BY DEF Init, Contents
<1>4. CopiesOK
  BY NamesAssumption DEF Init, CopiesOK, Ticking, Writers
<1> QED
  BY <1>1, <1>2, <1>3, <1>4, <1>5, <1>6, <1>7 DEF TypeInv, TypeOK

LEMMA EditTyped ==
    ASSUME TypeInv, NEW w \in Editors, NEW kind \in EditKinds, NEW n \in Names,
           Edit(w, kind, n)
    PROVE  TypeInv'
<1> USE DEF TypeInv
<1>1. w \in Writers /\ w # Ticker
  BY NamesAssumption DEF Writers
<1>2. file \in Contents
  BY DEF TypeOK
<1>3. image' = [image EXCEPT ![w] = image'[w]] /\ image'[w] \in Contents
  <2> DEFINE copy == CASE kind = "create"  -> [file EXCEPT ![n] = NewEntry]
                       [] kind = "delete"  -> [file EXCEPT ![n] = None]
                       [] kind = "enable"  -> [file EXCEPT ![n].enabled = TRUE]
                       [] kind = "disable" -> [file EXCEPT ![n].enabled = FALSE]
                       [] kind = "other"   -> file
  <2>1. image' = [image EXCEPT ![w] = copy]
    BY DEF Edit
  <2>2. copy \in Contents
    <3>1. CASE kind \in {"create", "delete", "other"}
      BY <3>1, <1>2 DEF Contents, Entry, NewEntry
    <3>2. CASE kind \in {"enable", "disable"}
      <4>1. file[n] \in Entry
        BY <3>2, <1>2 DEF Edit, Contents
      <4>2. PICK b \in BOOLEAN : copy = [file EXCEPT ![n].enabled = b]
        BY <3>2
      <4>3. [file[n] EXCEPT !.enabled = b] \in Entry
        BY <4>1 DEF Entry
      <4> QED
        BY <4>2, <4>3, <1>2 DEF Contents
    <3> QED
      BY <3>1, <3>2 DEF EditKinds
  <2> HIDE DEF copy
  <2> QED
    BY <2>1, <2>2, <1>1 DEF TypeOK
<1>4. /\ op' = [op EXCEPT ![w] = [kind |-> kind, name |-> n]]
      /\ op'[w] \in Change
  BY DEF Edit, TypeOK, Change
<1>5. left' \in [{"edit", "fault"} -> Nat]
  BY SpendTyped DEF Edit
<1>6. UNCHANGED <<clock, file, pc, wake, now, due, history>>
  BY DEF Edit
<1>7. /\ image' \in [Writers -> Contents \union {None}]
      /\ op' \in [Editors -> [kind : EditKinds, name : Names] \union {None}]
  BY <1>3, <1>4 DEF TypeOK, Change
<1>8. TypeOK'
  BY <1>5, <1>6, <1>7 DEF TypeOK
<1>9. \A v \in Writers \ {w} : image'[v] = image[v]
  BY <1>3 DEF TypeOK
<1>10. \A v \in Editors \ {w} : op'[v] = op[v]
  BY <1>4 DEF TypeOK
<1>11. image'[Ticker] = image[Ticker]
  BY <1>1, <1>9 DEF Writers
<1>12. \A v \in Editors : image'[v] # None => op'[v] \in Change
  BY <1>4, <1>9, <1>10 DEF CopiesOK, Writers
<1>13. CopiesOK'
  BY <1>6, <1>11, <1>12 DEF CopiesOK, Ticking
<1> QED
  BY <1>8, <1>13

LEMMA EndEditTyped ==
    ASSUME TypeInv, NEW w \in Editors, EndEdit(w)
    PROVE  TypeInv'
<1> USE DEF TypeInv
<1>1. w \in Writers /\ w # Ticker /\ Ticker \in Writers
  BY NamesAssumption DEF Writers
<1>2. image[w] \in Contents /\ op[w] \in Change
  BY <1>1 DEF EndEdit, TypeOK, CopiesOK
<1>3. file' \in Contents /\ stale' \subseteq Writers /\ overwritten' \in BOOLEAN
  BY <1>1, <1>2, SaveTyped DEF EndEdit
<1>4. /\ image' = [image EXCEPT ![w] = None]
      /\ op' = [op EXCEPT ![w] = None]
      /\ UNCHANGED <<clock, pc, wake, now, due, left, lost>>
  BY DEF EndEdit
<1>5. wanted' \subseteq Names
  BY <1>2 DEF EndEdit, TypeOK, Change
<1>6. runs' \in [Names -> [Occurs -> 0 .. 2]]
  <2>1. NoRuns \in [Occurs -> 0 .. 2]
    BY DEF NoRuns
  <2>2. runs' \in {runs, [runs EXCEPT ![op[w].name] = NoRuns]}
    BY DEF EndEdit
  <2> QED
    BY <2>1, <2>2 DEF TypeOK
<1>7. /\ image' \in [Writers -> Contents \union {None}]
      /\ op' \in [Editors -> [kind : EditKinds, name : Names] \union {None}]
  BY <1>4 DEF TypeOK
<1>8. TypeOK'
  BY <1>3, <1>4, <1>5, <1>6, <1>7 DEF TypeOK
<1>9. /\ image'[Ticker] = image[Ticker]
      /\ \A v \in Editors : image'[v] # None => op'[v] \in Change
  BY <1>1, <1>4 DEF TypeOK, CopiesOK, Writers
<1>10. CopiesOK'
  BY <1>4, <1>9 DEF CopiesOK, Ticking
<1> QED
  BY <1>8, <1>10

(* The scheduler's copy is replaced, the editors keep theirs. *)
LEMMA TickerCopy ==
    ASSUME TypeInv, NEW copy \in Contents \union {None},
           image' = [image EXCEPT ![Ticker] = copy], UNCHANGED op
    PROVE  /\ image' \in [Writers -> Contents \union {None}]
           /\ image'[Ticker] = copy
           /\ \A w \in Editors : image'[w] = image[w] /\ (image'[w] # None => op'[w] \in Change)
BY NamesAssumption DEF TypeInv, TypeOK, CopiesOK, Writers

LEMMA TickTyped == TypeInv /\ Tick => TypeInv'
<1> SUFFICES ASSUME TypeInv, Tick PROVE TypeInv'
  OBVIOUS
<1> USE DEF TypeInv
<1>1. /\ file \in Contents /\ image' = [image EXCEPT ![Ticker] = file]
      /\ UNCHANGED <<clock, file, op, wake, left, history>>
      /\ pc' = "tick" /\ now' = clock
      /\ due' = {n \in Names : IsDue(file[n], clock)}
  BY DEF Tick, TypeOK
<1>2. /\ image' \in [Writers -> Contents \union {None}]
      /\ image'[Ticker] = file
      /\ \A w \in Editors : image'[w] # None => op'[w] \in Change
  BY <1>1, TickerCopy
<1>3. TypeOK'
  BY <1>1, <1>2 DEF TypeOK
<1>4. \A n \in due' : file[n] \in Entry
  BY <1>1 DEF IsDue, Contents
<1> QED
  BY <1>1, <1>2, <1>3, <1>4 DEF CopiesOK, Ticking

(* What a run does to the copy and to the history. *)
LEMMA FireEffect ==
    ASSUME TypeInv, NEW n \in Names, Fire(n)
    PROVE  /\ pc = "tick" /\ pc' = "turn" /\ n \in due /\ due' = due \ {n}
           /\ image[Ticker] \in Contents /\ image[Ticker][n] \in Entry
           /\ image'[Ticker] = [image[Ticker] EXCEPT ![n].last = now]
           /\ image'[Ticker] \in Contents
           /\ image' = [image EXCEPT ![Ticker] = image'[Ticker]]
           /\ runs' \in [Names -> [Occurs -> 0 .. 2]]
           /\ \A m \in Names \ {n} : runs'[m] = runs[m]
           /\ \A o \in Occurs :
                 runs'[n][o] = IF o \in Covered(image[Ticker][n], now)
                               THEN Earlier(runs[n][o] + 1, 2) ELSE runs[n][o]
           /\ UNCHANGED <<clock, file, op, wake, now, left, wanted, stale, overwritten,
                          lost>>
<1> USE DEF TypeInv
<1>1. /\ image \in [Writers -> Contents \union {None}] /\ Ticker \in Writers
      /\ now \in 0 .. MaxTime /\ runs \in [Names -> [Occurs -> 0 .. 2]]
  BY DEF TypeOK, Writers
<1>2. /\ pc = "tick" /\ pc' = "turn" /\ n \in due /\ due' = due \ {n}
      /\ UNCHANGED <<clock, file, op, wake, now, left, wanted, stale, overwritten, lost>>
  BY DEF Fire
<1>3. image[Ticker] \in Contents /\ image[Ticker][n] \in Entry
  BY <1>2 DEF CopiesOK, Ticking
<1>4. [image[Ticker][n] EXCEPT !.last = now] \in Entry
  BY <1>1, <1>3, EntryTyped
<1>5. /\ image'[Ticker] = [image[Ticker] EXCEPT ![n].last = now]
      /\ image' = [image EXCEPT ![Ticker] = image'[Ticker]]
  BY <1>1 DEF Fire
<1>6. image'[Ticker] \in Contents
  BY <1>3, <1>4, <1>5 DEF Contents
<1> DEFINE covered == Covered(image[Ticker][n], now)
           after == [o \in Occurs |-> IF o \in covered THEN Earlier(runs[n][o] + 1, 2)
                                      ELSE runs[n][o]]
<1>7. after \in [Occurs -> 0 .. 2]
  BY <1>1 DEF Earlier
<1>8. runs' = [runs EXCEPT ![n] = after]
  BY DEF Fire
<1> QED
  BY <1>1, <1>2, <1>3, <1>5, <1>6, <1>7, <1>8

LEMMA FireTyped ==
    ASSUME TypeInv, NEW n \in Names, Fire(n)
    PROVE  TypeInv'
<1> USE DEF TypeInv
<1>1. /\ image' \in [Writers -> Contents \union {None}]
      /\ image'[Ticker] \in Contents
      /\ \A w \in Editors : image'[w] # None => op'[w] \in Change
  <2>1. /\ image'[Ticker] \in Contents
        /\ image' = [image EXCEPT ![Ticker] = image'[Ticker]] /\ UNCHANGED op
    BY FireEffect
  <2> QED
    BY <2>1, TickerCopy
<1>2. /\ pc' = "turn" /\ due' = due \ {n}
      /\ runs' \in [Names -> [Occurs -> 0 .. 2]]
      /\ UNCHANGED <<clock, file, op, wake, now, left, wanted, stale, overwritten, lost>>
  BY FireEffect
<1>3. TypeOK'
  BY <1>1, <1>2 DEF TypeOK
<1>4. \A m \in due' : image'[Ticker][m] \in Entry
  <2>1. /\ image[Ticker] \in Contents
        /\ image'[Ticker] = [image[Ticker] EXCEPT ![n].last = now]
    BY FireEffect
  <2> QED
    BY <2>1, <1>2 DEF CopiesOK, TypeOK, Contents
<1> QED
  BY <1>1, <1>2, <1>3, <1>4 DEF CopiesOK, Ticking

LEMMA EndTickTyped == TypeInv /\ (EndTick \/ SaveFails) => TypeInv'
<1> SUFFICES ASSUME TypeInv, EndTick \/ SaveFails PROVE TypeInv'
  OBVIOUS
<1> USE DEF TypeInv
<1>1. /\ pc' = "sleep" /\ wake' \in 0 .. MaxTime
      /\ UNCHANGED <<clock, op, now, due, wanted, runs>>
      /\ due = {} /\ pc = "tick"
  BY SleepTyped DEF EndTick, SaveFails
<1>2. /\ image' = [image EXCEPT ![Ticker] = None]
      /\ image' \in [Writers -> Contents \union {None}]
      /\ image'[Ticker] = None
      /\ \A w \in Editors : image'[w] # None => op'[w] \in Change
  <2>1. image' = [image EXCEPT ![Ticker] = None]
    BY DEF EndTick, SaveFails
  <2> QED
    BY <2>1, <1>1, TickerCopy
<1>3. /\ file' \in Contents /\ stale' \subseteq Writers /\ overwritten' \in BOOLEAN
      /\ lost' \in BOOLEAN /\ left' \in [{"edit", "fault"} -> Nat]
  <2>1. CASE EndTick
    <3>1. image[Ticker] \in Contents /\ Ticker \in Writers
      BY <1>1 DEF CopiesOK, Ticking, Writers
    <3> QED
      BY <2>1, <3>1, SaveTyped DEF EndTick, TypeOK
  <2>2. CASE SaveFails
    BY <2>2, SpendTyped DEF SaveFails, TypeOK
  <2> QED
    BY <2>1, <2>2
<1>4. TypeOK'
  BY <1>1, <1>2, <1>3 DEF TypeOK
<1> QED
  BY <1>1, <1>2, <1>4 DEF CopiesOK, Ticking

LEMMA CrashTyped == TypeInv /\ Crash => TypeInv'
<1> SUFFICES ASSUME TypeInv, Crash PROVE TypeInv'
  OBVIOUS
<1> USE DEF TypeInv
<1>1. /\ image' = [image EXCEPT ![Ticker] = None] /\ UNCHANGED op
      /\ pc' = "down" /\ due' = {} /\ stale' = stale \ {Ticker} /\ lost' \in BOOLEAN
      /\ UNCHANGED <<clock, file, op, wake, now, wanted, runs, overwritten>>
  BY DEF Crash, TypeOK
<1>2. left' \in [{"edit", "fault"} -> Nat]
  BY SpendTyped DEF Crash
<1>3. /\ image' \in [Writers -> Contents \union {None}]
      /\ image'[Ticker] = None
      /\ \A w \in Editors : image'[w] # None => op'[w] \in Change
  BY <1>1, TickerCopy
<1>4. TypeOK'
  BY <1>1, <1>2, <1>3 DEF TypeOK
<1> QED
  BY <1>1, <1>3, <1>4 DEF CopiesOK, Ticking

LEMMA TypeNext == TypeInv /\ [Next]_vars => TypeInv'
<1> SUFFICES ASSUME TypeInv, [Next]_vars PROVE TypeInv'
  OBVIOUS
<1>1. CASE TurnEnds
  BY <1>1 DEF TurnEnds, TypeInv, TypeOK, CopiesOK, Ticking
<1>2. CASE Restart
  <2>1. pc' = "sleep" /\ wake' \in 0 .. MaxTime
    BY <1>2, SleepTyped DEF Restart, TypeInv
  <2> QED
    BY <1>2, <2>1 DEF Restart, TypeInv, TypeOK, CopiesOK, Ticking
<1>3. CASE Pass
  BY <1>3, TimeAssumption DEF Pass, TypeInv, TypeOK, CopiesOK, Ticking
<1>4. CASE UNCHANGED vars
  BY <1>4 DEF TypeInv, TypeOK, CopiesOK, Ticking
<1> QED
  BY <1>1, <1>2, <1>3, <1>4, TickTyped, FireTyped, EndTickTyped, CrashTyped, EditTyped,
     EndEditTyped
     DEF Next, Schedule

(* Every reachable state of the scheduler and the configuration file is of *)
(* the declared type: no interleaving of ticks, edits and faults makes the *)
(* scheduler run, or an editor change, a schedule its copy does not have.  *)
THEOREM TypeCorrect == Spec => []TypeOK
<1>1. TypeInv => TypeOK
  BY DEF TypeInv
<1> QED
  BY <1>1, TypeInit, TypeNext, PTL DEF Spec

-----------------------------------------------------------------------------
(* Copies and the file *)

Applied(change, content) ==
    CASE change.kind = "create"  -> [content EXCEPT ![change.name] = NewEntry]
      [] change.kind = "delete"  -> [content EXCEPT ![change.name] = None]
      [] change.kind = "enable"  -> [content EXCEPT ![change.name].enabled = TRUE]
      [] change.kind = "disable" -> [content EXCEPT ![change.name].enabled = FALSE]
      [] change.kind = "other"   -> content

Applicable(change, content) ==
    change.kind \in {"enable", "disable"} => content[change.name] # None

(* The time of a schedule's last run is not later in one content than in   *)
(* another, unless the schedule is absent from it.                         *)
NotLater(e, f) == e # None => e.last = Never \/ (f # None /\ e.last <= f.last)

(* A copy that is not stale is the file with the writer's change; only a   *)
(* writer that has a copy is stale.                                        *)
FreshOK ==
    /\ \A w \in stale : image[w] # None
    /\ \A w \in Editors \ stale :
          image[w] # None => image[w] = Applied(op[w], file) /\ Applicable(op[w], file)

(* Nothing past has been forgotten. *)
Faithful == ~ lost /\ ~ overwritten

(* No occurrence was run twice, what was run is not later than the last    *)
(* run that entry e tells of, and nothing between was passed over.         *)
RanUpTo(n, e) ==
    e # None =>
        /\ \A o \in Occurs : runs[n][o] > 0 => o <= e.last
        /\ \A o, p \in Occurs : o < p /\ p <= e.last /\ runs[n][o] > 0 => runs[n][p] > 0

NoGapOf(n, e) ==
    e # None =>
        \A o, p \in Occurs : o < p /\ p <= e.last /\ runs[n][o] > 0 => runs[n][p] > 0

(* Between ticks the file tells how far the runs have come; during a tick  *)
(* the scheduler's copy does, unless it is stale.  Even a stale copy does  *)
(* not lead to a second run of what its tick has still to run, nor to a    *)
(* gap before the last run the file tells of.                              *)
HistoryOK(n) ==
    /\ \A o \in Occurs : runs[n][o] <= 1
    /\ ~ Ticking => RanUpTo(n, file[n])
    /\ Ticking /\ Ticker \notin stale => RanUpTo(n, image[Ticker][n])
    /\ Ticking => NotLater(file[n], image[Ticker][n])
    /\ NoGapOf(n, file[n])
    /\ n \in due => /\ image[Ticker][n].last < now
                   /\ \A o \in Covered(image[Ticker][n], now) : runs[n][o] = 0

RunInv ==
    /\ TypeInv
    /\ FreshOK
    /\ Faithful => \A n \in Names : HistoryOK(n)

LEMMA OccurNat == \A o \in Occurs : o \in Nat /\ o >= 1
BY TimeAssumption

LEMMA EntryNumbers ==
    ASSUME NEW e \in Entry
    PROVE  e # None /\ e.last \in Int /\ e.last >= Never
BY NoneAssumption, TimeAssumption DEF Entry, Never

LEMMA ContentsOf ==
    ASSUME NEW c \in Contents, NEW n \in Names
    PROVE  c # None /\ (c[n] # None => c[n] \in Entry)
BY NoneAssumption DEF Contents

LEMMA RunInit == Init => RunInv
<1> SUFFICES ASSUME Init PROVE RunInv
  OBVIOUS
<1>1. FreshOK
  BY DEF Init, FreshOK, Writers
<1>2. ASSUME NEW n \in Names PROVE HistoryOK(n)
  BY DEF Init, HistoryOK, Ticking, RanUpTo, NoGapOf
<1> QED
  BY <1>1, <1>2, TypeInit DEF RunInv

(* What a save of copy by w means for the others' copies. *)
LEMMA SaveFresh ==
    ASSUME TypeInv, FreshOK, NEW w \in Writers, NEW copy, Save(w, copy),
           image' = [image EXCEPT ![w] = None],
           \A v \in Editors \ {w} : op'[v] = op[v]
    PROVE  /\ FreshOK'
           /\ file' = copy
           /\ copy # file => \A v \in Writers \ {w} : image[v] # None => v \in stale'
           /\ \A v \in stale \ {w} : v \in stale'
           /\ overwritten' = (overwritten \/ w \in stale)
<1>1. /\ image \in [Writers -> Contents \union {None}] /\ stale \subseteq Writers
  BY DEF TypeInv, TypeOK
<1>2. \A v \in Writers \ {w} : image'[v] = image[v]
  BY <1>1
<1>3. image'[w] = None
  BY <1>1
<1>4. /\ file' = copy
      /\ overwritten' = (overwritten \/ w \in stale)
  BY DEF Save
<1>5. /\ copy = file => stale' = stale \ {w}
      /\ copy # file => stale' = (stale \union {x \in Writers : image[x] # None}) \ {w}
  BY DEF Save
<1>6. \A v \in stale' : image'[v] # None
  BY <1>1, <1>2, <1>5 DEF FreshOK
<1>7. ASSUME NEW v \in Editors \ stale', image'[v] # None
      PROVE  image'[v] = Applied(op'[v], file') /\ Applicable(op'[v], file')
  <2>1. v # w /\ v \in Writers
    BY <1>3, <1>7 DEF Writers
  <2>2. image[v] # None /\ image'[v] = image[v] /\ op'[v] = op[v]
    BY <1>2, <1>7, <2>1
  <2>3. copy = file /\ v \notin stale
    BY <1>5, <1>7, <2>1, <2>2
  <2> QED
    BY <1>4, <2>2, <2>3 DEF FreshOK
<1> QED
  BY <1>1, <1>4, <1>5, <1>6, <1>7 DEF FreshOK

LEMMA EditRuns ==
    ASSUME RunInv, NEW w \in Editors, NEW kind \in EditKinds, NEW n \in Names,
           Edit(w, kind, n)
    PROVE  RunInv'
<1> USE DEF RunInv
<1>1. TypeInv'
  BY EditTyped
<1>2. /\ w \in Writers /\ w # Ticker /\ Ticker \in Writers
      /\ image \in [Writers -> Contents \union {None}]
      /\ op \in [Editors -> [kind : EditKinds, name : Names] \union {None}]
  BY NamesAssumption DEF Writers, TypeInv, TypeOK
<1>3. /\ image[w] = None
      /\ UNCHANGED <<clock, file, pc, wake, now, due, history>>
      /\ op' = [op EXCEPT ![w] = [kind |-> kind, name |-> n]]
  BY DEF Edit
<1>4. image' = [image EXCEPT ![w] = Applied([kind |-> kind, name |-> n], file)]
  BY DEF Edit, Applied
<1>5. /\ op'[w] = [kind |-> kind, name |-> n]
      /\ image'[w] = Applied(op'[w], file) /\ Applicable(op'[w], file)
      /\ \A v \in Writers \ {w} : image'[v] = image[v]
      /\ \A v \in Editors \ {w} : op'[v] = op[v]
  <2>1. Applicable([kind |-> kind, name |-> n], file)
    <3>1. kind # "other" => ((kind = "create") <=> (file[n] = None))
      BY DEF Edit
    <3> QED
      BY <3>1 DEF Applicable
  <2> QED
    BY <2>1, <1>2, <1>3, <1>4
<1>6. FreshOK'
  <2>1. w \notin stale
    BY <1>3 DEF FreshOK
  <2>2. stale \subseteq Writers
    BY DEF TypeInv, TypeOK
  <2> QED
    BY <1>3, <1>5, <2>1, <2>2 DEF FreshOK, Writers
<1>7. image'[Ticker] = image[Ticker]
  BY <1>2, <1>5
<1>8. ASSUME NEW m \in Names, HistoryOK(m) PROVE HistoryOK(m)'
  BY <1>3, <1>7, <1>8 DEF HistoryOK, Ticking, RanUpTo, NoGapOf, NotLater, Covered
<1> QED
  BY <1>1, <1>3, <1>6, <1>8 DEF Faithful

(* An editor's change leaves every schedule as it is, or has it deleted or *)
(* new, or keeps the time of its last run.                                 *)
LEMMA AppliedTo ==
    ASSUME NEW c \in Contents, NEW change \in Change, NEW n \in Names,
           NEW d \in Contents, d = Applied(change, c), Applicable(change, c)
    PROVE  \/ d[n] = None
           \/ change.kind = "create" /\ change.name = n /\ d[n] = NewEntry
           \/ d[n] # None /\ c[n] # None /\ d[n].last = c[n].last
<1>1. CASE change.kind = "create"
  BY <1>1 DEF Applied, Contents, Change
<1>2. CASE change.kind = "delete"
  BY <1>2 DEF Applied, Contents, Change
<1>3. CASE change.kind = "other"
  BY <1>3 DEF Applied
<1>4. CASE change.kind \in {"enable", "disable"}
  <2>1. PICK b \in BOOLEAN : d = [c EXCEPT ![change.name].enabled = b]
    BY <1>4 DEF Applied
  <2>2. CASE change.name # n
    BY <2>1, <2>2 DEF Contents, Change
  <2>3. CASE change.name = n /\ c[n] # None
    <3>1. c[n] \in Entry /\ d[n] = [c[n] EXCEPT !.enabled = b]
      BY <2>1, <2>3 DEF Contents
    <3> QED
      BY <3>1, <2>3 DEF Entry
  <2> QED
    BY <2>2, <2>3, <1>4 DEF Applicable
<1> QED
  BY <1>1, <1>2, <1>3, <1>4 DEF Change, EditKinds

LEMMA EndEditRuns ==
    ASSUME RunInv, NEW w \in Editors, EndEdit(w)
    PROVE  RunInv'
<1> USE DEF RunInv
<1>1. TypeInv'
  BY EndEditTyped
<1>2. /\ w \in Writers /\ w # Ticker /\ Ticker \in Writers
      /\ image \in [Writers -> Contents \union {None}]
      /\ op \in [Editors -> [kind : EditKinds, name : Names] \union {None}]
      /\ file \in Contents /\ runs \in [Names -> [Occurs -> 0 .. 2]]
  BY NamesAssumption DEF Writers, TypeInv, TypeOK
<1>3. /\ image[w] # None
      /\ Save(w, image[w])
      /\ image' = [image EXCEPT ![w] = None]
      /\ op' = [op EXCEPT ![w] = None]
      /\ UNCHANGED <<clock, pc, wake, now, due, left, lost>>
  BY DEF EndEdit
<1>4. /\ FreshOK'
      /\ file' = image[w]
      /\ image[w] # file => \A v \in Writers \ {w} : image[v] # None => v \in stale'
      /\ \A v \in stale \ {w} : v \in stale'
      /\ overwritten' = (overwritten \/ w \in stale)
  <2>1. \A v \in Editors \ {w} : op'[v] = op[v]
    BY <1>2, <1>3
  <2> QED
    BY <2>1, <1>2, <1>3, SaveFresh
<1>5. image'[Ticker] = image[Ticker]
  BY <1>2, <1>3
<1>6. ASSUME Faithful', NEW n \in Names PROVE HistoryOK(n)'
  <2>1. /\ Faithful /\ w \notin stale /\ overwritten \in BOOLEAN
    BY <1>3, <1>4, <1>6 DEF Faithful, TypeInv, TypeOK
  <2>2. HistoryOK(n)
    BY <2>1
  <2>3. /\ image[w] \in Contents /\ op[w] \in Change
        /\ image[w] = Applied(op[w], file) /\ Applicable(op[w], file)
    BY <1>2, <1>3, <2>1 DEF FreshOK, TypeInv, CopiesOK
  <2> DEFINE created == op[w].kind = "create" /\ op[w].name = n
  <2>4. \/ file'[n] = None
        \/ created /\ file'[n] = NewEntry
        \/ file'[n] # None /\ file[n] # None /\ file'[n].last = file[n].last
    BY <1>2, <1>4, <2>3, AppliedTo
  <2>5. /\ created => \A o \in Occurs : runs'[n][o] = 0
        /\ ~ created => runs'[n] = runs[n]
    BY <1>2, <2>3 DEF EndEdit, NoRuns, Change
  <2>6. Never < 1 /\ NewEntry.last = Never
    BY DEF Never, NewEntry
  <2> HIDE DEF created
  <2>7. \A o \in Occurs : runs'[n][o] <= 1
    BY <2>2, <2>5 DEF HistoryOK
  <2>8. \A o \in Occurs : runs[n][o] \in Nat
    BY <1>2
  <2>10. ~ Ticking => RanUpTo(n, file[n])'
    <3> SUFFICES ASSUME ~ Ticking, file'[n] # None PROVE RanUpTo(n, file[n])'
      BY DEF RanUpTo
    <3>1. RanUpTo(n, file[n])
      BY <2>2 DEF HistoryOK
    <3>2. CASE created
      <4>1. \A o \in Occurs : ~ (runs'[n][o] > 0)
        BY <3>2, <2>5
      <4> QED
        BY <4>1 DEF RanUpTo
    <3>3. CASE ~ created
      <4>1. file[n] # None /\ file'[n].last = file[n].last /\ runs'[n] = runs[n]
        BY <3>3, <2>4, <2>5
      <4> QED
        BY <4>1, <3>1 DEF RanUpTo
    <3> QED
      BY <3>2, <3>3
  <2>11. Ticking /\ Ticker \notin stale' => RanUpTo(n, image[Ticker][n])'
    <3> SUFFICES ASSUME Ticking, Ticker \notin stale' PROVE RanUpTo(n, image[Ticker][n])'
      OBVIOUS
    <3>1. Ticker \notin stale
      BY <1>2, <1>4
    <3>2. RanUpTo(n, image[Ticker][n])
      BY <2>2, <3>1 DEF HistoryOK
    <3>3. CASE created
      <4>1. \A o \in Occurs : ~ (runs'[n][o] > 0)
        BY <3>3, <2>5
      <4> QED
        BY <4>1 DEF RanUpTo
    <3>4. CASE ~ created
      BY <3>4, <2>5, <3>2, <1>5 DEF RanUpTo
    <3> QED
      BY <3>3, <3>4
  <2>12. Ticking => NotLater(file[n], image[Ticker][n])'
    <3> SUFFICES ASSUME Ticking, file'[n] # None
                 PROVE  NotLater(file[n], image[Ticker][n])'
      BY DEF NotLater
    <3>1. NotLater(file[n], image[Ticker][n])
      BY <2>2 DEF HistoryOK
    <3> QED
      BY <3>1, <2>4, <2>6, <1>5 DEF NotLater
  <2>13. NoGapOf(n, file[n])'
    <3> SUFFICES ASSUME file'[n] # None PROVE NoGapOf(n, file[n])'
      BY DEF NoGapOf
    <3>1. NoGapOf(n, file[n])
      BY <2>2 DEF HistoryOK
    <3>2. CASE created
      <4>1. \A o \in Occurs : ~ (runs'[n][o] > 0)
        BY <3>2, <2>5
      <4> QED
        BY <4>1 DEF NoGapOf
    <3>3. CASE ~ created
      <4>1. file[n] # None /\ file'[n].last = file[n].last /\ runs'[n] = runs[n]
        BY <3>3, <2>4, <2>5
      <4> QED
        BY <4>1, <3>1 DEF NoGapOf
    <3> QED
      BY <3>2, <3>3
  <2>14. n \in due => /\ image[Ticker][n].last < now
                     /\ \A o \in Covered(image[Ticker][n], now) : runs'[n][o] = 0
    <3>1. \A o \in Covered(image[Ticker][n], now) : o \in Occurs
      BY DEF Covered
    <3> QED
      BY <2>2, <2>5, <3>1 DEF HistoryOK
  <2>15. /\ Ticking' = Ticking /\ due' = due
         /\ image[Ticker][n].last' = image[Ticker][n].last /\ now' = now
         /\ Covered(image[Ticker][n], now)' = Covered(image[Ticker][n], now)
    BY <1>3, <1>5 DEF Ticking, Covered
  <2> QED
    BY <2>7, <2>10, <2>11, <2>12, <2>13, <2>14, <2>15 DEF HistoryOK
<1> QED
  BY <1>1, <1>4, <1>6

LEMMA TickRuns == RunInv /\ Tick => RunInv'
<1> SUFFICES ASSUME RunInv, Tick PROVE RunInv'
  OBVIOUS
<1> USE DEF RunInv
<1>1. TypeInv'
  BY TickTyped
<1>2. /\ Ticker \in Writers /\ file \in Contents /\ runs \in [Names -> [Occurs -> 0 .. 2]]
      /\ image \in [Writers -> Contents \union {None}] /\ clock \in Nat /\ file # None
      /\ stale \subseteq Writers
  BY NoneAssumption, TimeAssumption DEF Writers, TypeInv, TypeOK
<1>3. /\ pc = "sleep" /\ pc' = "tick" /\ now' = clock
      /\ image' = [image EXCEPT ![Ticker] = file]
      /\ due' = {n \in Names : IsDue(file[n], clock)}
      /\ UNCHANGED <<clock, file, op, wake, left, history>>
  BY DEF Tick
<1>4. /\ image[Ticker] = None /\ image'[Ticker] = file /\ ~ Ticking /\ Ticking'
      /\ \A w \in Editors : image'[w] = image[w]
  BY <1>2, <1>3, NamesAssumption DEF Ticking, TypeInv, CopiesOK, Writers
<1>5. FreshOK'
  <2>1. \A w \in stale : image'[w] # None
    BY <1>2, <1>3, <1>4 DEF FreshOK, Writers
  <2> QED
    BY <2>1, <1>3, <1>4 DEF FreshOK
<1>6. ASSUME Faithful', NEW n \in Names PROVE HistoryOK(n)'
  <2>1. HistoryOK(n)
    BY <1>3, <1>6 DEF Faithful
  <2>2. RanUpTo(n, file[n])
    BY <1>4, <2>1 DEF HistoryOK
  <2>3. RanUpTo(n, image[Ticker][n])'
    BY <1>3, <1>4, <2>2 DEF RanUpTo
  <2>4. NotLater(file[n], image[Ticker][n])'
    <3>1. file[n] # None => file[n].last <= file[n].last
      BY <1>2, ContentsOf, EntryNumbers
    <3> QED
      BY <3>1, <1>3, <1>4 DEF NotLater
  <2>5. NoGapOf(n, file[n])'
    BY <1>3, <2>1 DEF HistoryOK, NoGapOf
  <2>6. ASSUME n \in due'
        PROVE  /\ file[n].last < clock
               /\ \A o \in Covered(file[n], clock) : runs[n][o] = 0
    <3>1. file[n] # None /\ Covered(file[n], clock) # {}
      BY <1>3, <2>6 DEF IsDue
    <3>2. file[n] \in Entry /\ file[n].last \in Int
      BY <1>2, <3>1, ContentsOf, EntryNumbers
    <3>3. ASSUME NEW o \in Covered(file[n], clock)
          PROVE  o \in Occurs /\ o \in Nat /\ file[n].last < o /\ o <= clock
      <4>1. o \in Occurs /\ o \in Nat /\ o >= 1 /\ o <= clock
        BY OccurNat DEF Covered
      <4>2. CASE file[n].last = Never
        BY <4>1, <4>2 DEF Never
      <4>3. CASE file[n].last # Never
        BY <4>1, <4>3 DEF Covered
      <4> QED
        BY <4>1, <4>2, <4>3
    <3>4. file[n].last < clock
      BY <3>1, <3>2, <3>3, <1>2
    <3>5. ASSUME NEW o \in Covered(file[n], clock)
          PROVE  runs[n][o] = 0
      <4>1. o \in Occurs /\ ~ (o <= file[n].last) /\ runs[n][o] \in Nat
        BY <3>2, <3>3, <1>2
      <4>2. ~ (runs[n][o] > 0)
        BY <4>1, <3>1, <2>2 DEF RanUpTo
      <4> QED
        BY <4>1, <4>2
    <3> QED
      BY <3>4, <3>5
  <2>7. (n \in due => /\ image[Ticker][n].last < now
                      /\ \A o \in Covered(image[Ticker][n], now) : runs[n][o] = 0)'
    BY <1>3, <1>4, <2>6 DEF Covered
  <2>8. \A o \in Occurs : runs'[n][o] <= 1
    BY <1>3, <2>1 DEF HistoryOK
  <2> QED
    BY <1>4, <2>3, <2>4, <2>5, <2>7, <2>8 DEF HistoryOK
<1> QED
  BY <1>1, <1>5, <1>6

(* A run, whether the copy it is made from is stale or not. *)
LEMMA FireRuns ==
    ASSUME RunInv, NEW n \in Names, Fire(n)
    PROVE  RunInv'
<1> USE DEF RunInv
<1> DEFINE entry == image[Ticker][n]
           covered == Covered(entry, now)
<1>1. TypeInv'
  BY FireTyped
<1>2. /\ Ticker \in Writers /\ file \in Contents /\ runs \in [Names -> [Occurs -> 0 .. 2]]
      /\ image \in [Writers -> Contents \union {None}] /\ now \in Nat
      /\ stale \subseteq Writers
  BY TimeAssumption DEF Writers, TypeInv, TypeOK
<1>3. /\ pc = "tick" /\ pc' = "turn" /\ n \in due /\ due' = due \ {n}
      /\ image[Ticker] \in Contents /\ entry \in Entry
      /\ image'[Ticker] = [image[Ticker] EXCEPT ![n].last = now]
      /\ image'[Ticker] \in Contents
      /\ image' = [image EXCEPT ![Ticker] = image'[Ticker]]
      /\ \A m \in Names \ {n} : runs'[m] = runs[m]
      /\ \A o \in Occurs : runs'[n][o] = IF o \in covered THEN Earlier(runs[n][o] + 1, 2)
                                         ELSE runs[n][o]
      /\ UNCHANGED <<clock, file, op, wake, now, left, wanted, stale, overwritten, lost>>
  BY FireEffect
<1> HIDE DEF entry, covered
<1>4. Ticking /\ Ticking'
  BY <1>3 DEF Ticking
<1>5. \A w \in Editors : image'[w] = image[w]
  BY <1>2, <1>3, NamesAssumption DEF Writers
<1>6. FreshOK'
  <2>1. image'[Ticker] # None
    BY <1>3, NoneAssumption
  <2> QED
    BY <1>2, <1>3, <1>5, <2>1 DEF FreshOK, Writers
<1>7. /\ \A m \in Names \ {n} : image'[Ticker][m] = image[Ticker][m]
      /\ image'[Ticker][n] # None /\ image'[Ticker][n].last = now
      /\ entry # None /\ entry.last \in Int
  <2>1. image'[Ticker][n] = [entry EXCEPT !.last = now]
    BY <1>3 DEF Contents, entry
  <2>2. \A m \in Names \ {n} : image'[Ticker][m] = image[Ticker][m]
    BY <1>3 DEF Contents
  <2>3. [entry EXCEPT !.last = now] \in Entry /\ [entry EXCEPT !.last = now].last = now
    <3>1. now \in 0 .. MaxTime
      BY DEF TypeInv, TypeOK
    <3> QED
      BY <3>1, <1>3 DEF Entry
  <2> QED
    BY <2>1, <2>2, <2>3, <1>3, EntryNumbers
<1>8. /\ \A o \in Occurs : o \in Nat /\ o >= 1
      /\ \A o \in covered : o \in Occurs /\ o <= now /\ entry.last < o
      /\ \A p \in Occurs : p <= now /\ entry.last < p /\ entry.last # Never => p \in covered
      /\ \A o \in covered, p \in Occurs : o < p /\ p <= now => p \in covered
  <2>1. \A o \in Occurs : o \in Nat /\ o >= 1
    BY OccurNat
  <2>2. ASSUME NEW o \in covered PROVE o \in Occurs /\ o <= now /\ entry.last < o
    <3>1. o \in Occurs /\ o <= now
      BY DEF covered, Covered
    <3>2. CASE entry.last = Never
      BY <3>1, <3>2, <2>1 DEF Never
    <3>3. CASE entry.last # Never
      BY <3>1, <3>3 DEF covered, Covered
    <3> QED
      BY <3>1, <3>2, <3>3
  <2>3. \A p \in Occurs : p <= now /\ entry.last < p /\ entry.last # Never => p \in covered
    BY DEF covered, Covered
  <2>4. \A o \in covered, p \in Occurs : o < p /\ p <= now => p \in covered
    <3>1. PICK from \in Int : covered = {o \in Occurs : from < o /\ o <= now}
      <4>1. now - Window \in Int
        BY <1>2, TimeAssumption
      <4> QED
        BY <4>1, <1>7 DEF covered, Covered
    <3> QED
      BY <3>1, <2>1
  <2> QED
    BY <2>1, <2>2, <2>3, <2>4
<1>9. ASSUME Faithful', NEW m \in Names \ {n} PROVE HistoryOK(m)'
  <2>1. HistoryOK(m)
    BY <1>3, <1>9 DEF Faithful
  <2>2. /\ image'[Ticker][m] = image[Ticker][m] /\ runs'[m] = runs[m] /\ file' = file
        /\ stale' = stale /\ now' = now /\ due' = due \ {n}
    BY <1>3, <1>7
  <2>3. Covered(image[Ticker][m], now)' = Covered(image[Ticker][m], now)
    BY <2>2 DEF Covered
  <2> QED
    BY <2>1, <2>2, <2>3, <1>4 DEF HistoryOK, RanUpTo, NotLater, NoGapOf
<1>10. ASSUME Faithful' PROVE HistoryOK(n)'
  <2>1. HistoryOK(n)
    BY <1>3, <1>10 DEF Faithful
  <2>2. /\ entry.last < now
        /\ \A o \in covered : runs[n][o] = 0
        /\ \A o \in Occurs : runs[n][o] \in Nat /\ runs[n][o] <= 1
        /\ NotLater(file[n], entry) /\ NoGapOf(n, file[n])
        /\ Ticker \notin stale => RanUpTo(n, entry)
    BY <2>1, <1>2, <1>3, <1>4 DEF HistoryOK, entry, covered
  <2>3. /\ \A o \in covered : runs'[n][o] = 1
        /\ \A o \in Occurs \ covered : runs'[n][o] = runs[n][o]
    BY <1>3, <1>8, <2>2 DEF Earlier
  <2>4. \A o \in Occurs : runs'[n][o] <= 1
    BY <2>2, <2>3
  <2>5. Ticker \notin stale' => RanUpTo(n, image[Ticker][n])'
    <3> SUFFICES ASSUME Ticker \notin stale PROVE RanUpTo(n, image[Ticker][n])'
      BY <1>3
    <3>1. RanUpTo(n, entry)
      BY <2>2
    <3>2. ASSUME NEW o \in Occurs, runs'[n][o] > 0 PROVE o <= now
      <4>1. CASE o \in covered
        BY <4>1, <1>8
      <4>2. CASE o \notin covered
        <5>1. runs[n][o] > 0
          BY <3>2, <4>2, <2>3
        <5>2. o <= entry.last
          BY <5>1, <3>1, <1>7 DEF RanUpTo
        <5> QED
          BY <5>2, <2>2, <1>2, <1>7, <1>8
      <4> QED
        BY <4>1, <4>2
    <3>3. ASSUME NEW o \in Occurs, NEW p \in Occurs, o < p, p <= now, runs'[n][o] > 0
          PROVE  runs'[n][p] > 0
      <4>1. CASE p \in covered
        BY <4>1, <2>3
      <4>2. CASE p \notin covered
        <5>1. o \notin covered
          BY <4>2, <3>3, <1>8
        <5>2. runs[n][o] > 0
          BY <5>1, <3>3, <2>3
        <5>3. o <= entry.last
          BY <5>2, <3>1, <1>7 DEF RanUpTo
        <5>4. entry.last # Never
          BY <5>3, <1>8 DEF Never
        <5>5. p <= entry.last
          BY <4>2, <5>4, <3>3, <1>7, <1>8
        <5>6. runs[n][p] > 0
          BY <5>2, <5>5, <3>1, <3>3, <1>7 DEF RanUpTo
        <5> QED
          BY <5>6, <4>2, <2>3
      <4> QED
        BY <4>1, <4>2
    <3> QED
      BY <3>2, <3>3, <1>7 DEF RanUpTo
  <2>6. NotLater(file[n], image[Ticker][n])'
    <3> SUFFICES ASSUME file[n] # None, file[n].last # Never
                 PROVE  file[n].last <= now
      BY <1>3, <1>7 DEF NotLater
    <3>1. file[n].last <= entry.last
      BY <2>2 DEF NotLater
    <3>2. file[n].last \in Int
      BY <1>2, ContentsOf, EntryNumbers
    <3> QED
      BY <3>1, <3>2, <2>2, <1>2, <1>7
  <2>7. NoGapOf(n, file[n])'
    <3> SUFFICES ASSUME file[n] # None, NEW o \in Occurs, NEW p \in Occurs, o < p,
                        p <= file[n].last, runs'[n][o] > 0
                 PROVE  runs'[n][p] > 0
      BY <1>3 DEF NoGapOf
    <3>1. file[n].last # Never /\ file[n].last \in Int
      <4>1. file[n].last \in Int
        BY <1>2, ContentsOf, EntryNumbers
      <4> QED
        BY <4>1, <1>8 DEF Never
    <3>2. file[n].last <= entry.last
      BY <2>2, <3>1 DEF NotLater
    <3>3. ~ (entry.last < o) /\ ~ (entry.last < p)
      BY <3>1, <3>2, <1>7, <1>8
    <3>4. o \notin covered /\ p \notin covered
      BY <3>3, <1>8
    <3>5. runs[n][o] > 0
      BY <3>4, <2>3
    <3>6. runs[n][p] > 0
      BY <3>5, <2>2 DEF NoGapOf
    <3> QED
      BY <3>4, <3>6, <2>3
  <2>8. n \notin due'
    BY <1>3
  <2> QED
    BY <2>4, <2>5, <2>6, <2>7, <2>8, <1>4 DEF HistoryOK
<1> QED
  BY <1>1, <1>6, <1>9, <1>10

LEMMA EndTickRuns == RunInv /\ EndTick => RunInv'
<1> SUFFICES ASSUME RunInv, EndTick PROVE RunInv'
  OBVIOUS
<1> USE DEF RunInv
<1>1. TypeInv'
  BY EndTickTyped
<1>2. /\ Ticker \in Writers /\ image \in [Writers -> Contents \union {None}]
      /\ overwritten \in BOOLEAN
  BY DEF Writers, TypeInv, TypeOK
<1>3. /\ pc = "tick" /\ pc' = "sleep" /\ Save(Ticker, image[Ticker])
      /\ image' = [image EXCEPT ![Ticker] = None]
      /\ UNCHANGED <<op, now, due, wanted, runs, lost>> /\ due = {}
  BY DEF EndTick, Sleep
<1>4. /\ FreshOK' /\ file' = image[Ticker]
      /\ overwritten' = (overwritten \/ Ticker \in stale)
  <2>1. \A v \in Editors \ {Ticker} : op'[v] = op[v]
    BY <1>3
  <2> QED
    BY <2>1, <1>2, <1>3, SaveFresh
<1>5. Ticking /\ ~ Ticking'
  BY <1>3 DEF Ticking
<1>6. ASSUME Faithful', NEW n \in Names PROVE HistoryOK(n)'
  <2>1. Faithful /\ Ticker \notin stale
    BY <1>2, <1>3, <1>4, <1>6 DEF Faithful
  <2>2. /\ RanUpTo(n, image[Ticker][n])
        /\ \A o \in Occurs : runs[n][o] <= 1
    BY <2>1, <1>5 DEF HistoryOK
  <2>3. RanUpTo(n, file[n])' /\ NoGapOf(n, file[n])'
    BY <2>2, <1>3, <1>4 DEF RanUpTo, NoGapOf
  <2> QED
    BY <2>2, <2>3, <1>3, <1>5 DEF HistoryOK
<1> QED
  BY <1>1, <1>4, <1>6

(* A tick that is not saved is lost; a crash between ticks loses nothing. *)
LEMMA FaultRuns == RunInv /\ (SaveFails \/ Crash) => RunInv'
<1> SUFFICES ASSUME RunInv, SaveFails \/ Crash PROVE RunInv'
  OBVIOUS
<1> USE DEF RunInv
<1>1. TypeInv'
  BY EndTickTyped, CrashTyped
<1>2. /\ Ticker \in Writers /\ image \in [Writers -> Contents \union {None}]
      /\ stale \subseteq Writers
  BY DEF Writers, TypeInv, TypeOK
<1>3. /\ image' = [image EXCEPT ![Ticker] = None]
      /\ stale' = stale \ {Ticker}
      /\ UNCHANGED <<file, op, now, runs, overwritten>>
      /\ ~ Ticking' /\ due' = {}
  BY DEF SaveFails, Crash, Sleep, Ticking
<1>4. FreshOK'
  <2>1. \A w \in Editors : image'[w] = image[w]
    BY <1>2, <1>3, NamesAssumption DEF Writers
  <2>2. \A w \in stale' : image'[w] # None
    BY <1>2, <1>3 DEF FreshOK
  <2>3. \A w \in Editors \ stale' : w \notin stale
    BY <1>3, NamesAssumption
  <2> QED
    BY <2>1, <2>2, <2>3, <1>3 DEF FreshOK
<1>5. ASSUME Faithful', NEW n \in Names PROVE HistoryOK(n)'
  <2>1. Faithful /\ ~ Ticking
    <3>1. CASE SaveFails
      BY <3>1, <1>5 DEF SaveFails, Faithful
    <3>2. CASE Crash
      <4>1. image[Ticker] = None /\ ~ lost /\ ~ overwritten
        BY <3>2, <1>5 DEF Crash, Faithful
      <4>2. ~ Ticking
        BY <4>1, NoneAssumption DEF TypeInv, CopiesOK
      <4> QED
        BY <4>1, <4>2 DEF Faithful
    <3> QED
      BY <3>1, <3>2
  <2>2. HistoryOK(n)
    BY <2>1
  <2> QED
    BY <2>1, <2>2, <1>3 DEF HistoryOK, RanUpTo, NoGapOf
<1> QED
  BY <1>1, <1>4, <1>5

LEMMA RunNext == RunInv /\ [Next]_vars => RunInv'
<1> SUFFICES ASSUME RunInv, [Next]_vars PROVE RunInv'
  OBVIOUS
<1>1. ASSUME UNCHANGED <<file, image, op, now, due, history>>, Ticking' = Ticking
      PROVE  RunInv'
  <2>1. TypeInv'
    BY TypeNext DEF RunInv
  <2>2. FreshOK'
    BY <1>1 DEF RunInv, FreshOK
  <2>3. ASSUME NEW n \in Names, HistoryOK(n) PROVE HistoryOK(n)'
    BY <1>1, <2>3 DEF HistoryOK, RanUpTo, NotLater, NoGapOf, Covered
  <2> QED
    BY <2>1, <2>2, <2>3, <1>1 DEF RunInv, Faithful
<1>2. CASE TurnEnds
  BY <1>1, <1>2 DEF TurnEnds, Ticking
<1>3. CASE Restart
  BY <1>1, <1>3 DEF Restart, Sleep, Ticking
<1>4. CASE Pass
  BY <1>1, <1>4 DEF Pass, Ticking
<1>5. CASE UNCHANGED vars
  BY <1>1, <1>5 DEF Ticking
<1> QED
  BY <1>2, <1>3, <1>4, <1>5, TickRuns, FireRuns, EndTickRuns, FaultRuns, EditRuns, EndEditRuns
     DEF Next, Schedule

(* As long as no tick is lost and no stale copy saved, no occurrence of a  *)
(* schedule is run twice: the time that tick() stores is the one is_due    *)
(* was asked with, however long the runs take and whatever editors do.     *)
THEOREM RunsAtMostOnce == Spec => []RunsOnce
<1>1. RunInv => RunsOnce
  BY DEF RunInv, RunsOnce, Faithful, HistoryOK
<1> QED
  BY <1>1, RunInit, RunNext, PTL DEF Spec

(* Under the same condition a schedule that has run for an occurrence has  *)
(* run for all later ones up to its last run: is_due starts where the last *)
(* run ended.                                                              *)
THEOREM NothingSkipped == Spec => []NoGap
<1>1. RunInv => NoGap
  <2> SUFFICES ASSUME RunInv, Faithful, NEW n \in Names, NEW o \in Occurs, NEW p \in Occurs,
                      file[n] # None, o < p, p <= file[n].last, runs[n][o] > 0
               PROVE  runs[n][p] > 0
    BY DEF NoGap, Faithful
  <2>1. NoGapOf(n, file[n])
    BY DEF RunInv, HistoryOK
  <2> QED
    BY <2>1 DEF NoGapOf
<1> QED
  BY <1>1, RunInit, RunNext, PTL DEF Spec
=============================================================================
