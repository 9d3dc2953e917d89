--------------------------- MODULE SettingsProofs ---------------------------
(***************************************************************************)
(* Theorems about Settings, for any number of requests, commands and       *)
(* edits: the type invariant, that the server never works with a           *)
(* configuration that was not on disk, and that whatever is shown of an    *)
(* entry is its last edit as long as no two edits of its file overlap.     *)
(***************************************************************************)
EXTENDS Settings, TLAPS

USE DEF vars

(* The directory and the server's copy of it; what each actor is at. *)
Places ==
    /\ disk \in Content /\ memory \in Content /\ made \in Content
    /\ archive \in Content /\ written \subseteq Content
    /\ up \in BOOLEAN /\ edits \in 0 .. MaxEdits /\ disturbed \subseteq Files

Work ==
    /\ pc \in [Actors -> Steps]
    /\ entry \in [Actors -> Entries]
    /\ image \in [Actors -> Content]

LEMMA TypeParts == TypeOK <=> Places /\ Work
BY DEF TypeOK, Places, Work

-----------------------------------------------------------------------------
(* Entries and contents *)

LEMMA SomeEntries ==
    /\ {"setting", "secret", "aivyx", "coordinator", "team", "skill", "plugin", "user",
        "schedule", "channel", "project", "notification", "memory", "run"} \subseteq Entries
    /\ ConfigEntries \subseteq Entries /\ Profiles \subseteq Entries
BY DEF Entries, ConfigEntries, Profiles, Records

LEMMA FileTyped == ASSUME NEW e \in Entries PROVE File(e) \in Files
BY DEF Files

LEMMA ConfigFile ==
    /\ \A e \in ConfigEntries : File(e) = "config"
    /\ "config" \notin Databases
    /\ "setting" \in ConfigEntries /\ "plugin" \in ConfigEntries
    /\ "coordinator" \notin ConfigEntries /\ "skill" \notin ConfigEntries
BY DEF File, ConfigEntries, Databases

LEMMA Contents ==
    /\ Nothing \in Content
    /\ \A c \in Content : Configuration(c) \in Content
BY BoundAssumption DEF Nothing, Content, Configuration

LEMMA CopyTyped ==
    ASSUME disk \in Content, NEW e \in Entries, NEW content \in 0 .. MaxEdits
    PROVE  Copy(e, content) \in Content
BY BoundAssumption DEF Copy, Content

(* The configuration is told by its entries. *)
LEMMA SameConfiguration ==
    ASSUME NEW c, NEW d, \A e \in ConfigEntries : c[e] = d[e]
    PROVE  Configuration(c) = Configuration(d)
BY DEF Configuration

-----------------------------------------------------------------------------
(* A step that leaves the directory and the server's copy alone: what an   *)
(* actor is at, its entry and its image change.                            *)
Apart(a) ==
    /\ UNCHANGED <<disk, memory, up, made, written>>
    /\ archive' \in Content /\ edits' \in 0 .. MaxEdits /\ disturbed' \subseteq Files
    /\ \E step \in Steps \ {"swap"} : pc' = [pc EXCEPT ![a] = step]
    /\ entry' = entry \/ \E e \in Entries : entry' = [entry EXCEPT ![a] = e]
    /\ image' = image \/ \E c \in Content : image' = [image EXCEPT ![a] = c]

LEMMA ApartTyped ==
    ASSUME TypeOK, NEW a \in Actors, Apart(a)
    PROVE  TypeOK'
<1>1. Places'
  BY TypeParts DEF Apart, Places
<1>2. Work'
  BY TypeParts DEF Apart, Work
<1> QED
  BY <1>1, <1>2 DEF TypeOK, Places, Work

LEMMA NumberTyped ==
    ASSUME TypeOK, Numbered
    PROVE  edits' \in 0 .. MaxEdits /\ edits + 1 \in 0 .. MaxEdits
BY BoundAssumption DEF Numbered, TypeOK

LEMMA LoadsApart ==
    ASSUME TypeOK, NEW a \in Actors, NEW e \in Entries, NEW content \in 0 .. MaxEdits,
           NEW where \in Steps \ {"swap"}, Loads(a, e, content, where),
           edits' \in 0 .. MaxEdits
    PROVE  Apart(a)
<1>1. Copy(e, content) \in Content
  BY CopyTyped DEF TypeOK
<1>2. disturbed' \subseteq Files /\ archive' \in Content
  BY FileTyped DEF Loads, TypeOK
<1> QED
  BY <1>1, <1>2 DEF Loads, Apart

LEMMA EditApart ==
    ASSUME TypeOK, NEW a \in Actors, NEW e \in Entries, Writes(a, e) \/ Erases(a, e)
    PROVE  Apart(a)
<1>1. Numbered /\ "save" \in Steps \ {"swap"}
  BY DEF Writes, Erases, Steps
<1>2. /\ edits + 1 \in 0 .. MaxEdits /\ edits' \in 0 .. MaxEdits
      /\ 0 \in 0 .. MaxEdits
  BY <1>1, NumberTyped, BoundAssumption
<1>3. \E content \in {0, edits + 1} : Loads(a, e, content, "save")
  BY DEF Writes, Erases
<1> QED
  BY <1>1, <1>2, <1>3, LoadsApart

LEMMA HandlerApart ==
    ASSUME TypeOK, NEW r \in Requests, Handler(r)
    PROVE  Apart(r)
<1> r \in Actors
  BY DEF Actors
<1>1. CASE RunTeam(r)
  <2>1. Runs(r, "run")
    BY <1>1 DEF RunTeam
  <2> QED
    BY <2>1, SomeEntries DEF Runs, Apart, TypeOK, Steps
<1>2. CASE Tick(r)
  <2>1. /\ "schedule" \in Entries /\ disk["schedule"] \in 0 .. MaxEdits
        /\ "tick" \in Steps \ {"swap"}
    BY SomeEntries DEF TypeOK, Content, Steps
  <2>2. edits + 1 \in 0 .. MaxEdits /\ edits' \in 0 .. MaxEdits
    BY <1>2, NumberTyped DEF Tick
  <2>3. \E content \in {disk["schedule"], edits + 1} : Loads(r, "schedule", content, "tick")
    BY <1>2 DEF Tick
  <2> QED
    BY <2>1, <2>2, <2>3, LoadsApart
<1>3. CASE ~ (RunTeam(r) \/ Tick(r))
  <2>1. \E e \in Entries : Writes(r, e) \/ Erases(r, e)
    BY <1>3, SomeEntries
       DEF Handler, CreateSchedule, DeleteSchedule, CreateChannel, UpdateChannel,
           DeleteChannel, CreateProject, DeleteProject, PatchConfig, InstallPlugin,
           RemovePlugin, CreateAgent, PatchPersona, UpdateCapabilities, UpdateAgent,
           DuplicateAgent, DeleteAgent, DeleteSkill, SetSecret, DeleteSecret,
           StoreNotification, RateNotification, DrainNotifications, DeleteMemory,
           UpdateProfile, Adds, Alters, Removes
  <2> QED
    BY <2>1, EditApart
<1> QED
  BY <1>1, <1>2, <1>3

LEMMA LeavesTyped ==
    ASSUME NEW a, Leaves(a)
    PROVE  /\ pc' = [pc EXCEPT ![a] = "idle"] /\ "idle" \in Steps \ {"swap"}
           /\ entry' = [entry EXCEPT ![a] = "setting"] /\ "setting" \in Entries
           /\ image' = [image EXCEPT ![a] = Nothing] /\ Nothing \in Content
BY SomeEntries, Contents DEF Leaves, Steps

LEMMA StepApart ==
    ASSUME TypeOK, NEW a \in Actors,
           ExtractProfile(a) \/ TakeManager(a) \/ StoreResult(a) \/ Fails(a) \/ CutOff(a)
    PROVE  Apart(a)
<1>1. CASE ExtractProfile(a)
  BY <1>1, SomeEntries DEF ExtractProfile, Apart, TypeOK, Steps
<1>2. CASE TakeManager(a)
  <2>1. Copy("user", edits + 1) \in Content /\ edits' \in 0 .. MaxEdits
    BY <1>2, NumberTyped, CopyTyped, SomeEntries DEF TakeManager, TypeOK
  <2> QED
    BY <1>2, <2>1, SomeEntries DEF TakeManager, Apart, TypeOK, Steps
<1>3. CASE StoreResult(a)
  <2>1. Copy(entry[a], edits + 1) \in Content /\ edits' \in 0 .. MaxEdits
    BY <1>3, NumberTyped, CopyTyped DEF StoreResult, TypeOK
  <2> QED
    BY <1>3, <2>1 DEF StoreResult, Apart, TypeOK, Steps
<1>4. CASE Fails(a)
  BY <1>4, LeavesTyped DEF Fails, Apart, TypeOK
<1>5. CASE CutOff(a)
  <2>1. "config" \in Files
    BY ConfigFile, SomeEntries, FileTyped
  <2> QED
    BY <1>5, <2>1, LeavesTyped DEF CutOff, Apart, TypeOK
<1> QED
  BY <1>1, <1>2, <1>3, <1>4, <1>5

(* The commands that change the directory in another way than Save. *)
Whole(c) ==
    WriteProfiles(c) \/ CopyCut(c) \/ Commit(c) \/ BeginRestore(c) \/ Restore(c) \/ RestoreCut(c)

LEMMA CommandApart ==
    ASSUME TypeOK, NEW c \in Commands, Command(c), ~ Whole(c)
    PROVE  Apart(c)
<1> c \in Actors
  BY DEF Actors
<1>1. CASE RunNow(c)
  BY <1>1, SomeEntries DEF RunNow, Runs, Apart, TypeOK, Steps
<1>2. CASE Genesis(c)
  <2>1. edits' \in 0 .. MaxEdits /\ edits + 1 \in 0 .. MaxEdits
    BY <1>2, NumberTyped DEF Genesis
  <2>2. \E answers : image' = [image EXCEPT ![c] =
                                 [e \in Entries |-> IF e \in answers THEN edits + 1 ELSE 0]]
    BY <1>2 DEF Genesis
  <2>3. \A answers : [e \in Entries |-> IF e \in answers THEN edits + 1 ELSE 0] \in Content
    BY <2>1, BoundAssumption DEF Content
  <2>4. disturbed' \subseteq Files
    BY <1>2 DEF Genesis, TypeOK, Underway
  <2> QED
    BY <1>2, <2>1, <2>2, <2>3, <2>4, SomeEntries DEF Genesis, Apart, TypeOK, Steps
<1>3. CASE BeginBackup(c)
  BY <1>3 DEF BeginBackup, Apart, TypeOK, Steps
<1>4. CASE CreateBackup(c)
  <2>1. archive' \in Content
    <3>1. PICK late : archive' = [e \in Entries |-> IF File(e) \in late THEN disk[e]
                                                    ELSE image[c][e]]
      BY <1>4 DEF CreateBackup
    <3>2. disk \in Content /\ image[c] \in Content
      BY DEF TypeOK
    <3> QED
      BY <3>1, <3>2 DEF Content
  <2> QED
    BY <1>4, <2>1, LeavesTyped DEF CreateBackup, Apart, TypeOK
<1>5. CASE CreateTeam(c)
  <2>1. edits' \in 0 .. MaxEdits /\ edits + 1 \in 0 .. MaxEdits /\ "team" \in Entries
    BY <1>5, NumberTyped, SomeEntries DEF CreateTeam, Adds, Writes
  <2>2. \E where \in {"save", "profiles"} : Loads(c, "team", edits + 1, where)
    BY <1>5 DEF CreateTeam, Adds, Writes
  <2> QED
    BY <2>1, <2>2, LoadsApart DEF Steps
<1>6. CASE ~ (RunNow(c) \/ Genesis(c) \/ BeginBackup(c) \/ CreateBackup(c) \/ CreateTeam(c))
  <2>1. \E e \in Entries : Writes(c, e) \/ Erases(c, e)
    BY <1>6, SomeEntries
       DEF Command, Whole, AddSchedule, RemoveSchedule, EnableSchedule, DisableSchedule,
           AddChannel, RemoveChannel, AddProject, RemoveProject, SetConfig, CreateProfile,
           SetPersona, InstallSkill, RemoveSkill, SecretSet, SecretDelete, MemoryDelete,
           ProfileSet, ProfileClear, TeamRun, SessionDelete, Adds, Alters, Removes
  <2> QED
    BY <2>1, EditApart
<1> QED
  BY <1>1, <1>2, <1>3, <1>4, <1>5, <1>6

-----------------------------------------------------------------------------
(* Steps that change the directory *)

LEMMA SaveTyped ==
    ASSUME TypeOK, NEW a \in Actors, Save(a)
    PROVE  TypeOK'
<1>1. image[a] \in Content /\ disk \in Content /\ made \in Content /\ entry[a] \in Entries
  BY DEF TypeOK
<1>2. disk' \in Content
  BY <1>1 DEF Save, Content
<1>3. made' \in Content
  BY <1>1 DEF Save, Content
<1>4. written' \subseteq Content
  BY <1>2, Contents DEF Save, TypeOK
<1>5. pc' \in [Actors -> Steps] /\ entry' \in [Actors -> Entries] /\ image' \in [Actors -> Content]
  <2>1. \/ pc' = [pc EXCEPT ![a] = "swap"] /\ UNCHANGED <<entry, image>>
        \/ Leaves(a)
    BY DEF Save
  <2> QED
    BY <2>1, LeavesTyped DEF TypeOK, Steps
<1> QED
  BY <1>2, <1>3, <1>4, <1>5 DEF TypeOK, Save

LEMMA SwapTyped ==
    ASSUME TypeOK, NEW a \in Actors, Swap(a)
    PROVE  TypeOK'
BY Contents, LeavesTyped DEF Swap, TypeOK

LEMMA WholeTyped ==
    ASSUME TypeOK, NEW c \in Commands, Whole(c)
    PROVE  TypeOK'
<1> c \in Actors
  BY DEF Actors
<1>1. /\ image[c] \in Content /\ disk \in Content /\ made \in Content /\ entry[c] \in Entries
      /\ archive \in Content
  BY DEF TypeOK
<1>2. disturbed' \subseteq Files
  <2>1. "coordinator" \in Files /\ "skill" \in Files
    <3>1. File("coordinator") = "coordinator" /\ File("skill") = "skill"
      BY DEF File, ConfigEntries
    <3> QED
      BY <3>1, SomeEntries, FileTyped
  <2>2. \A b : Underway(b) \subseteq Files
    BY DEF Underway
  <2> QED
    BY <2>1, <2>2 DEF Whole, WriteProfiles, CopyCut, Commit, BeginRestore, Restore,
                      RestoreCut, TypeOK
<1>3. disk' \in Content
  <2>1. CASE WriteProfiles(c)
    <3>1. image[c]["team"] \in 0 .. MaxEdits /\ disk["coordinator"] \in 0 .. MaxEdits
      BY <1>1, SomeEntries DEF Content
    <3> QED
      BY <2>1, <3>1, <1>1 DEF WriteProfiles, Content
  <2>2. CASE CopyCut(c)
    BY <2>2, <1>1, SomeEntries DEF CopyCut, Content
  <2>3. CASE Commit(c)
    BY <2>3, <1>1 DEF Commit, Content
  <2>4. CASE BeginRestore(c)
    BY <2>4, Contents DEF BeginRestore
  <2>5. CASE Restore(c)
    BY <2>5, <1>1 DEF Restore
  <2>6. CASE RestoreCut(c)
    BY <2>6, <1>1, BoundAssumption DEF RestoreCut, Content
  <2> QED
    BY <2>1, <2>2, <2>3, <2>4, <2>5, <2>6 DEF Whole
<1>4. made' \in Content
  <2>1. CASE WriteProfiles(c)
    <3>1. image[c]["team"] \in 0 .. MaxEdits /\ disk["coordinator"] \in 0 .. MaxEdits
      BY <1>1, SomeEntries DEF Content
    <3> QED
      BY <2>1, <3>1, <1>1 DEF WriteProfiles, Content
  <2>2. CASE CopyCut(c)
    BY <2>2, <1>1 DEF CopyCut
  <2>3. CASE Commit(c)
    BY <2>3, <1>1 DEF Commit, Content
  <2>4. CASE BeginRestore(c)
    BY <2>4, Contents DEF BeginRestore
  <2>5. CASE Restore(c)
    BY <2>5, <1>1 DEF Restore
  <2>6. CASE RestoreCut(c)
    BY <2>6, <1>1 DEF RestoreCut
  <2> QED
    BY <2>1, <2>2, <2>3, <2>4, <2>5, <2>6 DEF Whole
<1>5. written' \subseteq Content /\ archive' \in Content
  BY <1>1, <1>3, Contents
     DEF Whole, WriteProfiles, CopyCut, Commit, BeginRestore, Restore, RestoreCut, TypeOK
<1>6. /\ pc' \in [Actors -> Steps] /\ entry' \in [Actors -> Entries]
      /\ image' \in [Actors -> Content]
  <2>1. \/ Leaves(c)
        \/ \E step \in {"save", "restore"} : pc' = [pc EXCEPT ![c] = step]
              /\ entry' = entry /\ (image' = image \/ image' = [image EXCEPT ![c] = archive])
        \/ pc' = pc /\ image' = image
              /\ \E e \in {"setting", "aivyx"} : entry' = [entry EXCEPT ![c] = e]
    BY DEF Whole, WriteProfiles, CopyCut, Commit, BeginRestore, Restore, RestoreCut
  <2> QED
    BY <2>1, <1>1, LeavesTyped, SomeEntries DEF TypeOK, Steps
<1>7. UNCHANGED <<memory, up, edits>>
  BY DEF Whole, WriteProfiles, CopyCut, Commit, BeginRestore, Restore, RestoreCut
<1> QED
  BY <1>2, <1>3, <1>4, <1>5, <1>6, <1>7 DEF TypeOK

LEMMA ServerTyped == TypeOK /\ (Start \/ Stop) => TypeOK'
<1> SUFFICES ASSUME TypeOK, Start \/ Stop PROVE TypeOK'
  OBVIOUS
<1>1. CASE Start
  BY <1>1, Contents DEF Start, TypeOK
<1>2. CASE Stop
  <2>1. "idle" \in Steps
    BY DEF Steps
  <2> QED
    BY <1>2, <2>1, Contents, SomeEntries DEF Stop, TypeOK
<1> QED
  BY <1>1, <1>2

LEMMA TypeInit == Init => TypeOK
<1> SUFFICES ASSUME Init PROVE TypeOK
  OBVIOUS
<1>1. 0 \in 0 .. MaxEdits /\ 1 \in 0 .. MaxEdits /\ "idle" \in Steps
  BY BoundAssumption DEF Steps
<1>2. disk \in Content
  <2>1. PICK present : disk = [e \in Entries |-> IF e \in present THEN 1 ELSE 0]
    BY DEF Init
  <2> QED
    BY <1>1, <2>1 DEF Content
<1> QED
  BY <1>1, <1>2, Contents, SomeEntries DEF Init, TypeOK

(* Every step is one of these. *)
LEMMA NextCases ==
    ASSUME TypeOK, [Next]_vars
    PROVE  \/ \E a \in Actors : Apart(a) \/ Save(a) \/ Swap(a)
           \/ \E c \in Commands : Whole(c)
           \/ Start \/ Stop \/ UNCHANGED vars
<1>1. ASSUME NEW r \in Requests, Handler(r) \/ Swap(r) \/ CutOff(r)
      PROVE  \E a \in Actors : Apart(a) \/ Save(a) \/ Swap(a)
  BY <1>1, HandlerApart, StepApart DEF Actors
<1>2. ASSUME NEW c \in Commands, Command(c)
      PROVE  Whole(c) \/ \E a \in Actors : Apart(a)
  BY <1>2, CommandApart DEF Actors
<1>3. ASSUME NEW a \in Actors,
             ExtractProfile(a) \/ TakeManager(a) \/ StoreResult(a) \/ Save(a) \/ Fails(a)
      PROVE  Apart(a) \/ Save(a)
  BY <1>3, StepApart
<1> QED
  BY <1>1, <1>2, <1>3 DEF Next

(* Every reachable state of the data directory and of those who edit it is *)
(* of the declared type.                                                   *)
THEOREM TypeCorrect == Spec => []TypeOK
<1>1. TypeOK /\ [Next]_vars => TypeOK'
  <2> SUFFICES ASSUME TypeOK, [Next]_vars PROVE TypeOK'
    OBVIOUS
  <2>1. CASE UNCHANGED vars
    BY <2>1 DEF TypeOK
  <2> QED
    BY <2>1, NextCases, ApartTyped, SaveTyped, SwapTyped, WholeTyped, ServerTyped
<1> QED
  BY <1>1, TypeInit, PTL DEF Spec

-----------------------------------------------------------------------------
(* What the server works with *)

(* A handler swaps in a copy it has saved, and the file of an initialized  *)
(* directory holds what some edit has written.                             *)
ReloadInv ==
    /\ TypeOK
    /\ up => memory \in written
    /\ IsInitialized => Configuration(disk) \in written
    /\ \A a \in Actors : pc[a] = "swap" => Configuration(image[a]) \in written

LEMMA ReloadInit == Init => ReloadInv
BY TypeInit DEF Init, ReloadInv

LEMMA ReloadNext == ReloadInv /\ [Next]_vars => ReloadInv'
<1> SUFFICES ASSUME ReloadInv, [Next]_vars PROVE ReloadInv'
  OBVIOUS
<1>1. TypeOK /\ TypeOK'
  <2>1. CASE UNCHANGED vars
    BY <2>1 DEF ReloadInv, TypeOK
  <2> QED
    BY <2>1, NextCases, ApartTyped, SaveTyped, SwapTyped, WholeTyped, ServerTyped
    DEF ReloadInv
<1>2. ASSUME NEW a \in Actors, Apart(a) PROVE ReloadInv'
  <2>1. /\ UNCHANGED <<disk, memory, up, written>>
        /\ pc'[a] # "swap"
        /\ \A b \in Actors \ {a} : pc'[b] = pc[b] /\ image'[b] = image[b]
    BY <1>1, <1>2 DEF Apart, TypeOK
  <2> QED
    BY <1>1, <2>1 DEF ReloadInv, IsInitialized
<1>3. ASSUME NEW a \in Actors, Save(a) PROVE ReloadInv'
  <2>1. /\ written' = written \union {Configuration(disk')}
        /\ UNCHANGED <<memory, up>>
    BY <1>3 DEF Save
  <2>2. ASSUME HotReloads(a)
        PROVE  Configuration(image[a]) = Configuration(disk')
    <3>1. File(entry[a]) = "config"
      BY <2>2, ConfigFile DEF HotReloads
    <3>2. \A e \in ConfigEntries : disk'[e] = image[a][e]
      BY <3>1, <1>3, ConfigFile, SomeEntries DEF Save
    <3> QED
      BY <3>2, SameConfiguration
  <2>3. \A b \in Actors : pc'[b] = "swap" => Configuration(image'[b]) \in written'
    <3>1. CASE HotReloads(a)
      <4>1. pc' = [pc EXCEPT ![a] = "swap"] /\ image' = image
        BY <1>3, <3>1 DEF Save
      <4> QED
        BY <1>1, <2>1, <2>2, <3>1, <4>1 DEF ReloadInv, TypeOK
    <3>2. CASE ~ HotReloads(a)
      <4>1. Leaves(a)
        BY <1>3, <3>2 DEF Save
      <4> QED
        BY <1>1, <2>1, <4>1, LeavesTyped DEF ReloadInv, TypeOK
    <3> QED
      BY <3>1, <3>2
  <2> QED
    BY <1>1, <2>1, <2>3 DEF ReloadInv
<1>4. ASSUME NEW a \in Actors, Swap(a) PROVE ReloadInv'
  <2>1. /\ pc[a] = "swap" /\ memory' = Configuration(image[a])
        /\ UNCHANGED <<disk, up, written>>
        /\ Leaves(a)
    BY <1>4 DEF Swap
  <2>2. \A b \in Actors : pc'[b] = "swap" => pc[b] = "swap" /\ image'[b] = image[b]
    BY <1>1, <2>1, LeavesTyped DEF TypeOK
  <2> QED
    BY <1>1, <2>1, <2>2 DEF ReloadInv, IsInitialized
<1>5. ASSUME NEW c \in Commands, Whole(c) PROVE ReloadInv'
  <2> c \in Actors
    BY DEF Actors
  <2>1. UNCHANGED <<memory, up>> /\ written \subseteq written'
    BY <1>5 DEF Whole, WriteProfiles, CopyCut, Commit, BeginRestore, Restore, RestoreCut
  <2>2. \A b \in Actors : pc'[b] = "swap" => pc[b] = "swap" /\ image'[b] = image[b]
    <3>1. \A b \in Actors \ {c} : pc'[b] = pc[b] /\ image'[b] = image[b]
      BY <1>1, <1>5, LeavesTyped
         DEF Whole, WriteProfiles, CopyCut, Commit, BeginRestore, Restore, RestoreCut, TypeOK
    <3>2. pc'[c] # "swap"
      <4>1. \/ Leaves(c)
            \/ \E step \in {"save", "restore"} : pc' = [pc EXCEPT ![c] = step]
            \/ pc' = pc /\ pc[c] = "genesis"
        BY <1>5 DEF Whole, WriteProfiles, CopyCut, Commit, BeginRestore, Restore, RestoreCut
      <4> QED
        BY <1>1, <4>1, LeavesTyped DEF TypeOK
    <3> QED
      BY <3>1, <3>2
  <2>3. IsInitialized' => Configuration(disk') \in written'
    <3>1. CASE Commit(c) \/ Restore(c) \/ RestoreCut(c)
      BY <3>1 DEF Commit, Restore, RestoreCut
    <3>2. CASE BeginRestore(c)
      BY <3>2, SomeEntries DEF BeginRestore, IsInitialized, Nothing
    <3>3. CASE WriteProfiles(c) \/ CopyCut(c)
      <4>1. /\ \A e \in ConfigEntries : disk'[e] = disk[e]
            /\ written' = written
        BY <3>3, <1>1, ConfigFile, SomeEntries DEF WriteProfiles, CopyCut, TypeOK, Content
      <4>2. Configuration(disk') = Configuration(disk)
        BY <4>1, SameConfiguration
      <4>3. disk'["setting"] = disk["setting"]
        BY <4>1, ConfigFile
      <4> QED
        BY <4>1, <4>2, <4>3 DEF ReloadInv, IsInitialized
    <3> QED
      BY <1>5, <3>1, <3>2, <3>3 DEF Whole
  <2> QED
    BY <1>1, <2>1, <2>2, <2>3 DEF ReloadInv
<1>6. CASE Start
  BY <1>1, <1>6 DEF Start, ReloadInv, IsInitialized
<1>7. CASE Stop
  <2>1. \A a \in Actors : pc'[a] = "swap" => pc[a] = "swap" /\ image'[a] = image[a]
    BY <1>7 DEF Stop
  <2> QED
    BY <1>1, <1>7, <2>1 DEF Stop, ReloadInv, IsInitialized
<1>8. CASE UNCHANGED vars
  BY <1>1, <1>8 DEF ReloadInv, IsInitialized
<1> QED
  BY <1>1, <1>2, <1>3, <1>4, <1>5, <1>6, <1>7, <1>8, NextCases

(* The server never works with a configuration that was not on disk: the   *)
(* handlers replace the copy in memory only after their save, and start    *)
(* loads the file of an initialized directory.                             *)
THEOREM ReloadsWhatWasWritten == Spec => []MemoryOnceWritten
<1>1. ReloadInv => MemoryOnceWritten
  BY DEF ReloadInv, MemoryOnceWritten
<1> QED
  BY <1>1, ReloadInit, ReloadNext, PTL DEF Spec

-----------------------------------------------------------------------------
(* What is shown of an entry is what its last edit made it.                *)

(* Request or command a has a copy of the configuration that it saves or   *)
(* has saved.                                                              *)
ConfigEditor(a) == pc[a] \in {"save", "swap", "tick"} /\ entry[a] \in ConfigEntries

TaskOK(a) ==
    /\ pc[a] = "running" => File(entry[a]) \in Databases
    /\ pc[a] = "extracting" => entry[a] = "user"
    /\ pc[a] = "profiles" => entry[a] = "team"
    /\ pc[a] = "tick" => entry[a] = "schedule"
    /\ pc[a] = "swap" => HotReloads(a)
    /\ pc[a] = "save" /\ entry[a] = "plugin" => a \in Requests

(* The copy is the file but for the entry that is edited. *)
Current(a) ==
    \A e \in ConfigEntries :
        e # entry[a] \/ pc[a] = "swap" => image[a][e] = disk[e]

Swapping == \E r \in Requests : pc[r] = "swap"

ConfigAlone ==
    /\ \A a \in Actors : ConfigEditor(a) => Current(a)
    /\ \A a, b \in Actors : ConfigEditor(a) /\ ConfigEditor(b) => a = b
    /\ up /\ ~Swapping => memory["plugin"] = disk["plugin"]

(* What is on disk is what was meant, of every file but the disturbed      *)
(* ones; and of a configuration that is not one of these, whoever is about *)
(* to save it has the only copy, and that is current.                      *)
KeepInv ==
    /\ TypeOK
    /\ \A e \in Entries : disk[e] = made[e] \/ File(e) \in disturbed
    /\ \A a \in Actors : TaskOK(a)
    /\ "config" \notin disturbed => ConfigAlone

(* Steps of a that leave the directory alone: it loads a file to edit it,  *)
(* or does anything else.                                                  *)
Elsewhere(a) ==
    /\ UNCHANGED <<disk, memory, made, up>>
    /\ disturbed \subseteq disturbed'
    /\ \A b \in Actors \ {a} :
          pc'[b] = pc[b] /\ entry'[b] = entry[b] /\ image'[b] = image[b]

Begins(a) ==
    /\ Elsewhere(a)
    /\ pc[a] = "idle" /\ pc'[a] \in {"save", "profiles", "tick"}
    /\ TaskOK(a)'
    /\ entry'[a] \in ConfigEntries =>
          /\ \A x \in ConfigEntries : x # entry'[a] => image'[a][x] = disk[x]
          /\ (\E b \in Actors : Busy(b, "config")) => "config" \in disturbed'

Moves(a) ==
    /\ Elsewhere(a)
    /\ TaskOK(a)'
    /\ ~ConfigEditor(a)'
    /\ pc[a] = "swap" => "config" \in disturbed'

LEMMA FileKinds ==
    /\ \A e \in ConfigEntries : File(e) \notin Databases
    /\ File("run") \in Databases /\ File("notification") \in Databases
    /\ File("user") \in Databases
    /\ File("coordinator") = "coordinator" /\ File("skill") = "skill"
    /\ File("team") = "team"
BY DEF File, ConfigEntries, Databases

LEMMA LoadsBegins ==
    ASSUME TypeOK, NEW a \in Actors, NEW e \in Entries, NEW content,
           NEW where \in {"save", "profiles", "tick"}, Loads(a, e, content, where),
           where = "profiles" => e = "team", where = "tick" => e = "schedule",
           e = "plugin" => a \in Requests
    PROVE  Begins(a)
<1>1. /\ pc[a] = "idle" /\ pc'[a] = where /\ entry'[a] = e
      /\ image'[a] = Copy(e, content)
      /\ disturbed' = IF \E b \in Actors : Busy(b, File(e))
                      THEN disturbed \union {File(e)} ELSE disturbed
  BY DEF Loads, TypeOK
<1>2. Elsewhere(a)
  BY DEF Loads, TypeOK, Elsewhere
<1>3. TaskOK(a)'
  BY <1>1 DEF TaskOK
<1>4. ASSUME e \in ConfigEntries
      PROVE  /\ \A x \in ConfigEntries : x # e => image'[a][x] = disk[x]
             /\ (\E b \in Actors : Busy(b, "config")) => "config" \in disturbed'
  <2>1. File(e) = "config"
    BY <1>4, ConfigFile
  <2>2. ASSUME NEW x \in ConfigEntries, x # e
        PROVE  image'[a][x] = disk[x]
    BY <1>1, <2>1, <2>2, ConfigFile, SomeEntries DEF Copy
  <2> QED
    BY <1>1, <2>1, <2>2
<1> QED
  BY <1>1, <1>2, <1>3, <1>4 DEF Begins

LEMMA EditBegins ==
    ASSUME TypeOK, NEW a \in Actors, NEW e \in Entries, Writes(a, e) \/ Erases(a, e),
           e = "plugin" => a \in Requests
    PROVE  Begins(a)
<1>1. \E content : Loads(a, e, content, "save")
  BY DEF Writes, Erases
<1> QED
  BY <1>1, LoadsBegins

LEMMA LeavesMoves ==
    ASSUME TypeOK, NEW a \in Actors, Leaves(a), UNCHANGED <<disk, memory, made, up>>,
           disturbed \subseteq disturbed', pc[a] = "swap" => "config" \in disturbed'
    PROVE  Moves(a)
<1>1. pc'[a] = "idle"
  BY LeavesTyped DEF TypeOK
<1>2. Elsewhere(a)
  BY LeavesTyped DEF TypeOK, Elsewhere
<1> QED
  BY <1>1, <1>2 DEF Moves, TaskOK, ConfigEditor

LEMMA RunMoves ==
    ASSUME TypeOK, NEW a \in Actors, NEW e \in {"run", "notification"}, Runs(a, e)
    PROVE  Moves(a)
<1>1. pc[a] = "idle" /\ pc'[a] = "running" /\ entry'[a] = e
  BY SomeEntries DEF Runs, TypeOK
<1>2. Elsewhere(a)
  BY DEF Runs, TypeOK, Elsewhere
<1> QED
  BY <1>1, <1>2, FileKinds DEF Moves, TaskOK, ConfigEditor

LEMMA HandlerCases ==
    ASSUME TypeOK, NEW r \in Requests, Handler(r)
    PROVE  Begins(r) \/ Moves(r)
<1> r \in Actors
  BY DEF Actors
<1>1. CASE RunTeam(r)
  BY <1>1, RunMoves DEF RunTeam
<1>2. CASE Tick(r)
  <2>1. \E content : Loads(r, "schedule", content, "tick")
    BY <1>2 DEF Tick
  <2> QED
    BY <2>1, LoadsBegins, SomeEntries
<1>3. CASE ~ (RunTeam(r) \/ Tick(r))
  <2>1. \E e \in Entries : Writes(r, e) \/ Erases(r, e)
    BY <1>3, SomeEntries
       DEF Handler, CreateSchedule, DeleteSchedule, CreateChannel, UpdateChannel,
           DeleteChannel, CreateProject, DeleteProject, PatchConfig, InstallPlugin,
           RemovePlugin, CreateAgent, PatchPersona, UpdateCapabilities, UpdateAgent,
           DuplicateAgent, DeleteAgent, DeleteSkill, SetSecret, DeleteSecret,
           StoreNotification, RateNotification, DrainNotifications, DeleteMemory,
           UpdateProfile, Adds, Alters, Removes
  <2> QED
    BY <2>1, EditBegins
<1> QED
  BY <1>1, <1>2, <1>3

LEMMA TaskCases ==
    ASSUME TypeOK, NEW a \in Actors, TaskOK(a),
           ExtractProfile(a) \/ TakeManager(a) \/ StoreResult(a) \/ Fails(a) \/ CutOff(a)
    PROVE  Moves(a)
<1>1. CASE ExtractProfile(a)
  <2>1. pc[a] = "idle" /\ pc'[a] = "extract" /\ Elsewhere(a)
    BY <1>1 DEF ExtractProfile, TypeOK, Elsewhere
  <2> QED
    BY <2>1 DEF Moves, TaskOK, ConfigEditor
<1>2. CASE TakeManager(a)
  <2>1. pc[a] = "extract" /\ pc'[a] = "extracting" /\ entry'[a] = "user" /\ Elsewhere(a)
    BY <1>2, SomeEntries DEF TakeManager, TypeOK, Elsewhere
  <2> QED
    BY <2>1 DEF Moves, TaskOK, ConfigEditor
<1>3. CASE StoreResult(a)
  <2>1. pc[a] = "running" /\ pc'[a] = "save" /\ entry'[a] = entry[a] /\ Elsewhere(a)
    BY <1>3 DEF StoreResult, TypeOK, Elsewhere
  <2>2. entry[a] \notin ConfigEntries
    BY <2>1, FileKinds DEF TaskOK
  <2> QED
    BY <2>1, <2>2, ConfigFile DEF Moves, TaskOK, ConfigEditor
<1>4. CASE Fails(a)
  BY <1>4, LeavesMoves DEF Fails
<1>5. CASE CutOff(a)
  BY <1>5, LeavesMoves DEF CutOff
<1> QED
  BY <1>1, <1>2, <1>3, <1>4, <1>5

LEMMA CommandCases ==
    ASSUME TypeOK, NEW c \in Commands, Command(c), ~ Whole(c)
    PROVE  Begins(c) \/ Moves(c)
<1> c \in Actors
  BY DEF Actors
<1>1. CASE RunNow(c)
  BY <1>1, RunMoves DEF RunNow
<1>2. CASE Genesis(c)
  <2>1. pc[c] = "idle" /\ pc'[c] = "genesis" /\ Elsewhere(c)
    BY <1>2 DEF Genesis, TypeOK, Elsewhere
  <2> QED
    BY <2>1 DEF Moves, TaskOK, ConfigEditor
<1>3. CASE BeginBackup(c)
  <2>1. pc[c] = "idle" /\ pc'[c] = "backup" /\ Elsewhere(c)
    BY <1>3 DEF BeginBackup, TypeOK, Elsewhere
  <2> QED
    BY <2>1 DEF Moves, TaskOK, ConfigEditor
<1>4. CASE CreateBackup(c)
  BY <1>4, LeavesMoves DEF CreateBackup
<1>5. CASE CreateTeam(c)
  <2>1. PICK where \in {"save", "profiles"} : Loads(c, "team", edits + 1, where)
    BY <1>5 DEF CreateTeam, Adds, Writes
  <2> QED
    BY <2>1, LoadsBegins, SomeEntries
<1>6. CASE ~ (RunNow(c) \/ Genesis(c) \/ BeginBackup(c) \/ CreateBackup(c) \/ CreateTeam(c))
  <2>1. \E e \in Entries \ {"plugin"} : Writes(c, e) \/ Erases(c, e)
    BY <1>6, SomeEntries
       DEF Command, Whole, AddSchedule, RemoveSchedule, EnableSchedule, DisableSchedule,
           AddChannel, RemoveChannel, AddProject, RemoveProject, SetConfig, CreateProfile,
           SetPersona, InstallSkill, RemoveSkill, SecretSet, SecretDelete, MemoryDelete,
           ProfileSet, ProfileClear, TeamRun, SessionDelete, Adds, Alters, Removes, Profiles
  <2> QED
    BY <2>1, EditBegins
<1> QED
  BY <1>1, <1>2, <1>3, <1>4, <1>5, <1>6


LEMMA OthersKeep ==
    ASSUME KeepInv, NEW a \in Actors, Elsewhere(a), TaskOK(a)', TypeOK',
           "config" \notin disturbed' => ConfigAlone'
    PROVE  KeepInv'
<1>1. \A e \in Entries : disk'[e] = made'[e] \/ File(e) \in disturbed'
  BY DEF KeepInv, Elsewhere
<1>2. \A b \in Actors : TaskOK(b)'
  BY DEF KeepInv, Elsewhere, TaskOK, HotReloads
<1> QED
  BY <1>1, <1>2 DEF KeepInv

LEMMA BeginsKeeps ==
    ASSUME KeepInv, NEW a \in Actors, Begins(a), TypeOK'
    PROVE  KeepInv'
<1>1. Elsewhere(a) /\ TaskOK(a)' /\ pc[a] = "idle" /\ pc'[a] \in {"save", "profiles", "tick"}
  BY DEF Begins
<1>2. ASSUME "config" \notin disturbed'
      PROVE  ConfigAlone'
  <2>1. ConfigAlone
    BY <1>1, <1>2 DEF KeepInv, Elsewhere
  <2>2. Swapping' <=> Swapping
    BY <1>1 DEF Swapping, Elsewhere, Actors
  <2>3. ASSUME ConfigEditor(a)', NEW b \in Actors
        PROVE  ~ConfigEditor(b)
    <3>1. ~Busy(b, "config")
      BY <1>2, <2>3 DEF Begins, ConfigEditor
    <3> QED
      BY <3>1, ConfigFile DEF Busy, ConfigEditor
  <2>4. ConfigEditor(a)' => Current(a)'
    BY <1>1 DEF Begins, ConfigEditor, Current, Elsewhere
  <2>5. \A b \in Actors \ {a} :
           /\ ConfigEditor(b)' <=> ConfigEditor(b)
           /\ Current(b)' <=> Current(b)
    BY <1>1 DEF Elsewhere, ConfigEditor, Current
  <2> QED
    BY <1>1, <2>1, <2>2, <2>3, <2>4, <2>5 DEF ConfigAlone, Elsewhere
<1> QED
  BY <1>1, <1>2, OthersKeep

LEMMA MovesKeeps ==
    ASSUME KeepInv, NEW a \in Actors, Moves(a), TypeOK'
    PROVE  KeepInv'
<1>1. Elsewhere(a) /\ TaskOK(a)' /\ ~ConfigEditor(a)'
  BY DEF Moves
<1>2. ASSUME "config" \notin disturbed'
      PROVE  ConfigAlone'
  <2>1. ConfigAlone /\ pc[a] # "swap"
    BY <1>1, <1>2 DEF KeepInv, Elsewhere, Moves
  <2>2. pc'[a] # "swap"
    BY <1>1, ConfigFile DEF ConfigEditor, TaskOK, HotReloads
  <2>3. Swapping' <=> Swapping
    BY <1>1, <2>1, <2>2 DEF Swapping, Elsewhere, Actors
  <2>4. \A b \in Actors \ {a} :
           /\ ConfigEditor(b)' <=> ConfigEditor(b)
           /\ Current(b)' <=> Current(b)
    BY <1>1 DEF Elsewhere, ConfigEditor, Current
  <2> QED
    BY <1>1, <2>1, <2>3, <2>4 DEF ConfigAlone, Elsewhere
<1> QED
  BY <1>1, <1>2, OthersKeep

(* A save changes of its file the one entry that it edits. *)
LEMMA SaveKeeps ==
    ASSUME KeepInv, NEW a \in Actors, Save(a), TypeOK'
    PROVE  KeepInv'
<1> DEFINE e == entry[a]
<1>1. /\ TypeOK /\ e \in Entries /\ TaskOK(a)
      /\ pc[a] \in {"save", "extracting", "tick"}
      /\ UNCHANGED <<memory, up, disturbed>>
  BY DEF KeepInv, TypeOK, Save
<1>2. /\ pc'[a] = IF HotReloads(a) THEN "swap" ELSE "idle"
      /\ HotReloads(a) => pc' = [pc EXCEPT ![a] = "swap"] /\ UNCHANGED <<entry, image>>
      /\ ~HotReloads(a) => Leaves(a)
  BY <1>1, LeavesTyped DEF Save, TypeOK
<1>3. \A b \in Actors \ {a} :
         pc'[b] = pc[b] /\ entry'[b] = entry[b] /\ image'[b] = image[b]
  BY <1>1, <1>2, LeavesTyped DEF TypeOK
<1>4. \A b \in Actors : TaskOK(b)'
  <2>1. TaskOK(a)'
    <3>1. HotReloads(a) => HotReloads(a)'
      BY <1>2 DEF HotReloads
    <3> QED
      BY <1>1, <1>2, <3>1 DEF TaskOK
  <2> QED
    BY <1>3, <2>1 DEF KeepInv, TaskOK, HotReloads
<1>5. /\ disk'[e] = image[a][e] /\ made'[e] = image[a][e]
      /\ \A x \in Entries \ {e} :
            /\ made'[x] = made[x]
            /\ \/ disk'[x] = disk[x]
               \/ /\ File(x) = File(e) /\ File(e) \notin Databases
                  /\ disk'[x] = image[a][x]
  BY <1>1 DEF Save, TypeOK, Content
(* No copy but its own is left behind. *)
<1>6. ASSUME "config" \notin disturbed, NEW x \in ConfigEntries, x # e
      PROVE  disk'[x] = disk[x]
  <2>1. CASE e \in ConfigEntries
    <3>1. ConfigEditor(a)
      BY <1>1, <2>1, ConfigFile DEF ConfigEditor, TaskOK, ConfigEntries
    <3>2. Current(a)
      BY <1>6, <3>1 DEF KeepInv, ConfigAlone
    <3> QED
      BY <1>5, <1>6, <3>2, SomeEntries DEF Current
  <2>2. CASE e \notin ConfigEntries
    <3>1. File(e) # "config"
      BY <1>1, <2>2 DEF File, Entries, Profiles, Records
    <3> QED
      BY <1>5, <1>6, <3>1, ConfigFile, SomeEntries
  <2> QED
    BY <2>1, <2>2
<1>7. ASSUME NEW x \in Entries
      PROVE  disk'[x] = made'[x] \/ File(x) \in disturbed'
  <2>1. CASE x = e
    BY <1>5, <2>1
  <2>2. CASE x # e /\ x \in ConfigEntries
    BY <1>1, <1>5, <1>6, <2>2, ConfigFile DEF KeepInv
  <2>3. CASE x # e /\ x \notin ConfigEntries
    <3>1. File(x) # File(e) \/ File(e) \in Databases
      BY <1>1, <2>3 DEF File, Entries, Profiles, Records, Databases, ConfigEntries
    <3> QED
      BY <1>1, <1>5, <2>3, <3>1 DEF KeepInv
  <2> QED
    BY <2>1, <2>2, <2>3
<1>8. ASSUME "config" \notin disturbed'
      PROVE  ConfigAlone'
  <2>1. ConfigAlone /\ "config" \notin disturbed
    BY <1>1, <1>8 DEF KeepInv
  <2>2. ConfigEditor(a)' => ConfigEditor(a) /\ HotReloads(a)
    <3>1. ConfigEditor(a)' => HotReloads(a)
      BY <1>2 DEF ConfigEditor
    <3>2. HotReloads(a) => pc[a] = "save" /\ e \in ConfigEntries
      BY <1>1, ConfigFile DEF HotReloads, TaskOK
    <3> QED
      BY <3>1, <3>2 DEF ConfigEditor
  <2>3. ASSUME ConfigEditor(a)'
        PROVE  Current(a)'
    <3>1. ConfigEditor(a) /\ Current(a) /\ image' = image /\ entry' = entry
      BY <1>2, <2>1, <2>2, <2>3 DEF ConfigAlone
    <3>2. \A x \in ConfigEntries : image[a][x] = disk'[x]
      BY <1>5, <1>6, <2>1, <3>1 DEF Current
    <3> QED
      BY <3>1, <3>2 DEF Current
  <2>4. ASSUME NEW b \in Actors \ {a}, ConfigEditor(b)'
        PROVE  ConfigEditor(b) /\ Current(b)'
    <3>1. ConfigEditor(b) /\ Current(b) /\ ~ConfigEditor(a)
      BY <1>3, <2>1, <2>4 DEF ConfigAlone, ConfigEditor
    <3>2. e \notin ConfigEntries
      BY <1>1, <3>1 DEF ConfigEditor, TaskOK, ConfigEntries
    <3>3. \A x \in ConfigEntries : disk'[x] = disk[x]
      BY <1>6, <2>1, <3>2
    <3> QED
      BY <1>3, <2>4, <3>1, <3>3 DEF Current
  <2>5. ASSUME up', ~Swapping'
        PROVE  memory'["plugin"] = disk'["plugin"]
    <3>1. a \in Requests => pc'[a] # "swap"
      BY <2>5 DEF Swapping
    <3>2. ~HotReloads(a)
      BY <1>2, <3>1 DEF HotReloads
    <3>3. e # "plugin"
      BY <1>1, <3>2 DEF HotReloads, TaskOK
    <3>4. ~Swapping
      BY <1>1, <1>3, <2>5 DEF Swapping, Actors
    <3> QED
      BY <1>1, <1>6, <2>1, <2>5, <3>3, <3>4, ConfigFile DEF ConfigAlone
  <2> QED
    BY <2>1, <2>2, <2>3, <2>4, <2>5 DEF ConfigAlone
<1> QED
  BY <1>4, <1>7, <1>8 DEF KeepInv

LEMMA SwapKeeps ==
    ASSUME KeepInv, NEW a \in Actors, Swap(a), TypeOK'
    PROVE  KeepInv'
<1>1. /\ pc[a] = "swap" /\ memory' = Configuration(image[a])
      /\ UNCHANGED <<disk, up, made, disturbed>>
      /\ pc'[a] = "idle"
      /\ \A b \in Actors \ {a} :
            pc'[b] = pc[b] /\ entry'[b] = entry[b] /\ image'[b] = image[b]
  BY LeavesTyped DEF Swap, KeepInv, TypeOK
<1>2. \A b \in Actors : TaskOK(b)'
  BY <1>1 DEF KeepInv, TaskOK, HotReloads
<1>3. ASSUME "config" \notin disturbed'
      PROVE  ConfigAlone'
  <2>1. ConfigAlone /\ TaskOK(a)
    BY <1>1, <1>3 DEF KeepInv
  <2>2. memory'["plugin"] = disk["plugin"]
    <3>1. ConfigEditor(a)
      BY <1>1, <2>1, ConfigFile DEF ConfigEditor, TaskOK, HotReloads
    <3>2. image[a]["plugin"] = disk["plugin"]
      BY <1>1, <2>1, <3>1, ConfigFile DEF ConfigAlone, Current
    <3> QED
      BY <1>1, <3>2, ConfigFile, SomeEntries DEF Configuration
  <2>3. ~ConfigEditor(a)'
    BY <1>1 DEF ConfigEditor
  <2>4. \A b \in Actors \ {a} :
           /\ ConfigEditor(b)' <=> ConfigEditor(b)
           /\ Current(b)' <=> Current(b)
    BY <1>1 DEF ConfigEditor, Current
  <2> QED
    BY <1>1, <2>1, <2>2, <2>3, <2>4 DEF ConfigAlone
<1> QED
  BY <1>1, <1>2, <1>3 DEF KeepInv

(* Whoever else has a file of the directory open is disturbed by what      *)
(* changes all of it.                                                      *)
LEMMA WholeKeeps ==
    ASSUME KeepInv, NEW c \in Commands, Whole(c), TypeOK'
    PROVE  KeepInv'
<1> c \in Actors
  BY DEF Actors
<1>1. /\ UNCHANGED <<memory, up>> /\ disturbed \subseteq disturbed'
      /\ TypeOK
  BY DEF Whole, WriteProfiles, CopyCut, Commit, BeginRestore, Restore, RestoreCut,
         KeepInv, TypeOK
<1>2. \A b \in Actors \ {c} :
         pc'[b] = pc[b] /\ entry'[b] = entry[b] /\ image'[b] = image[b]
  BY <1>1, LeavesTyped
  DEF Whole, WriteProfiles, CopyCut, Commit, BeginRestore, Restore, RestoreCut, TypeOK
<1>3. TaskOK(c)' /\ ~ConfigEditor(c)' /\ pc[c] # "swap" /\ pc'[c] # "swap"
  <2>1. CASE WriteProfiles(c)
    <3>1. pc[c] = "profiles" /\ pc'[c] = "save" /\ entry'[c] = "team"
      BY <1>1, <2>1 DEF WriteProfiles, KeepInv, TaskOK, TypeOK
    <3> QED
      BY <3>1 DEF TaskOK, ConfigEditor, ConfigEntries
  <2>2. CASE BeginRestore(c)
    <3>1. pc[c] = "idle" /\ pc'[c] = "restore"
      BY <1>1, <2>2 DEF BeginRestore, TypeOK
    <3> QED
      BY <3>1 DEF TaskOK, ConfigEditor
  <2>3. CASE CopyCut(c) \/ Restore(c) \/ RestoreCut(c)
    <3>1. pc[c] \in {"save", "restore"} /\ pc'[c] = "idle"
      BY <1>1, <2>3, LeavesTyped DEF CopyCut, Restore, RestoreCut, TypeOK
    <3> QED
      BY <3>1 DEF TaskOK, ConfigEditor
  <2>4. CASE Commit(c)
    <3>1. pc[c] = "genesis" /\ pc'[c] \in {"genesis", "idle"}
      BY <1>1, <2>4, LeavesTyped DEF Commit, TypeOK
    <3> QED
      BY <3>1 DEF TaskOK, ConfigEditor
  <2> QED
    BY <2>1, <2>2, <2>3, <2>4 DEF Whole
<1>4. \A b \in Actors : TaskOK(b)'
  BY <1>2, <1>3 DEF KeepInv, TaskOK, HotReloads
<1>5. ASSUME NEW x \in Entries
      PROVE  disk'[x] = made'[x] \/ File(x) \in disturbed'
  <2>1. disk[x] = made[x] \/ File(x) \in disturbed
    BY DEF KeepInv
  <2>2. CASE WriteProfiles(c)
    BY <1>1, <2>1, <2>2, FileKinds DEF WriteProfiles, TypeOK, Content
  <2>3. CASE CopyCut(c)
    BY <1>1, <2>1, <2>3, FileKinds DEF CopyCut, TypeOK, Content
  <2>4. CASE Commit(c)
    BY <1>1, <2>1, <2>4 DEF Commit
  <2>5. CASE BeginRestore(c) \/ Restore(c)
    BY <2>5 DEF BeginRestore, Restore
  <2>6. CASE RestoreCut(c)
    BY <2>6, FileTyped DEF RestoreCut
  <2> QED
    BY <2>2, <2>3, <2>4, <2>5, <2>6 DEF Whole
<1>6. ASSUME "config" \notin disturbed'
      PROVE  ConfigAlone'
  <2>1. ConfigAlone
    BY <1>1, <1>6 DEF KeepInv
  <2>2. Swapping' <=> Swapping
    BY <1>2, <1>3 DEF Swapping, Actors
  <2>3. \A b \in Actors \ {c} : ConfigEditor(b)' <=> ConfigEditor(b)
    BY <1>2 DEF ConfigEditor
  <2>4. CASE WriteProfiles(c) \/ CopyCut(c)
    <3>1. \A x \in ConfigEntries : disk'[x] = disk[x]
      BY <1>1, <2>4, ConfigFile, SomeEntries DEF WriteProfiles, CopyCut, TypeOK, Content
    <3>2. \A b \in Actors \ {c} : Current(b)' <=> Current(b)
      BY <1>2, <3>1 DEF Current
    <3> QED
      BY <1>1, <1>3, <2>1, <2>2, <2>3, <3>1, <3>2, ConfigFile DEF ConfigAlone
  <2>5. CASE Commit(c) \/ BeginRestore(c) \/ Restore(c) \/ RestoreCut(c)
    <3>1. Underway(c) \subseteq disturbed' \/ disturbed' = Files
      BY <2>5 DEF Commit, BeginRestore, Restore, RestoreCut
    <3>2. "config" \in Files
      BY ConfigFile, SomeEntries, FileTyped
    <3>3. ~up /\ \A b \in Actors \ {c} : ~Busy(b, "config")
      BY <1>6, <3>1, <3>2 DEF Underway
    <3>4. \A b \in Actors \ {c} : ~ConfigEditor(b)
      BY <3>3, ConfigFile DEF ConfigEditor, Busy
    <3> QED
      BY <1>1, <1>3, <2>3, <3>3, <3>4 DEF ConfigAlone
  <2> QED
    BY <2>4, <2>5 DEF Whole
<1> QED
  BY <1>4, <1>5, <1>6 DEF KeepInv

LEMMA ServerKeeps ==
    ASSUME KeepInv, Start \/ Stop, TypeOK'
    PROVE  KeepInv'
<1>1. CASE Start
  <2>1. /\ memory' = Configuration(disk) /\ UNCHANGED <<disk, pc, entry, image, made, disturbed>>
    BY <1>1 DEF Start
  <2>2. memory'["plugin"] = disk["plugin"]
    BY <2>1, ConfigFile, SomeEntries DEF Configuration
  <2> QED
    BY <2>1, <2>2
    DEF KeepInv, TaskOK, HotReloads, ConfigAlone, ConfigEditor, Current, Swapping
<1>2. CASE Stop
  <2>1. /\ ~up' /\ UNCHANGED <<disk, made, disturbed>>
        /\ \A a \in Actors : pc'[a] # "idle" =>
              pc'[a] = pc[a] /\ entry'[a] = entry[a] /\ image'[a] = image[a]
    BY <1>2 DEF Stop
  <2>2. \A a \in Actors : TaskOK(a)'
    BY <2>1 DEF KeepInv, TaskOK, HotReloads
  <2>3. \A a \in Actors : ConfigEditor(a)' => ConfigEditor(a) /\ (Current(a) => Current(a)')
    BY <2>1 DEF ConfigEditor, Current
  <2> QED
    BY <2>1, <2>2, <2>3 DEF KeepInv, ConfigAlone
<1> QED
  BY <1>1, <1>2

LEMMA KeepInit == Init => KeepInv
<1> SUFFICES ASSUME Init PROVE KeepInv
  OBVIOUS
<1>1. /\ made = disk /\ ~up /\ \A a \in Actors : pc[a] = "idle"
  BY DEF Init
<1> QED
  BY <1>1, TypeInit DEF KeepInv, TaskOK, ConfigAlone, ConfigEditor

LEMMA KeepNext == KeepInv /\ [Next]_vars => KeepInv'
<1> SUFFICES ASSUME KeepInv, [Next]_vars PROVE KeepInv'
  OBVIOUS
<1>1. TypeOK /\ TypeOK'
  <2>1. CASE UNCHANGED vars
    BY <2>1 DEF KeepInv, TypeOK
  <2> QED
    BY <2>1, NextCases, ApartTyped, SaveTyped, SwapTyped, WholeTyped, ServerTyped
    DEF KeepInv
<1>2. ASSUME NEW r \in Requests, Handler(r) \/ Swap(r) \/ CutOff(r)
      PROVE  KeepInv'
  <2>1. r \in Actors /\ TaskOK(r)
    BY DEF Actors, KeepInv
  <2> QED
    BY <1>1, <1>2, <2>1, HandlerCases, TaskCases, BeginsKeeps, MovesKeeps, SwapKeeps
<1>3. ASSUME NEW c \in Commands, Command(c)
      PROVE  KeepInv'
  <2>1. c \in Actors
    BY DEF Actors
  <2> QED
    BY <1>1, <1>3, <2>1, CommandCases, BeginsKeeps, MovesKeeps, WholeKeeps
<1>4. ASSUME NEW a \in Actors,
             ExtractProfile(a) \/ TakeManager(a) \/ StoreResult(a) \/ Save(a) \/ Fails(a)
      PROVE  KeepInv'
  BY <1>1, <1>4, TaskCases, MovesKeeps, SaveKeeps DEF KeepInv
<1>5. CASE Start \/ Stop
  BY <1>1, <1>5, ServerKeeps
<1>6. CASE UNCHANGED vars
  BY <1>1, <1>6
  DEF KeepInv, TaskOK, HotReloads, ConfigAlone, ConfigEditor, Current, Swapping
<1> QED
  BY <1>2, <1>3, <1>4, <1>5, <1>6 DEF Next

(* What the server and the commands show of an entry is what its last edit *)
(* made it, as long as no two edits of its file overlapped: no handler and *)
(* no command writes back an older state of what it does not edit, and the *)
(* copy the server lists plugins from is replaced whenever one is edited.  *)
THEOREM EditsAreKept == Spec => []KeptWhenAlone
<1>1. KeepInv => KeptWhenAlone
  <2> SUFFICES ASSUME KeepInv PROVE KeptWhenAlone
    OBVIOUS
  <2>1. \A e \in Entries : disk[e] = made[e] \/ File(e) \in disturbed
    BY DEF KeepInv
  <2>2. ASSUME NEW e \in Entries
        PROVE  Shown[e] = IF e = "plugin" THEN memory["plugin"] ELSE disk[e]
    BY DEF Shown, Entries, ConfigEntries, Records, Profiles, ListSchedules, ListChannels,
           ListProjects, GetConfig, GetAgent, ListTeams, ListSkills, ListSecrets,
           ListNotifications, SearchMemory, GetProfile, ListTeamSessions, ListPlugins
  <2>3. ASSUME NEW e \in Entries \ {"plugin"}
        PROVE  Printed[e] = disk[e] \/ (up /\ File(e) = "memory")
    BY DEF Printed, Entries, ConfigEntries, Records, Profiles, PrintSchedules, PrintChannels,
           PrintProjects, PrintConfig, PrintAgent, PrintTeam, PrintSkill, PrintSecret,
           PrintNotifications, PrintSessions, PrintMemories, PrintProfile, File
  <2>4. ASSUME up, "config" \notin disturbed, ~Swapping
        PROVE  memory["plugin"] = made["plugin"]
    BY <2>1, <2>4, ConfigFile, SomeEntries DEF KeepInv, ConfigAlone
  <2>5. DOMAIN Printed = Entries \ {"plugin"}
    BY DEF Printed
  <2>6. ASSUME up, NEW e \in Entries
        PROVE  \/ Shown[e] = made[e]
               \/ File(e) \in disturbed
               \/ (e = "plugin" /\ Swapping)
    BY <2>1, <2>2, <2>4, <2>6, ConfigFile
  <2>7. ASSUME NEW e \in DOMAIN Printed
        PROVE  \/ Printed[e] = made[e]
               \/ File(e) \in disturbed
               \/ (up /\ File(e) = "memory")
    BY <2>1, <2>3, <2>5
  <2> QED
    BY <2>6, <2>7 DEF KeptWhenAlone, Swapping
<1> QED
  BY <1>1, KeepInit, KeepNext, PTL DEF Spec
=============================================================================
