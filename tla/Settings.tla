------------------------------ MODULE Settings ------------------------------
(***************************************************************************)
(* The data directory of Aivyx and everybody who edits it: requests to the *)
(* server (aivyx-server, routes/), the server's own scheduler, and         *)
(* commands of the command line (aivyx-engine-cli, cmd/), which are        *)
(* processes of their own.                                                 *)
(*                                                                         *)
(* Schedules, channels, projects, plugins and settings are entries of one  *)
(* file, config.toml, and every edit of one of them loads the whole file,  *)
(* checks and changes its copy and writes the whole file back.  A profile  *)
(* of an agent, a team and a skill are files of their own.  No lock is     *)
(* held between a load and the save.  Secrets, notifications and memories  *)
(* are records of databases, each of which one process opens at a time.    *)
(* The server works with a copy of the configuration in memory, which only *)
(* some handlers replace after their save.                                 *)
(*                                                                         *)
(* There is one entry of each kind, and two profiles.  The content of an   *)
(* entry is the number of the edit that wrote it, 0 when there is none.    *)
(***************************************************************************)
EXTENDS Integers

CONSTANTS
    Requests, \* what the server works on at a time: handlers and the tick
    Commands, \* commands that run at a time
    MaxEdits  \* bound on the edits and ticks

ConfigEntries == {"schedule", "channel", "project", "plugin", "setting"}
Profiles == {"aivyx", "coordinator"}
Records == {"secret", "notification", "memory", "user", "run"}
Entries == ConfigEntries \union Profiles \union {"team", "skill"} \union Records

Actors == Requests \union Commands

(* The file an entry is in; user profile and memories share memory.db. *)
File(e) ==
    CASE e \in ConfigEntries -> "config"
      [] e \in {"memory", "user"} -> "memory"
      [] OTHER -> e

Databases == {"secret", "notification", "memory", "run"}

ASSUME ActorsAssumption == Requests \intersect Commands = {}
ASSUME BoundAssumption == MaxEdits \in Nat \ {0}

Content == [Entries -> 0 .. MaxEdits]
Nothing == [e \in Entries |-> 0]

VARIABLES
    disk,      \* what the data directory holds
    memory,    \* the server's copy of it: its configuration is used
    up,        \* whether the server runs
    pc,        \* where each request or command is
    entry,     \* the entry it edits
    image,     \* its copy of the entry's file
    edits,     \* number of the last edit
    made,      \* what the last edit of each entry meant it to be
    disturbed, \* files two edits of which overlapped, or one was cut short
    written,   \* every configuration that was ever written
    archive    \* a backup, until it is restored

vars == <<disk, memory, up, pc, entry, image, edits, made, disturbed, written, archive>>

Files == {File(e) : e \in Entries}
Steps == {"idle", "running", "save", "swap", "profiles", "extract", "extracting", "tick",
          "genesis", "backup", "restore"}

TypeOK ==
    /\ disk \in Content
    /\ memory \in Content
    /\ up \in BOOLEAN
    /\ pc \in [Actors -> Steps]
    /\ entry \in [Actors -> Entries]
    /\ image \in [Actors -> Content]
    /\ edits \in 0 .. MaxEdits
    /\ made \in Content
    /\ disturbed \subseteq Files
    /\ written \subseteq Content
    /\ archive \in Content

Configuration(c) == [e \in Entries |-> IF e \in ConfigEntries THEN c[e] ELSE 0]

(* No directory yet, what genesis leaves, or something of each. *)
Init ==
    /\ \E present \in {{}, {"setting", "aivyx"}, Entries} :
          disk = [e \in Entries |-> IF e \in present THEN 1 ELSE 0]
    /\ memory = Nothing
    /\ up = FALSE
    /\ pc = [a \in Actors |-> "idle"]
    /\ entry = [a \in Actors |-> "setting"]
    /\ image = [a \in Actors |-> Nothing]
    /\ edits = 1
    /\ made = disk
    /\ disturbed = {}
    /\ written = {Configuration(disk)}
    /\ archive = Nothing

-----------------------------------------------------------------------------
(* An edit *)

Busy(a, file) ==
    \/ pc[a] \notin {"idle", "running"} /\ File(entry[a]) = file
    \/ pc[a] \in {"genesis", "restore"}
    \/ pc[a] \in {"extract", "extracting"} /\ file = "secret"

(* What every command but genesis and restore asks for first. *)
IsInitialized == disk["setting"] # 0

(* The server keeps memory.db open. *)
CanOpen(a, file) ==
    /\ \A b \in Actors : ~Busy(b, file)
    /\ file = "memory" /\ a \in Commands => ~up

(* The copy of its file: of a database, the record alone. *)
Copy(e, content) ==
    [x \in Entries |->
        IF x = e THEN content
        ELSE IF File(x) = File(e) /\ File(e) \notin Databases THEN disk[x] ELSE 0]

Loads(a, e, content, where) ==
    /\ pc[a] = "idle"
    /\ a \in Requests => up
    /\ IsInitialized
    /\ File(e) \in Databases => CanOpen(a, File(e))
    /\ pc' = [pc EXCEPT ![a] = where]
    /\ entry' = [entry EXCEPT ![a] = e]
    /\ image' = [image EXCEPT ![a] = Copy(e, content)]
    /\ disturbed' = IF \E b \in Actors : Busy(b, File(e))
                    THEN disturbed \union {File(e)} ELSE disturbed
    /\ UNCHANGED <<disk, memory, up, made, written, archive>>

Numbered == edits < MaxEdits /\ edits' = edits + 1

Writes(a, e) == Numbered /\ Loads(a, e, edits + 1, "save")
Erases(a, e) == Numbered /\ Loads(a, e, 0, "save")

Adds(a, e) == disk[e] = 0 /\ Writes(a, e)
Alters(a, e) == disk[e] # 0 /\ Writes(a, e)
Removes(a, e) == disk[e] # 0 /\ Erases(a, e)

Leaves(a) ==
    /\ pc' = [pc EXCEPT ![a] = "idle"]
    /\ entry' = [entry EXCEPT ![a] = "setting"]
    /\ image' = [image EXCEPT ![a] = Nothing]

(* Handlers that also replace the copy in memory. *)
HotReloads(a) == a \in Requests /\ entry[a] \in {"plugin", "setting"}

(* The whole file is written; a database takes only the record. *)
Save(a) ==
    LET file == File(entry[a])
        taken(e) == IF file \in Databases THEN e = entry[a] ELSE File(e) = file
    IN  /\ pc[a] \in {"save", "extracting", "tick"}
        /\ disk' = [e \in Entries |-> IF taken(e) THEN image[a][e] ELSE disk[e]]
        /\ made' = [made EXCEPT ![entry[a]] = image[a][entry[a]]]
        /\ written' = written \union {Configuration(disk')}
        /\ IF HotReloads(a)
           THEN pc' = [pc EXCEPT ![a] = "swap"] /\ UNCHANGED <<entry, image>>
           ELSE Leaves(a)
        /\ UNCHANGED <<memory, up, edits, disturbed, archive>>

FailsButReloads(a) ==
    /\ pc[a] \in {"save", "profiles", "extract", "extracting"}
    /\ memory' = IF HotReloads(a) THEN Configuration(image[a]) ELSE memory
    /\ Leaves(a)
    /\ UNCHANGED <<disk, up, edits, made, disturbed, written, archive>>

(* What comes between refuses or fails; a command can also be killed. *)
Fails(a) ==
    /\ pc[a] \in {"running", "save", "profiles", "extract", "extracting", "tick",
                  "genesis", "backup"}
    /\ Leaves(a)
    /\ UNCHANGED <<disk, memory, up, edits, made, disturbed, written, archive>>

Swap(a) ==
    /\ pc[a] = "swap"
    /\ memory' = Configuration(image[a])
    /\ Leaves(a)
    /\ UNCHANGED <<disk, up, edits, made, disturbed, written, archive>>

(* The client goes away while the handler waits for the lock on the copy. *)
CutOff(a) ==
    /\ pc[a] = "swap"
    /\ Leaves(a)
    /\ disturbed' = disturbed \union {"config"}
    /\ UNCHANGED <<disk, memory, up, edits, made, written, archive>>

(* A run of agents, after which the database for its result is opened. *)
Runs(a, e) ==
    /\ pc[a] = "idle"
    /\ a \in Requests => up
    /\ IsInitialized
    /\ pc' = [pc EXCEPT ![a] = "running"]
    /\ entry' = [entry EXCEPT ![a] = e]
    /\ UNCHANGED <<disk, memory, up, image, edits, made, disturbed, written, archive>>

StoreResult(a) ==
    /\ pc[a] = "running"
    /\ Numbered
    /\ CanOpen(a, File(entry[a]))
    /\ pc' = [pc EXCEPT ![a] = "save"]
    /\ image' = [image EXCEPT ![a] = Copy(entry[a], edits + 1)]
    /\ UNCHANGED <<disk, memory, up, entry, made, disturbed, written, archive>>

-----------------------------------------------------------------------------
(* The handlers of the server *)

CreateSchedule(r) == Adds(r, "schedule")
DeleteSchedule(r) == Removes(r, "schedule")
CreateChannel(r) == Adds(r, "channel")
UpdateChannel(r) == Alters(r, "channel")
DeleteChannel(r) == Removes(r, "channel")
CreateProject(r) == Adds(r, "project")
DeleteProject(r) == Removes(r, "project")
PatchConfig(r) == Alters(r, "setting")

InstallIntoMemory(r) ==
    /\ memory["plugin"] = 0
    /\ pc[r] = "idle" /\ up
    /\ Numbered
    /\ pc' = [pc EXCEPT ![r] = "save"]
    /\ entry' = [entry EXCEPT ![r] = "plugin"]
    /\ image' = [image EXCEPT ![r] = [memory EXCEPT !["plugin"] = edits + 1]]
    /\ disturbed' = IF \E a \in Actors : Busy(a, "config")
                    THEN disturbed \union {"config"} ELSE disturbed
    /\ UNCHANGED <<disk, memory, up, made, written, archive>>

(* Whether there is one already is looked up in memory, and the plugin is  *)
(* added to what the file holds.                                           *)
InstallPlugin(r) == memory["plugin"] = 0 /\ Writes(r, "plugin")
RemovePlugin(r) == Removes(r, "plugin")

CreateAgent(r) == \E p \in Profiles : Adds(r, p)
PatchPersona(r) == \E p \in Profiles : Alters(r, p)
UpdateCapabilities(r) == \E p \in Profiles : Alters(r, p)
UpdateAgent(r) == \E p \in Profiles : Alters(r, p)
DuplicateAgent(r) == \E p, q \in Profiles : disk[p] # 0 /\ Adds(r, q)
DeleteAgent(r) == \E p \in Profiles \ {"aivyx"} : Removes(r, p)
DeleteSkill(r) == Removes(r, "skill")

SetSecret(r) == Writes(r, "secret")
DeleteSecret(r) == Erases(r, "secret")
StoreNotification(r) == Writes(r, "notification")
RateNotification(r) == Alters(r, "notification")
DrainNotifications(r) == Erases(r, "notification")
DeleteMemory(r) == Erases(r, "memory")
RunTeam(r) == disk["team"] # 0 /\ Runs(r, "run")
UpdateProfile(r) == Writes(r, "user")

(* The secret store is opened for the provider's key, and stays open while *)
(* the handler waits for the manager of the memories and then for the      *)
(* model.                                                                  *)
ExtractProfile(a) ==
    /\ pc[a] = "idle"
    /\ a \in Requests => up
    /\ IsInitialized
    /\ CanOpen(a, "secret")
    /\ pc' = [pc EXCEPT ![a] = "extract"]
    /\ entry' = [entry EXCEPT ![a] = "secret"]
    /\ UNCHANGED <<disk, memory, up, image, edits, made, disturbed, written, archive>>

TakeManager(a) ==
    /\ pc[a] = "extract"
    /\ Numbered
    /\ CanOpen(a, "memory")
    /\ pc' = [pc EXCEPT ![a] = "extracting"]
    /\ entry' = [entry EXCEPT ![a] = "user"]
    /\ image' = [image EXCEPT ![a] = Copy("user", edits + 1)]
    /\ UNCHANGED <<disk, memory, up, made, disturbed, written, archive>>

(* A tick of the scheduler loads the configuration, runs what is due, and  *)
(* saves its copy whether it has set the time of a run in it or not.  It   *)
(* ends before the next one begins.  The notifications of what it runs are *)
(* stored as StoreNotification stores one.  Each tick takes a number,      *)
(* which bounds them.                                                      *)
Tick(r) ==
    /\ \A q \in Requests : pc[q] # "tick"
    /\ Numbered
    /\ \/ Loads(r, "schedule", disk["schedule"], "tick")
       \/ disk["schedule"] # 0 /\ Loads(r, "schedule", edits + 1, "tick")

-----------------------------------------------------------------------------
(* The commands *)

AddSchedule(c) == Adds(c, "schedule")
RemoveSchedule(c) == Removes(c, "schedule")
EnableSchedule(c) == Alters(c, "schedule")
DisableSchedule(c) == Alters(c, "schedule")
AddChannel(c) == Adds(c, "channel")
RemoveChannel(c) == Removes(c, "channel")
AddProject(c) == Adds(c, "project")
RemoveProject(c) == Removes(c, "project")
SetConfig(c) == Alters(c, "setting")

CreateProfile(c) == \E p \in Profiles : Adds(c, p)
SetPersona(c) == \E p \in Profiles : Alters(c, p)

(* A team of the nine roles: their profiles are written first, each unless *)
(* there is one.                                                           *)
CreateTeam(c) ==
    \/ Adds(c, "team")
    \/ /\ disk["team"] = 0
       /\ Numbered
       /\ Loads(c, "team", edits + 1, "profiles")

WriteProfiles(c) ==
    LET content == IF disk["coordinator"] = 0 THEN image[c]["team"] ELSE disk["coordinator"]
    IN  /\ pc[c] = "profiles"
        /\ disk' = [disk EXCEPT !["coordinator"] = content]
        /\ made' = IF disk["coordinator"] = 0
                   THEN [made EXCEPT !["coordinator"] = content] ELSE made
        /\ disturbed' = IF \E a \in Actors : Busy(a, "coordinator")
                        THEN disturbed \union {"coordinator"} ELSE disturbed
        /\ pc' = [pc EXCEPT ![c] = "save"]
        /\ UNCHANGED <<memory, up, entry, image, edits, written, archive>>

InstallSkill(c) == Adds(c, "skill")
RemoveSkill(c) == Removes(c, "skill")

(* A command that is killed while it copies leaves the directory, and the  *)
(* skill counts as installed.                                              *)
CopyCut(c) ==
    /\ pc[c] = "save" /\ entry[c] = "skill" /\ image[c]["skill"] # 0
    /\ disk' = [disk EXCEPT !["skill"] = image[c]["skill"]]
    /\ disturbed' = disturbed \union {"skill"}
    /\ Leaves(c)
    /\ UNCHANGED <<memory, up, edits, made, written, archive>>

(* The store is open while the command waits for its user's value. *)
SecretSet(c) == Writes(c, "secret")
SecretDelete(c) == Erases(c, "secret")
MemoryDelete(c) == Erases(c, "memory")
ProfileSet(c) == Writes(c, "user")
ProfileClear(c) == Erases(c, "user")
RunNow(c) == disk["schedule"] # 0 /\ Runs(c, "notification")

(* The command holds the sessions of teams open as long as the team runs. *)
TeamRun(c) == disk["team"] # 0 /\ Writes(c, "run")
SessionDelete(c) == Erases(c, "run")

-----------------------------------------------------------------------------
(* The whole directory *)

(* The files of which another process holds a copy, or that the server has *)
(* open.                                                                   *)
Underway(c) ==
    IF up THEN Files ELSE {f \in Files : \E b \in Actors \ {c} : Busy(b, f)}

(* What genesis writes: a key for the provider unless it is a local one,   *)
(* the configuration and the first profile; projects, if it asks for them. *)
Asked(cloud) == {"setting", "aivyx"} \union (IF cloud THEN {"secret"} ELSE {})
Chosen(cloud, project) == Asked(cloud) \union (IF project THEN {"project"} ELSE {})

Genesis(c) ==
    /\ pc[c] = "idle" /\ ~ IsInitialized
    /\ Numbered
    /\ \E answers \in {Asked(TRUE), Chosen(FALSE, TRUE)} :
          image' = [image EXCEPT ![c] =
                       [e \in Entries |-> IF e \in answers THEN edits + 1 ELSE 0]]
    /\ pc' = [pc EXCEPT ![c] = "genesis"]
    /\ entry' = [entry EXCEPT ![c] = "secret"]
    /\ disturbed' = disturbed \union Underway(c)
    /\ UNCHANGED <<disk, memory, up, made, written, archive>>

(* One after the other: the key, the configuration, the profile. *)
Commit(c) ==
    LET file == File(entry[c])
        content(d) == [e \in Entries |-> IF File(e) = file /\ (file = "secret" => image[c][e] # 0)
                                         THEN image[c][e] ELSE d[e]]
    IN  /\ pc[c] = "genesis"
        /\ file = "secret" => \A b \in Actors \ {c} : ~ (pc[b] # "idle" /\ File(entry[b]) = "secret")
        /\ disk' = content(disk)
        /\ made' = content(made)
        /\ written' = written \union {Configuration(disk')}
        /\ disturbed' = disturbed \union Underway(c)
        /\ IF file = "aivyx" THEN Leaves(c)
           ELSE /\ entry' = [entry EXCEPT ![c] = IF file = "secret" THEN "setting" ELSE "aivyx"]
                /\ UNCHANGED <<pc, image>>
        /\ UNCHANGED <<memory, up, edits, archive>>

(* A backup copies one file after the other: each as it was when the copy  *)
(* began or as it is when it ends.  One backup is kept at a time: a bound. *)
BeginBackup(c) ==
    /\ pc[c] = "idle" /\ IsInitialized /\ archive = Nothing
    /\ pc' = [pc EXCEPT ![c] = "backup"]
    /\ image' = [image EXCEPT ![c] = disk]
    /\ UNCHANGED <<disk, memory, up, entry, edits, made, disturbed, written, archive>>

CreateBackup(c) ==
    /\ pc[c] = "backup"
    /\ \E late \in {{}, {"config"}} :
          archive' = [e \in Entries |-> IF File(e) \in late THEN disk[e] ELSE image[c][e]]
    /\ Leaves(c)
    /\ UNCHANGED <<disk, memory, up, edits, made, disturbed, written>>

(* A restore removes the directory, whoever works with it, and puts what   *)
(* it has unpacked in its place.                                           *)
BeginRestore(c) ==
    /\ pc[c] = "idle" /\ archive["setting"] # 0
    /\ pc' = [pc EXCEPT ![c] = "restore"]
    /\ image' = [image EXCEPT ![c] = archive]
    /\ disk' = Nothing
    /\ made' = Nothing
    /\ archive' = Nothing
    /\ disturbed' = disturbed \union Underway(c)
    /\ UNCHANGED <<memory, up, entry, edits, written>>

Restore(c) ==
    /\ pc[c] = "restore"
    /\ disk' = image[c]
    /\ made' = image[c]
    /\ written' = written \union {Configuration(disk')}
    /\ disturbed' = disturbed \union Underway(c)
    /\ Leaves(c)
    /\ UNCHANGED <<memory, up, edits, archive>>

(* A restore that is killed leaves nothing, or some of the files. *)
RestoreCut(c) ==
    /\ pc[c] = "restore"
    /\ \E kept \in {{}, {"config"}} :
          disk' = [e \in Entries |-> IF File(e) \in kept THEN image[c][e] ELSE 0]
    /\ written' = written \union {Configuration(disk')}
    /\ disturbed' = Files
    /\ Leaves(c)
    /\ UNCHANGED <<memory, up, edits, made, archive>>

-----------------------------------------------------------------------------
(* The server's own start opens the databases of memories and of secrets. *)
Start ==
    /\ ~up /\ IsInitialized
    /\ \A a \in Actors : ~Busy(a, "memory") /\ ~Busy(a, "secret")
    /\ up' = TRUE
    /\ memory' = Configuration(disk)
    /\ UNCHANGED <<disk, pc, entry, image, edits, made, disturbed, written, archive>>

Stop ==
    /\ up
    /\ up' = FALSE
    /\ memory' = Nothing
    /\ pc' = [a \in Actors |-> IF a \in Requests THEN "idle" ELSE pc[a]]
    /\ entry' = [a \in Actors |-> IF a \in Requests THEN "setting" ELSE entry[a]]
    /\ image' = [a \in Actors |-> IF a \in Requests THEN Nothing ELSE image[a]]
    /\ UNCHANGED <<disk, edits, made, disturbed, written, archive>>

Handler(r) ==
    \/ CreateSchedule(r) \/ DeleteSchedule(r)
    \/ CreateChannel(r) \/ UpdateChannel(r) \/ DeleteChannel(r)
    \/ CreateProject(r) \/ DeleteProject(r)
    \/ PatchConfig(r) \/ InstallPlugin(r) \/ RemovePlugin(r)
    \/ CreateAgent(r) \/ PatchPersona(r) \/ UpdateCapabilities(r) \/ UpdateAgent(r)
    \/ DuplicateAgent(r) \/ DeleteAgent(r) \/ DeleteSkill(r)
    \/ SetSecret(r) \/ DeleteSecret(r)
    \/ StoreNotification(r) \/ RateNotification(r) \/ DrainNotifications(r)
    \/ DeleteMemory(r) \/ UpdateProfile(r) \/ RunTeam(r)
    \/ Tick(r)

Command(c) ==
    \/ AddSchedule(c) \/ RemoveSchedule(c) \/ EnableSchedule(c) \/ DisableSchedule(c)
    \/ AddChannel(c) \/ RemoveChannel(c) \/ AddProject(c) \/ RemoveProject(c)
    \/ SetConfig(c) \/ CreateProfile(c) \/ SetPersona(c)
    \/ CreateTeam(c) \/ WriteProfiles(c)
    \/ InstallSkill(c) \/ RemoveSkill(c) \/ CopyCut(c)
    \/ SecretSet(c) \/ SecretDelete(c) \/ MemoryDelete(c)
    \/ ProfileSet(c) \/ ProfileClear(c)
    \/ RunNow(c) \/ TeamRun(c) \/ SessionDelete(c)
    \/ Genesis(c) \/ Commit(c) \/ BeginBackup(c) \/ CreateBackup(c)
    \/ BeginRestore(c) \/ Restore(c) \/ RestoreCut(c)

Next ==
    \/ \E r \in Requests : Handler(r) \/ Swap(r) \/ CutOff(r)
    \/ \E c \in Commands : Command(c)
    \/ \E a \in Actors : ExtractProfile(a) \/ TakeManager(a) \/ StoreResult(a) \/ Save(a) \/ Fails(a)
    \/ Start
    \/ Stop

Spec == Init /\ [][Next]_vars

-----------------------------------------------------------------------------
(* What is shown: by the server, and by the commands *)

ListSchedules == disk["schedule"]
ListChannels == disk["channel"]
ListProjects == disk["project"]
GetConfig == disk["setting"]
GetAgent(p) == disk[p]
ListTeams == disk["team"]
ListSkills == disk["skill"]
ListSecrets == disk["secret"]
ListNotifications == disk["notification"]
SearchMemory == disk["memory"]
GetProfile == disk["user"]
ListTeamSessions == disk["run"]

(* Plugins are listed from memory. *)
ListPlugins == memory["plugin"]

Shown ==
    [e \in Entries |->
        CASE e = "schedule" -> ListSchedules
          [] e = "channel" -> ListChannels
          [] e = "project" -> ListProjects
          [] e = "plugin" -> ListPlugins
          [] e = "setting" -> GetConfig
          [] e \in Profiles -> GetAgent(e)
          [] e = "team" -> ListTeams
          [] e = "skill" -> ListSkills
          [] e = "secret" -> ListSecrets
          [] e = "notification" -> ListNotifications
          [] e = "memory" -> SearchMemory
          [] e = "user" -> GetProfile
          [] e = "run" -> ListTeamSessions]

PrintSchedules == disk["schedule"]
PrintChannels == disk["channel"]
PrintProjects == disk["project"]
PrintConfig == disk["setting"]
PrintAgent(p) == disk[p]
PrintTeam == disk["team"]
PrintSkill == disk["skill"]
PrintSecret == disk["secret"]
PrintNotifications == disk["notification"]
PrintSessions == disk["run"]

(* No command can open the memories under a server. *)
PrintMemories == IF up THEN 0 ELSE disk["memory"]
PrintProfile == IF up THEN 0 ELSE disk["user"]

Printed ==
    [e \in Entries \ {"plugin"} |->
        CASE e = "schedule" -> PrintSchedules
          [] e = "channel" -> PrintChannels
          [] e = "project" -> PrintProjects
          [] e = "setting" -> PrintConfig
          [] e \in Profiles -> PrintAgent(e)
          [] e = "team" -> PrintTeam
          [] e = "skill" -> PrintSkill
          [] e = "secret" -> PrintSecret
          [] e = "notification" -> PrintNotifications
          [] e = "memory" -> PrintMemories
          [] e = "user" -> PrintProfile
          [] e = "run" -> PrintSessions]

-----------------------------------------------------------------------------
(* What the server and the commands show of an entry is what the last edit *)
(* of it made it, whichever of the requests and commands that was, as long *)
(* as no two edits of its file overlapped: in particular no handler writes *)
(* back an older state of the entries it does not edit.  Records of a      *)
(* database need no such proviso.                                          *)
KeptWhenAlone ==
    /\ up => \A e \in Entries :
                \/ Shown[e] = made[e]
                \/ File(e) \in disturbed
                \/ e = "plugin" /\ \E r \in Requests : pc[r] = "swap"
    /\ \A e \in DOMAIN Printed :
          \/ Printed[e] = made[e]
          \/ File(e) \in disturbed
          \/ up /\ File(e) = "memory"

(* The server never works with a configuration that no edit has written:   *)
(* whatever fails, is cut short or overtaken, what it uses has been on     *)
(* disk.                                                                   *)
MemoryOnceWritten == up => memory \in written
=============================================================================
