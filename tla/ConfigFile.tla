----------------------------- MODULE ConfigFile -----------------------------
(***************************************************************************)
(* The configuration file, its wizard and its writers (cmd/root.go,        *)
(* cmd/config.go, pkg/config, and in pkg/tui commands.go, tui.go,          *)
(* msgHandlers.go, tour.go).                                               *)
(*                                                                         *)
(* At startup the file is read and, with the environment, judged; when it  *)
(* is missing, broken or incomplete the wizard opens, seeded by both and   *)
(* by a team preset.                                                       *)
(* What the wizard's answers change is merged into the file that is there  *)
(* by then, behind a backup.  The end of the tour, the choice of teams and *)
(* the migration of the old policies rewrite the same file.  A write       *)
(* truncates before it fills, and the process may die anywhere.            *)
(*                                                                         *)
(* A content is what the YAML says of a few keys; the editor goes the way  *)
(* of the terminal.  The old format kept both policies of the new one, the *)
(* silent default and the mappings of services, in one block of its own.   *)
(***************************************************************************)
EXTENDS Naturals

CONSTANTS Present,   \* keys the user's own file may hold at first
          Seeds,     \* keys a preset may carry
          Supplied,  \* keys the environment (SREPD_...) may set
          MaxStarts  \* bound on the starts of the program

Keys == {"token", "teams", "silent", "mappings", "terminal", "cluster_login",
         "old_silent", "old_mappings", "tour_seen"}
Olds == {"old_silent", "old_mappings"}   \* the block service_escalation_policies
Executable == {"terminal", "cluster_login"}

ConfigAssumption ==
    /\ Present \subseteq Keys
    /\ Seeds \subseteq Keys \ ({"token", "tour_seen"} \cup Olds)
    /\ Supplied \subseteq Keys \ ({"tour_seen"} \cup Olds)
    /\ MaxStarts \in Nat

Unset == "unset"   \* the empty value
Values == {Unset, "file", "env", "preset", "input", "template", "true"}
Nothing == [k \in Keys |-> Unset]

(* What a path holds.  A broken file cannot be parsed; a scan of its lines *)
(* still finds some values.                                                *)
Valid(at) == [state |-> "valid", at |-> at]
Broken(at) == [state |-> "broken", at |-> at]
Absent == [state |-> "absent", at |-> Nothing]
Torn == Broken(Nothing)
Contents == [state : {"valid", "broken", "absent"}, at : [Keys -> Values]]

VARIABLES
    file, backup, \* srepd.yaml and srepd.yaml~
    preset,       \* the team preset of this run of `srepd config', fixed
    env,          \* what the environment of the process sets
    mode,         \* "down", "wizard" (being prepared), "form", "table", "dev",
                  \* "failed" (the preset could not be loaded)
    viper,        \* what the process knows of file and environment
    form,         \* the open wizard
    jobs,         \* writers under way
    starts        \* counted for its bound

vars == <<file, backup, preset, env, mode, viper, form, jobs, starts>>

NoForm == [existing |-> Nothing, applied |-> {}, old |-> FALSE, isNew |-> FALSE]

Forms == [existing : [Keys -> Values], applied : SUBSET Keys, old : BOOLEAN,
          isNew : BOOLEAN]
Steps == {"read", "saveBackup", "fillBackup", "save", "fill"}
Jobs == [kind : {"wizard", "teams", "tour", "migrate"}, final : [Keys -> Values],
         changes : SUBSET Keys, isNew : BOOLEAN, step : Steps,
         read : Contents, data : Contents]

TypeOK ==
    /\ {file, backup} \subseteq Contents
    /\ preset \in [Keys -> {Unset, "preset"}] /\ env \in [Keys -> {Unset, "env"}]
    /\ mode \in {"down", "wizard", "form", "table", "dev", "failed"}
    /\ viper \in [Keys -> Values] /\ form \in Forms /\ jobs \subseteq Jobs
    /\ starts \in 0..MaxStarts

Some(keys, v) == [k \in Keys |-> IF k \in keys THEN v ELSE Unset]

(* ParsePreset refuses every key that is not on its list.                  *)
Presets == {Some(s, "preset") : s \in SUBSET Seeds}

Init ==
    /\ file \in {Absent} \cup {Valid(Some(s, "file")) : s \in SUBSET Present}
                \cup {Broken(Some(s, "file")) : s \in SUBSET {"token"}}
    /\ backup = Absent
    /\ preset \in Presets /\ env = Nothing
    /\ mode = "down" /\ viper = Nothing /\ form = NoForm /\ jobs = {}
    /\ starts = 0

-----------------------------------------------------------------------------
(* Writers.                                                                *)
Job(kind, final, changes, isNew) ==
    [kind |-> kind, final |-> final, changes |-> changes, isNew |-> isNew,
     step |-> "read", read |-> Absent, data |-> Absent]

(* DetectChangesForNewFile, of the keys the template then takes over       *)
NewFileChanges(final) ==
    {"token", "teams"} \cup
        {k \in {"silent", "mappings", "terminal"} : final[k] # Unset}

(* GenerateAnnotatedConfig *)
Template == [Nothing EXCEPT !["terminal"] = "template",
                            !["cluster_login"] = "template"]

UpsertScalars(at, keys, final) ==
    [k \in Keys |-> IF k \in keys THEN final[k] ELSE at[k]]
UpdateTeams(at, teams) == [at EXCEPT !["teams"] = teams]
CommentOutOldPolicies(at) == [k \in Keys |-> IF k \in Olds THEN Unset ELSE at[k]]

(* MergeIntoExistingConfig: an empty login command is never written, nor   *)
(* are mappings that were all cleared, of which the caller makes no map.   *)
Dropped(final) == {k \in {"cluster_login", "mappings"} : final[k] = Unset}
Merge(at, final, changes) ==
    LET written == changes \ Dropped(final)
        upserted == UpsertScalars(at, written \ {"teams"}, final)
        merged == IF "teams" \in written THEN UpdateTeams(upserted, final["teams"])
                  ELSE upserted
    IN  IF {"silent", "mappings"} \cap changes # {} THEN CommentOutOldPolicies(merged)
        ELSE merged

(* Which writers keep a backup.                                            *)
Backs(j) == ~j.isNew /\ j.kind \in {"wizard", "teams"}
\* mutant: writes the file straight away
FirstUnbacked(j) == "save"
First(j) == IF Backs(j) THEN "saveBackup" ELSE "save"

(* A broken file cannot be merged into.  updateTeamsInYAML moreover knows  *)
(* no file without the key, which an empty list still has.                 *)
Mergeable(f) == f.state = "valid"
NeedsKey(j, f) == j.kind = "teams" /\ f.at["teams"] = Unset

(* WriteConfig for a new file and for an old one, and the other writers    *)
(* alike: read, merge, back up, write.  A failure ends it.                 *)
Read(j) ==
    /\ j \in jobs /\ j.step = "read"
    /\ LET base == IF j.isNew THEN Valid(Template) ELSE file
           changes == IF j.isNew THEN NewFileChanges(j.final) ELSE j.changes
           data == Valid(Merge(base.at, j.final, changes))
           next == [j EXCEPT !.step = First(j), !.read = file, !.data = data]
       IN  \/ Mergeable(base) /\ jobs' = (jobs \ {j}) \cup {next}
           \/ (~Mergeable(base) \/ NeedsKey(j, base)) /\ jobs' = jobs \ {j}
    /\ UNCHANGED <<file, backup, preset, env, mode, viper, form, starts>>

(* os.WriteFile truncates, then fills.                                     *)
Write(j, from, to) ==
    /\ j \in jobs /\ j.step = from
    /\ jobs' = (jobs \ {j}) \cup {[j EXCEPT !.step = to]}
    /\ UNCHANGED <<preset, env, mode, viper, form, starts>>

BackUp(j) ==
    \/ Write(j, "saveBackup", "fillBackup") /\ backup' = Torn /\ UNCHANGED file
    \/ Write(j, "fillBackup", "save") /\ backup' = j.read /\ UNCHANGED file

Truncate(j) == Write(j, "save", "fill") /\ file' = Torn /\ UNCHANGED backup

Filled(j) ==
    /\ j \in jobs /\ j.step = "fill"
    /\ file' = j.data
    /\ jobs' = jobs \ {j}
    /\ UNCHANGED <<backup, preset, env, mode, viper, form, starts>>

(* The process ends, between any two steps.                                *)
Die ==
    /\ mode # "down" /\ mode' = "down"
    /\ jobs' = {} /\ form' = NoForm /\ viper' = Nothing /\ env' = Nothing
    /\ UNCHANGED <<file, backup, preset, starts>>

-----------------------------------------------------------------------------
(* initConfig, PreRun and Run.  The environment wins over the file, but    *)
(* what a scan of a broken file finds (SalvageConfigValues) over both.     *)
Known(f, e) ==
    [k \in Keys |-> IF e[k] = Unset \/ (f.state = "broken" /\ f.at[k] # Unset)
                    THEN f.at[k] ELSE e[k]]

Healthy(f, e) ==
    f.state = "valid" /\ Known(f, e)["token"] # Unset /\ Known(f, e)["teams"] # Unset

(* autoCommentOldPolicies: in place, without a backup.  It looks for the   *)
(* new key in the text: a set one is seen, and so is one that is empty or  *)
(* commented out.                                                          *)
Migration(f) ==
    [Job("migrate", f.at, {"silent"}, FALSE) EXCEPT !.step = "save", !.read = f,
        !.data = Valid(CommentOutOldPolicies(f.at))]
Migrations(f) ==
    IF \A k \in Olds : f.at[k] = Unset THEN {{}}
    ELSE IF f.at["silent"] # Unset THEN {{Migration(f)}}
    ELSE {{}, {Migration(f)}}

Envs == {Some(s, "env") : s \in SUBSET Supplied}

Begin(e) ==
    /\ mode = "down" /\ starts < MaxStarts /\ starts' = starts + 1
    /\ env' = e /\ viper' = Known(file, e)
    /\ UNCHANGED <<file, backup, preset, form>>

Start(e, dev) ==
    /\ Begin(e)
    /\ IF dev THEN mode' = "dev" /\ jobs' = {}
       ELSE IF Healthy(file, e) THEN mode' = "table" /\ jobs' \in Migrations(file)
       ELSE mode' = "wizard" /\ jobs' = {}

(* `srepd config' asks for the wizard whatever the file says.              *)
StartConfig(e) == Begin(e) /\ mode' = "wizard" /\ UNCHANGED jobs

(* ResolveExistingConfig; terminal and login command count only when they  *)
(* come from the environment or from a file that viper could read          *)
(* (viperConfiguredString).                                                *)
OldSilent == viper["silent"] = Unset /\ viper["old_silent"] # Unset
OldMappings == viper["mappings"] = Unset /\ viper["old_mappings"] # Unset
Existing ==
    [k \in Keys |->
        CASE k = "silent" /\ OldSilent -> viper["old_silent"]
          [] k = "mappings" /\ OldMappings -> viper["old_mappings"]
          [] k \in Executable /\ file.state # "valid" -> env[k]
          [] OTHER -> viper[k]]

(* ApplyPreset: the user's own value wins.                                 *)
Applied(existing) == {k \in Seeds : existing[k] = Unset /\ preset[k] # Unset}
Seeded(existing) ==
    [k \in Keys |-> IF k \in Applied(existing) THEN preset[k] ELSE existing[k]]

(* prepareConfigWizardCmd and configWizardReadyMsg                         *)
OpenWizard ==
    /\ mode = "wizard" /\ mode' = "form"
    /\ form' = [existing |-> Seeded(Existing), applied |-> Applied(Existing),
                old |-> OldSilent \/ OldMappings,
                isNew |-> file.state = "absent"]
    /\ UNCHANGED <<file, backup, preset, env, viper, jobs, starts>>

(* LoadPreset fails before the wizard opens, which then never does.        *)
PresetFails ==
    /\ mode = "wizard" /\ preset # Nothing /\ mode' = "failed"
    /\ UNCHANGED <<file, backup, preset, env, viper, form, jobs, starts>>

-----------------------------------------------------------------------------
(* The wizard.  A token left blank keeps the one there is, and a terminal  *)
(* is always chosen; teams, silent policy and mappings can be kept when    *)
(* there are any, given, or left empty: the check of the teams lets the    *)
(* first answer pass.  No step asks for the login command.                 *)
Kept(a, k) == a[k] = "keep" => form.existing[k] # Unset
ValidToken(a) == Kept(a, "token")
ValidTeams(a) == Kept(a, "teams")
ValidTerminal(a) == Kept(a, "terminal")
ValidSilent(a) == Kept(a, "silent")
ValidMappings(a) == Kept(a, "mappings")

Asked == {"token", "teams", "silent", "mappings", "terminal"}
Answers ==
    {a \in [Asked -> {"keep", Unset, "input"}] :
        /\ a["token"] # Unset /\ a["terminal"] # Unset
        /\ ValidToken(a) /\ ValidTeams(a) /\ ValidTerminal(a)
        /\ ValidSilent(a) /\ ValidMappings(a)}

(* ResolveFinalValues *)
Final(a) ==
    [k \in Keys |-> IF k \in Asked /\ a[k] # "keep" THEN a[k] ELSE form.existing[k]]

(* DetectChanges, for an old and for a new file, then ForcePresetChanges   *)
(* and the values migrated from the old format.                            *)
Detected(final) ==
    IF form.isNew THEN NewFileChanges(final)
    ELSE {k \in Asked : final[k] # form.existing[k]}
\* mutant: forgets that seeded values are not in the file yet
ChangesUnforced(final) == Detected(final)
Changes(final) ==
    Detected(final) \cup form.applied
        \cup {k \in {"silent", "mappings"} : form.old /\ final[k] # Unset}

(* switchConfigFocusMode.  A preset's commands need both confirmations; a  *)
(* discarded, unconfirmed or unchanged form writes nothing, nor does one   *)
(* with mappings that cannot be parsed.  A save also refreshes the values  *)
(* of the process (writeConfigCmd), which nothing here reads again.        *)
Complete ==
    /\ mode = "form" /\ mode' = "table" /\ form' = NoForm
    /\ \E a \in Answers, confirm, safe, trusted \in BOOLEAN :
          LET final == Final(a)
              changes == Changes(final)
          IN  jobs' = IF /\ confirm /\ changes # {}
                         /\ form.applied \cap Executable # {} => safe /\ trusted
                      THEN jobs \cup {Job("wizard", final, changes, form.isNew)}
                      ELSE jobs
    /\ UNCHANGED <<file, backup, preset, env, viper, starts>>

Abort ==
    /\ mode = "form" /\ mode' = "table" /\ form' = NoForm
    /\ UNCHANGED <<file, backup, preset, env, viper, jobs, starts>>

-----------------------------------------------------------------------------
(* markTourSeenCmd *)
EndTour ==
    /\ mode \in {"table", "dev"} /\ viper["tour_seen"] = Unset
    /\ viper' = [viper EXCEPT !["tour_seen"] = "true"]
    /\ jobs' = jobs \cup {Job("tour", Some({"tour_seen"}, "true"), {"tour_seen"}, FALSE)}
    /\ UNCHANGED <<file, backup, preset, env, mode, form, starts>>

(* teamsSelectedMsg; only a process that skipped the checks lacks teams.   *)
SelectTeams ==
    /\ mode = "dev" /\ viper["teams"] = Unset
    /\ viper' = [viper EXCEPT !["teams"] = "input"]
    /\ jobs' = jobs \cup {Job("teams", Some({"teams"}, "input"), {"teams"}, FALSE)}
    /\ UNCHANGED <<file, backup, preset, env, mode, form, starts>>

Next ==
    \/ \E e \in Envs : StartConfig(e) \/ \E dev \in BOOLEAN : Start(e, dev)
    \/ OpenWizard \/ PresetFails \/ Complete \/ Abort \/ EndTour \/ SelectTeams \/ Die
    \/ \E j \in jobs : Read(j) \/ BackUp(j) \/ Truncate(j) \/ Filled(j)

Spec == Init /\ [][Next]_vars

-----------------------------------------------------------------------------
(* While a save that keeps a backup may leave the file torn, the backup is *)
(* whole and holds what the save read: a crash loses no token.             *)
BackedUp == \A j \in jobs : Backs(j) /\ j.step = "fill" => backup = j.read

(* What the summary of the wizard showed and the user confirmed is what a  *)
(* completed save leaves in the file, migrated and seeded values included  *)
(* (preset.go, ForcePresetChanges).  The code does not keep it for         *)
(* mappings that were cleared, which stay in the file, nor, in a file that *)
(* exists, for values from the environment, which look unchanged and are   *)
(* not written.  A new file gets no login command.                         *)
Durable(j) ==
    {k \in Asked \cup {"cluster_login"} :
        /\ k = "mappings" => j.final[k] # Unset
        /\ IF j.isNew THEN k # "cluster_login" ELSE j.final[k] # "env"}
Saved(j, keys) == \A k \in keys : file'.at[k] = j.final[k]
SavedByWizard(Keep(_)) ==
    \A j \in jobs : j.kind = "wizard" /\ j.step = "fill" /\ j \notin jobs' /\
                    mode' # "down" => Saved(j, Keep(j))
ConfirmedIsSaved == [][SavedByWizard(Durable)]_vars

(* The same without the exceptions (buildConfigForm, "Save changes?").     *)
(* The code does not keep this.                                            *)
SummaryIsSaved == [][SavedByWizard(LAMBDA j : Asked)]_vars

(* Preset-seeded values are not in the file yet: they are forced into the  *)
(* write set (msgHandlers.go), the login command included.  The code does  *)
(* not keep this: a new file gets no login command.                        *)
PresetIsSaved ==
    [][SavedByWizard(LAMBDA j : {k \in Seeds : j.final[k] = "preset"})]_vars

(* The wizard can fix a file with a YAML error by writing a clean config   *)
(* (root.go): a save that is over leaves a valid file.  The code does not  *)
(* keep this: the merge into a broken file fails.                          *)
WizardRepairs ==
    [][\A j \in jobs : j.kind = "wizard" /\ mode' # "down" /\
          (\A i \in jobs' : i.kind # "wizard") => file'.state = "valid"]_vars
=============================================================================
