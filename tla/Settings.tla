-------------------------------- MODULE Settings -------------------------------
(***************************************************************************)
(* The settings store (internal/platform/config): the file, the values it  *)
(* gives (base), and what the process runs with (value), with the saves of *)
(* PUT /api/v1/settings and of the startup's search for media tools.       *)
(*                                                                         *)
(* One field stands for each way a field is treated: a secret, which a     *)
(* client is never shown and a blank does not clear; the user name and the *)
(* password that goes with it; a native path, which is anchored to the     *)
(* directory of the file; the path of a media tool, which is probed; a     *)
(* number with limits, which no save accepts when it is missing; and a     *)
(* language, which a save accepts blank and a start fills (the audio's,    *)
(* the metadata's and its fallback).  The variables of the environment win *)
(* over the file and are set once.  Other texts and limits and the URLs    *)
(* are left out: what a start fills of them, a save refuses blank.         *)
(***************************************************************************)
EXTENDS Naturals

CONSTANTS
    Managed,        \* fields that the environment sets
    SettingsClients,\* handlers of PUT /api/v1/settings
    MaxPuts,        \* bound: requests
    MaxStarts       \* bound: starts of the process

Fields == {"secret", "username", "password", "path", "tool", "jobs", "language"}

ASSUME SettingsAssumption ==
    /\ Managed \subseteq Fields /\ {MaxPuts, MaxStarts} \subseteq Nat

VARIABLES
    file,      \* what the settings file holds, see FileValues
    tmpFile,   \* the file a save writes before it renames it
    store,     \* the process: base, value, and whether it is up
    puts,      \* client -> the request it handles, see NoPut
    putCount,  \* how many requests there were
    starts,    \* how often the process started
    toolFound  \* the media tool is where the PATH is searched

settingsVars == <<file, tmpFile, store, puts, putCount, starts, toolFound>>

(* Values: a path is "data/..." as in the defaults, anchored, or another   *)
(* absolute one; a tool's path is usable, gone, or no media tool at all; a *)
(* number is missing, allowed or too large; a language is blank, the        *)
(* default or another.                                                     *)
ValuesOf == [secret |-> {"", "s"}, username |-> {"", "u"}, password |-> {"", "p"},
             path |-> {"relative", "anchored", "other"},
             tool |-> {"usable", "gone", "unsafe"}, jobs |-> {0, 10, 99},
             language |-> {"", "en", "ro"}]

EnvValue == [secret |-> "env", username |-> "env", password |-> "env",
             path |-> "env", tool |-> "env", jobs |-> 20, language |-> "env"]

Defaults == [secret |-> "", username |-> "", password |-> "",
             path |-> "relative", tool |-> "gone", jobs |-> 10, language |-> "en"]

NoPut == [at |-> "idle", v |-> Defaults, changed |-> {}, stale |-> FALSE]

Busy == \E c \in SettingsClients \cup {"tools"} : puts[c].at = "written"

(********************************* loading *********************************)

(* applyEnvironment.                                                       *)
applyEnvironment(v) == [f \in Fields |-> IF f \in Managed THEN EnvValue[f] ELSE v[f]]

(* anchorNativePaths: a path that is the environment's stays as it is.     *)
anchorNativePaths(v) ==
    IF "path" \notin Managed /\ v.path = "relative" THEN [v EXCEPT !.path = "anchored"] ELSE v

(* mediaToolName and the limits, of the effective settings; a language may *)
(* be blank.                                                               *)
validate(v) == v.tool # "unsafe" /\ v.jobs \in 1..20

(* LoadAt: what is missing in the file gets its default, a media tool that *)
(* is none is replaced, in the base, too.                                  *)
Filled(v) == [v EXCEPT !.jobs = IF @ = 0 THEN Defaults.jobs ELSE @,
                       !.language = IF @ = "" THEN Defaults.language ELSE @]

resetUnsafeMediaTools(v) ==
    IF "tool" \notin Managed /\ v.tool = "unsafe" THEN [v EXCEPT !.tool = Defaults.tool] ELSE v

LoadedBase(f) == resetUnsafeMediaTools(Filled(f))

LoadedValue(f) == anchorNativePaths(applyEnvironment(LoadedBase(f)))

Load ==
    /\ store.at = "down" /\ starts < MaxStarts /\ starts' = starts + 1
    /\ IF validate(LoadedValue(file))
       THEN store' = [at |-> "starting", base |-> LoadedBase(file), value |-> LoadedValue(file)]
       ELSE store' = [store EXCEPT !.at = "refused"]
    /\ UNCHANGED <<file, tmpFile, puts, putCount, toolFound>>

(********************************** saving *********************************)

\* Mutant: a blank field is what the client wants.
mergeSecretsBlank(next, old) == next

(* mergeSecrets: a blank keeps a secret, and a password only with a user.  *)
mergeSecrets(next, old) ==
    [next EXCEPT !.secret = IF @ = "" THEN old.secret ELSE @,
                 !.password = IF @ = "" /\ next.username # "" THEN old.password ELSE @]

\* Mutant: what the environment set is saved with the rest.
restoreManagedNothing(v) == v

(* restoreManagedFields: what the environment manages stays in the file as *)
(* it was.                                                                 *)
restoreManagedFields(v) == [f \in Fields |-> IF f \in Managed THEN store.base[f] ELSE v[f]]

Persisted(next) == restoreManagedFields(mergeSecrets(next, store.value))

\* Mutant: the environment is looked at when the process starts only.
EffectiveSaved(persisted) == persisted

(* What the process runs with after a save; nothing is anchored here.      *)
Effective(persisted) == applyEnvironment(persisted)

(* A tool whose path changes must answer to -version.                      *)
ProbeFails(c, v) ==
    c # "tools" /\ "tool" \notin Managed /\ v.tool # store.value.tool /\ v.tool # "usable"

(* save, under the store's lock, up to the temporary file.  It is refused  *)
(* with nothing changed.                                                   *)
SaveWrites(c) ==
    /\ puts[c].at = "read" /\ ~Busy
    /\ LET persisted == Persisted(puts[c].v)
           effective == Effective(persisted)
       IN  IF validate(effective) /\ ~ProbeFails(c, effective)
           THEN /\ tmpFile' = persisted
                /\ puts' = [puts EXCEPT ![c].at = "written", ![c].v = persisted]
           ELSE /\ puts' = [puts EXCEPT ![c] = NoPut] /\ UNCHANGED tmpFile
    /\ UNCHANGED <<file, store, putCount, starts, toolFound>>

(* The rename, after which base and value follow.                          *)
SaveRenames(c) ==
    /\ puts[c].at = "written"
    /\ file' = tmpFile
    /\ store' = [store EXCEPT !.base = puts[c].v, !.value = Effective(puts[c].v)]
    /\ puts' = [d \in DOMAIN puts |->
                  IF d = c THEN NoPut
                  ELSE IF puts[d].at = "read" THEN [puts[d] EXCEPT !.stale = TRUE]
                  ELSE puts[d]]
    /\ UNCHANGED <<tmpFile, putCount, starts, toolFound>>

(* Writing or renaming fails: the caller is told, the lock is released.    *)
SaveFails(c) ==
    /\ puts[c].at = "written"
    /\ puts' = [puts EXCEPT ![c] = NoPut]
    /\ UNCHANGED <<file, tmpFile, store, putCount, starts, toolFound>>

(********************************* requests ********************************)

(* putSettings decodes the body over a copy of the settings of that time,  *)
(* so that omitted fields keep their values.                               *)
PutReads(c, f, new) ==
    /\ store.at = "up" /\ puts[c].at = "idle" /\ ~Busy
    /\ putCount < MaxPuts /\ putCount' = putCount + 1
    /\ puts' = [puts EXCEPT ![c] = [at |-> "read", v |-> [store.value EXCEPT ![f] = new],
                                    changed |-> {f}, stale |-> FALSE]]
    /\ UNCHANGED <<file, tmpFile, store, starts, toolFound>>

(* A client that sends back all it was shown: its secrets are blank.       *)
PutReadsAll(c, f, new) ==
    /\ store.at = "up" /\ puts[c].at = "idle" /\ ~Busy
    /\ putCount < MaxPuts /\ putCount' = putCount + 1
    /\ puts' = [puts EXCEPT ![c] =
         [at |-> "read", changed |-> {f}, stale |-> FALSE,
          v |-> [[store.value EXCEPT !.secret = "", !.password = ""] EXCEPT ![f] = new]]]
    /\ UNCHANGED <<file, tmpFile, store, starts, toolFound>>

(* EnsureNativePathsWritableFor comes before the save, and may refuse.     *)
EnsureNativePathsWritable(c) ==
    /\ c # "tools" /\ puts[c].at = "read" /\ puts' = [puts EXCEPT ![c] = NoPut]
    /\ UNCHANGED <<file, tmpFile, store, putCount, starts, toolFound>>

(* ResolveMediaTools, before the server listens: a tool that is gone is    *)
(* searched for, and what is found is saved with everything else.          *)
ResolveMediaTools ==
    /\ store.at = "starting"
    /\ IF "tool" \notin Managed /\ store.value.tool = "gone" /\ toolFound
       THEN puts' = [puts EXCEPT !["tools"] =
              [at |-> "read", v |-> [store.value EXCEPT !.tool = "usable"],
               changed |-> {"tool"}, stale |-> FALSE]]
       ELSE UNCHANGED puts
    /\ store' = [store EXCEPT !.at = "resolving"]
    /\ UNCHANGED <<file, tmpFile, putCount, starts, toolFound>>

Listens ==
    /\ store.at = "resolving" /\ puts["tools"].at = "idle"
    /\ store' = [store EXCEPT !.at = "up"]
    /\ UNCHANGED <<file, tmpFile, puts, putCount, starts, toolFound>>

(* The process stops, at any step of a save.                               *)
Stop ==
    /\ store.at \notin {"down", "refused"} /\ starts < MaxStarts
    /\ store' = [store EXCEPT !.at = "down"]
    /\ puts' = [c \in DOMAIN puts |-> NoPut]
    /\ UNCHANGED <<file, tmpFile, putCount, starts, toolFound>>

(* The file is new, or one that an older version left behind.              *)
SettingsInit ==
    /\ file \in {Defaults,
                 [Defaults EXCEPT !.jobs = 0, !.secret = "s", !.tool = "unsafe", !.language = ""],
                 [Defaults EXCEPT !.username = "u", !.password = "p", !.path = "other"]}
    /\ tmpFile = Defaults /\ toolFound \in BOOLEAN
    /\ store = [at |-> "down", base |-> Defaults, value |-> Defaults]
    /\ puts = [c \in SettingsClients \cup {"tools"} |-> NoPut]
    /\ putCount = 0 /\ starts = 0

SettingsNext ==
    \/ Load \/ ResolveMediaTools \/ Listens \/ Stop
    \/ \E c \in SettingsClients, f \in Fields : \E new \in ValuesOf[f] :
          PutReads(c, f, new) \/ PutReadsAll(c, f, new)
    \/ \E c \in SettingsClients \cup {"tools"} :
          \/ EnsureNativePathsWritable(c)
          \/ SaveWrites(c) \/ SaveRenames(c) \/ SaveFails(c)

(******************************** properties *******************************)

(* The types of the variables.                                             *)
SettingsTypeOK ==
    LET ok(v) == DOMAIN v = Fields /\ \A f \in Fields : v[f] \in ValuesOf[f] \cup {EnvValue[f]}
    IN  /\ ok(file) /\ ok(tmpFile) /\ ok(store.base) /\ ok(store.value)
        /\ store.at \in {"down", "refused", "starting", "resolving", "up"}
        /\ \A c \in DOMAIN puts :
              /\ puts[c].at \in {"idle", "read", "written"} /\ ok(puts[c].v)
              /\ puts[c].changed \subseteq Fields /\ puts[c].stale \in BOOLEAN
        /\ putCount \in 0..MaxPuts /\ starts \in 0..MaxStarts /\ toolFound \in BOOLEAN

(* What the environment manages stays out of the file, for the day that it *)
(* is not set any more.                                                    *)
EnvironmentStaysOut == \A f \in Managed : file[f] # EnvValue[f]

(* What the next start makes of a value that a save took as it was: it     *)
(* anchors a relative path and fills a blank language.                     *)
NextStartChanges(f) ==
    \/ f = "path" /\ store.value[f] = "relative" /\ LoadedValue(file)[f] = "anchored"
    \/ f = "language" /\ store.value[f] = "" /\ LoadedValue(file)[f] = Defaults[f]

(* The next start is not refused, and gives every field the value that the *)
(* process runs with, whichever saves succeeded, were refused, failed or   *)
(* were interrupted before: but for a relative path and a blank language,  *)
(* which are in force as they are saved until the next start changes them. *)
RestartsAlike ==
    store.at \in {"starting", "resolving", "up"} =>
        /\ validate(LoadedValue(file))
        /\ \A f \in Fields : store.value[f] = LoadedValue(file)[f] \/ NextStartChanges(f)

SettingsSafe == SettingsTypeOK /\ EnvironmentStaysOut /\ RestartsAlike

(* A save changes what its client changed and nothing else: no secret that *)
(* the client was not shown is lost (but for the password when the client  *)
(* leaves no user, or sends none in the place of the environment's), and   *)
(* nothing comes back, unless another client's save came between the       *)
(* reading and the writing.                                                *)
OmittedIsKept ==
    [][\A c \in DOMAIN puts : file' # file /\ puts[c].at = "written" /\ ~puts[c].stale =>
         \A f \in Fields \ puts[c].changed :
             \/ store'.value[f] = store.value[f]
             \/ /\ f = "password"
                /\ store'.value.username = "" \/ "username" \in puts[c].changed \cap Managed]_settingsVars

(* Whatever is saved, the next start agrees but for what it anchors and    *)
(* fills, and no save undoes another.                                      *)
SettingsKept == []SettingsSafe /\ OmittedIsKept
================================================================================
