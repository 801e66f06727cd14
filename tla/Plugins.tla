------------------------------- MODULE Plugins -------------------------------
(***************************************************************************)
(* The plugin runtime (rblog-plugins) behind the routes that administer    *)
(* plugins and the one that hands requests to them.  A reload reads the    *)
(* directories one by one, a manifest and then the module it names, and    *)
(* swaps the loaded plugins in one go.  A request looks at the declared    *)
(* methods under one lock and takes module and capabilities under another. *)
(* What a module does once it runs is its own affair: any host call, any   *)
(* answer.                                                                 *)
(***************************************************************************)
EXTENDS Server

CONSTANTS
    PluginNames,
    Modules,        \* contents of entry files
    Compiles,       \* those that wasmtime compiles
    Placeholder,    \* "(module)", which exports nothing
    Methods,
    Manifests       \* bound: the manifests that operators write

\* The routes of a manifest stand for the first one that matches a request; no
\* methods is any method, as for a path that no route declares.
Manifest == [enabled : BOOLEAN, http : BOOLEAN,
             methods : SUBSET Methods]
Loaded == [manifest : Manifests, module : Modules \cup {Placeholder}, enabled : BOOLEAN]

ASSUME PluginsAssumption ==
    /\ Manifests \subseteq Manifest
    /\ Compiles \subseteq Modules
    /\ Placeholder \notin Modules
    /\ None \notin Manifest \cup Modules \cup Loaded

VARIABLES
    manifests,  \* plugin.toml of each directory, None if it is not accepted
    wasm,       \* the entry file of each directory
    loaded,     \* the runtime's map
    job,        \* the handlers
    outdated,   \* history: plugins whose files changed since the last reload read them
    slipped     \* history: requests with a reload between their two locks

pluginsVars == <<manifests, wasm, loaded, job, outdated, slipped>>

NoJob == [at |-> "idle"]
Scan(todo, next, missed) == [at |-> "scan", todo |-> todo, next |-> next, missed |-> missed]
Entry(scan, p, m) ==
    [at |-> "entry", todo |-> scan.todo, next |-> scan.next, missed |-> scan.missed,
     plugin |-> p, manifest |-> m]
Routed(p, method) == [at |-> "routed", plugin |-> p, method |-> method]
Run(p, method, l) == [at |-> "run", plugin |-> p, method |-> method, by |-> l]
NothingLoaded == [p \in PluginNames |-> None]

-----------------------------------------------------------------------------
\* load_manifest: there is one that parses, has the directory's name and known
\* capabilities, and unless it is disabled its entry is there.
Accepted(m, entry) == m # None /\ (m.enabled => entry # None)

\* load_one for a disabled manifest, which does not read the entry.
Dormant(m) == [manifest |-> m, module |-> Placeholder, enabled |-> FALSE]
Live(m, w) == [manifest |-> m, module |-> w, enabled |-> TRUE]

\* load_one of files that stay as they are.
LoadOne(m, w) ==
    IF ~Accepted(m, w) THEN None
    ELSE IF ~m.enabled THEN Dormant(m)
    ELSE IF w \in Compiles THEN Live(m, w) ELSE None

\* RouteMount: dispatch refuses a method that the route does not list.
Refused(p, method) ==
    /\ loaded[p] # None
    /\ loaded[p].manifest.methods # {} /\ method \notin loaded[p].manifest.methods

PluginsInit ==
    /\ manifests \in [PluginNames -> Manifests \cup {None}]
    /\ wasm \in [PluginNames -> Modules \cup {None}]
    /\ loaded = [p \in PluginNames |-> LoadOne(manifests[p], wasm[p])]
    /\ job = [r \in Requests |-> NoJob]
    /\ outdated = {}
    /\ slipped = {}

-----------------------------------------------------------------------------
\* An operator writes a manifest or an entry file, or removes it.
FilesChanged(p) ==
    /\ outdated' = outdated \cup {p}
    /\ job' = [r \in Requests |-> IF job[r].at \in {"scan", "entry"}
                                  THEN [job[r] EXCEPT !.missed = @ \cup {p}] ELSE job[r]]
    /\ UNCHANGED <<loaded, slipped>>

WriteManifest ==
    \E p \in PluginNames, m \in Manifests \cup {None} :
        /\ manifests' = [manifests EXCEPT ![p] = m]
        /\ FilesChanged(p)
        /\ UNCHANGED wasm

WriteEntry ==
    \E p \in PluginNames, w \in Modules \cup {None} :
        /\ wasm' = [wasm EXCEPT ![p] = w]
        /\ FilesChanged(p)
        /\ UNCHANGED manifests

Files == <<manifests, wasm>>

\* reload: nothing is locked while the directories are read.
Reload(r) ==
    /\ job[r] = NoJob
    /\ job' = [job EXCEPT ![r] = Scan(PluginNames, NothingLoaded, {})]
    /\ UNCHANGED <<Files, loaded, outdated, slipped>>

Keep(scan, p, l) == Scan(scan.todo, [scan.next EXCEPT ![p] = l], scan.missed)

\* The manifest of the next directory; one that does not load is skipped.
ReadManifest(r) ==
    \E p \in PluginNames :
        LET m == manifests[p]
            scan == [job[r] EXCEPT !.todo = @ \ {p}]
        IN
        /\ job[r].at = "scan" /\ p \in job[r].todo
        /\ job' = [job EXCEPT ![r] =
                     IF ~Accepted(m, wasm[p]) THEN scan
                     ELSE IF m.enabled THEN Entry(scan, p, m)
                     ELSE Keep(scan, p, Dormant(m))]
        /\ UNCHANGED <<Files, loaded, outdated, slipped>>

\* Its module, if the file is still there and compiles.
ReadEntry(r) ==
    LET j == job[r] IN
    /\ j.at = "entry"
    /\ job' = [job EXCEPT ![r] =
                 IF wasm[j.plugin] \in Compiles
                 THEN Keep(j, j.plugin, Live(j.manifest, wasm[j.plugin]))
                 ELSE Scan(j.todo, j.next, j.missed)]
    /\ UNCHANGED <<Files, loaded, outdated, slipped>>

\* Mutant: a plugin that does not load any more keeps running.
NewMap_Merged(scan) ==
    [p \in PluginNames |-> IF scan.next[p] = None THEN loaded[p] ELSE scan.next[p]]

NewMap(scan) == scan.next

Swap(r) ==
    /\ job[r].at = "scan" /\ job[r].todo = {}
    /\ loaded' = NewMap(job[r])
    /\ job' = [job EXCEPT ![r] = NoJob]
    /\ outdated' = job[r].missed
    /\ slipped' = slipped \cup {q \in Requests : job[q].at = "routed"}
    /\ UNCHANGED <<Files>>

\* enable, disable.
SetEnabled ==
    \E p \in PluginNames, enabled \in BOOLEAN :
        /\ loaded[p] # None
        /\ loaded' = [loaded EXCEPT ![p].enabled = enabled]
        /\ UNCHANGED <<Files, job, outdated, slipped>>

-----------------------------------------------------------------------------
\* Mutant: dispatch does not look at the methods.
Dispatch_AnyMethod(r) ==
    \E p \in PluginNames, method \in Methods :
        /\ job[r] = NoJob
        /\ job' = [job EXCEPT ![r] = Routed(p, method)]
        /\ UNCHANGED <<Files, loaded, outdated, slipped>>

\* dispatch, which answers 405 before anything is run.
Dispatch(r) ==
    \E p \in PluginNames, method \in Methods :
        /\ job[r] = NoJob
        /\ ~Refused(p, method)
        /\ job' = [job EXCEPT ![r] = Routed(p, method)]
        /\ UNCHANGED <<Files, loaded, outdated, slipped>>

EndJob(r) ==
    /\ job' = [job EXCEPT ![r] = NoJob]
    /\ slipped' = slipped \ {r}

\* invoke: 404 for an unknown plugin, 409 for a disabled one, and one that has no
\* `http' is refused; else module and capabilities are taken along.
Invoke(r) ==
    LET p == job[r].plugin
        runs == loaded[p] # None /\ loaded[p].enabled
                /\ loaded[p].manifest.http
    IN
    /\ job[r].at = "routed"
    /\ IF runs THEN /\ job' = [job EXCEPT ![r] = Run(p, job[r].method, loaded[p])]
                    /\ UNCHANGED slipped
       ELSE EndJob(r)
    /\ UNCHANGED <<Files, loaded, outdated>>

\* The answer, a trap (host calls without their capability trap), or the error of
\* a module without the exports.
EndRun(r) ==
    /\ job[r].at = "run"
    /\ EndJob(r)
    /\ UNCHANGED <<Files, loaded, outdated>>

\* The client hangs up while its request waits for the plugin. A reload does not
\* wait for anything and goes on.
AbandonJob(r) ==
    /\ job[r].at = "routed"
    /\ EndJob(r)
    /\ UNCHANGED <<Files, loaded, outdated>>

\* A stop and a boot, which loads before it serves.
PluginsRestart ==
    /\ loaded' = [p \in PluginNames |-> LoadOne(manifests[p], wasm[p])]
    /\ job' = [r \in Requests |-> NoJob]
    /\ outdated' = {}
    /\ slipped' = {}
    /\ UNCHANGED Files

PluginsWork(r) ==
    \/ Reload(r) \/ ReadManifest(r) \/ ReadEntry(r) \/ Swap(r)
    \/ Dispatch(r) \/ Invoke(r) \/ EndRun(r) \/ AbandonJob(r)

PluginsNext ==
    \/ \E r \in Requests : PluginsWork(r)
    \/ WriteManifest \/ WriteEntry \/ SetEnabled \/ PluginsRestart

PluginsSpec == PluginsInit /\ [][PluginsNext]_pluginsVars

-----------------------------------------------------------------------------
(* Properties.                                                             *)

Job ==
    {NoJob}
    \cup [at : {"scan"}, todo : SUBSET PluginNames,
          next : [PluginNames -> Loaded \cup {None}], missed : SUBSET PluginNames]
    \cup [at : {"entry"}, todo : SUBSET PluginNames,
          next : [PluginNames -> Loaded \cup {None}], missed : SUBSET PluginNames,
          plugin : PluginNames, manifest : Manifests]
    \cup [at : {"routed"}, plugin : PluginNames, method : Methods]
    \cup [at : {"run"}, plugin : PluginNames, method : Methods, by : Loaded]

PluginsTypeOK ==
    /\ manifests \in [PluginNames -> Manifests \cup {None}]
    /\ wasm \in [PluginNames -> Modules \cup {None}]
    /\ loaded \in [PluginNames -> Loaded \cup {None}]
    /\ job \in [Requests -> Job]
    /\ outdated \subseteq PluginNames
    /\ slipped \subseteq Requests

\* What the manifest says of a loaded plugin: set_enabled may have changed `enabled'.
AsLoaded(l) == IF l = None THEN None ELSE [l EXCEPT !.enabled = l.manifest.enabled]

\* After a reload the plugins are those on disk, manifest and module of each, and
\* one that does not load any more is gone (reload swaps the map). Reloads may
\* overlap and the one that ends last wins; a plugin whose files changed after
\* that one began may be an old one, or the manifest of one with the module of the
\* other.
LoadedIsOnDisk ==
    \A p \in PluginNames \ outdated :
        AsLoaded(loaded[p]) = LoadOne(manifests[p], wasm[p])

\* A plugin handles only the methods that the manifest of the version that runs
\* declares (dispatch looks them up, invoke takes the module), unless a reload
\* came between the two.
MethodsAreDeclared ==
    \A r \in Requests \ slipped :
        LET j == job[r] IN
        j.at = "run" => j.by.manifest.methods = {} \/ j.method \in j.by.manifest.methods

\* "Enable a plugin so it accepts HTTP traffic" (routes/admin/plugins.rs): an
\* enabled plugin runs a module of its own, and not the placeholder that load_one
\* compiles for a disabled manifest.
EnabledHasItsModule ==
    \A p \in PluginNames :
        loaded[p] # None /\ loaded[p].enabled => loaded[p].module # Placeholder
=============================================================================
