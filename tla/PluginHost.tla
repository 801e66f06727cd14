----------------------------- MODULE PluginHost -----------------------------
(***************************************************************************)
(* The settings that plugins read (plugin_host.rs): a copy of the system   *)
(* map that main.rs takes when it boots.                                   *)
(***************************************************************************)
EXTENDS Settings

VARIABLE exposed    \* RblogHost.settings

\* main.rs loads the map, and refresh_settings replaces the copy.
RefreshSettings == exposed' = Stored(System)

HostInit == SettingsInit /\ exposed = Stored(System)

HostNext ==
    \/ SettingsRestart /\ RefreshSettings
    \/ (\E r \in Requests : SettingsWork(r) \/ AbandonPut(r)) /\ UNCHANGED exposed

HostSpec == HostInit /\ [][HostNext]_<<settingsVars, exposed>>

\* "Replace the cached system settings snapshot. Called at boot and after admin
\* settings mutations" (refresh_settings): while nobody changes the map, plugins
\* read what is stored.
PluginsSeeTheSettings == Settled(System) => exposed = Stored(System)
=============================================================================
