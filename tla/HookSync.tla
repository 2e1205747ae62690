------------------------------- MODULE HookSync -------------------------------
(***************************************************************************)
(* The hooks of the two agents, in files that YOS shares with the user:    *)
(* ~/yos/.claude/settings.json (cli/lib/sync-settings-hooks) and Codex's   *)
(* hooks.json with the trust Codex has in it (cli/lib/codex-hooks).        *)
(*                                                                         *)
(* A hook is its key (hookScriptKey: script and shard) and the version of  *)
(* its command; a key says whose the hook is.  Files are written in place: *)
(* a writer that dies leaves one that cannot be parsed.  The /exit that a  *)
(* sync enqueues for the running agent is a control of C4Queues, and the   *)
(* keys of the settings that are only filled in are left out.              *)
(***************************************************************************)
EXTENDS Naturals, FiniteSets, SequencesExt, Lists

CONSTANTS
  LastTemplate,     \* the releases of YOS are 1..LastTemplate
  KeptBackups,      \* backups of the settings that are kept
  MaxChanges,       \* bound on the changes the user makes
  MaxSyncs,         \* bound on the syncs
  MaxTears          \* bound on the writers that die

ASSUME HooksAssumption == KeptBackups \in Nat \ {0}

VARIABLES
  settings,         \* the file of Claude Code: can it be parsed, groups of hooks, model
  backups,          \* its backups, the newest first
  threshold,        \* new_session_threshold of config.json, 0 when it is not there
  sync,             \* a run of sync-settings-hooks
  template,         \* the release that is installed
  claims,           \* a component claims its own hook of earlier days
  owned,            \* the hooks that the user has added ...
  excused,          \* ... and those of them that a writer could not know of
  codex,            \* hooks.json: can it be parsed, the hooks in their order
  codexConfig,      \* ~/.codex/config.toml: can it be parsed, hooks on, trusted hooks
  projectHooks,     \* the project's config.toml has hooks on
  trust,            \* hooks.trust.json: what was trusted, under which version of Codex
  version,          \* the version of Codex
  launch,           \* a launch of Codex
  writing,          \* a run of writeCodexConfig
  used              \* changes, syncs and deaths so far, and whether a death tore pairs apart

claudeVars == <<settings, backups, threshold, sync, template, claims, owned, excused>>
codexVars == <<codex, codexConfig, projectHooks, trust, version, launch, writing>>
hookVars == <<claudeVars, codexVars, used>>

Hook(who, n, v) == [who |-> who, n |-> n, v |-> v]
Key(h) == <<h.who, h.n>>

\* desiredSessionStartHooks: the shards of a release, and one hook of every release.
Desired(r) == <<Hook("core", 0, r), Hook("core", r, r)>>
IsCoreManaged(h) == h.who = "core"
Keys(hooks) == {Key(hooks[i]): i \in DOMAIN hooks}

NoSync == [at |-> "none", read |-> <<>>, ok |-> TRUE, late |-> {}, backfill |-> FALSE]

HooksInit ==
  /\ settings = [ok |-> TRUE, groups |-> <<>>, model |-> "none"] /\ backups = <<>>
  /\ threshold \in {0, 70} /\ sync = NoSync /\ template = 1 /\ claims = FALSE
  /\ owned = {} /\ excused = {}
  /\ codex = [ok |-> TRUE, hooks |-> <<>>]
  /\ codexConfig = [ok |-> TRUE, on |-> FALSE, trusted |-> {}]
  /\ projectHooks = FALSE /\ trust = <<>> /\ version = 1
  /\ launch = [at |-> "none", listed |-> <<>>, raced |-> FALSE, skips |-> {}]
  /\ writing = "none"
  /\ used = [changes |-> 0, syncs |-> 0, tears |-> 0, halved |-> FALSE, raced |-> FALSE]

Use(field, bound) == used[field] < bound /\ used' = [used EXCEPT ![field] = @ + 1]

-----------------------------------------------------------------------------
(* ~/yos/.claude/settings.json *)

\* The hooks of a group, each desired one in place of the first of its key, and
\* those that are missing behind.
WithDesired(hooks, desired) ==
  LET first(j) == \A i \in 1..(j - 1): Key(hooks[i]) # Key(hooks[j])
      place(j) == {d \in ToSet(desired): Key(d) = Key(hooks[j]) /\ first(j)}
  IN [j \in DOMAIN hooks |-> IF place(j) = {} THEN hooks[j] ELSE CHOOSE d \in place(j): TRUE]
     \o Those(desired, {d \in ToSet(desired): Key(d) \notin Keys(hooks)})

\* The forward pass: the first group of the matcher, or a new one.
Forward(groups, desired) ==
  LET at == {i \in DOMAIN groups: groups[i].matcher = "startup"}
  IN IF at = {} THEN Append(groups, [matcher |-> "startup", hooks |-> desired])
     ELSE LET i == CHOOSE j \in at: \A k \in at: j <= k
          IN [groups EXCEPT ![i].hooks = WithDesired(@, desired)]

\* Mutant: what the template does not have goes, whoever it belongs to.
StaysInTemplate(h, matcher, desired) == matcher = "startup" /\ Key(h) \in Keys(desired)

\* The reverse pass lets go of core hooks that the template's group has not, and
\* of what a component claims.
Stays(h, matcher, desired) ==
  \/ ~IsCoreManaged(h) /\ ~(claims /\ h.who = "legacy")
  \/ matcher = "startup" /\ Key(h) \in Keys(desired)

WithoutObsolete(groups, desired) ==
  LET left(g) == [g EXCEPT !.hooks = Those(@, {h \in ToSet(@): Stays(h, g.matcher, desired)})]
      all == [i \in DOMAIN groups |-> left(groups[i])]
  IN Those(all, {g \in ToSet(all): g.hooks # <<>>})

Synced(groups) == WithoutObsolete(Forward(groups, Desired(template)), Desired(template))

\* syncTemplateModelSetting: a model is only filled in, without [1m] where the
\* threshold on record is too high for it.
SyncedModel ==
  IF sync.read.model # "none" THEN sync.read.model ELSE IF threshold > 30 THEN "plain" ELSE "1m"

\* Codex's configuration, which a sync also brings up to date, is WriteCodexConfig.
SyncReads ==
  /\ sync = NoSync /\ Use("syncs", MaxSyncs)
  /\ sync' = [NoSync EXCEPT !.at = "backup", !.ok = settings.ok,
                !.read = IF settings.ok THEN settings ELSE [ok |-> TRUE, groups |-> <<>>, model |-> "none"]]
  /\ UNCHANGED <<settings, backups, threshold, template, claims, owned, excused, codexVars>>

\* persistInstalledSettings: a file without a change is not written, ...
SyncBacksUp ==
  /\ sync.at = "backup"
  /\ IF Synced(sync.read.groups) = sync.read.groups /\ SyncedModel = sync.read.model
     THEN sync' = NoSync /\ UNCHANGED backups
     ELSE /\ sync' = [sync EXCEPT !.at = "write", !.backfill = SyncedModel # sync.read.model]
          /\ backups' = <<settings>> \o backups
  /\ UNCHANGED <<settings, threshold, template, claims, owned, excused, codexVars, used>>

\* ... and what the user changed since the file was read is written over.
SyncWrites ==
  /\ sync.at = "write" /\ sync' = [sync EXCEPT !.at = "prune"]
  /\ settings' = [ok |-> TRUE, groups |-> Synced(sync.read.groups), model |-> SyncedModel]
  /\ excused' = excused \cup (IF sync.ok THEN sync.late ELSE owned)
  /\ UNCHANGED <<backups, threshold, template, claims, owned, codexVars, used>>

\* A write that fails puts the backup back and ends the sync.
SyncWriteFails ==
  /\ sync.at = "write" /\ Use("tears", MaxTears) /\ sync' = NoSync
  /\ settings' = Head(backups)
  /\ excused' = excused \cup sync.late
  /\ UNCHANGED <<backups, threshold, template, claims, owned, codexVars>>

PruneOldBackups ==
  /\ sync.at = "prune" /\ sync' = [sync EXCEPT !.at = "threshold"]
  /\ backups' = SubSeq(backups, 1, IF Len(backups) < KeptBackups THEN Len(backups) ELSE KeptBackups)
  /\ UNCHANGED <<settings, threshold, template, claims, owned, excused, codexVars, used>>

\* syncModelCoupledNewSessionThreshold, and the end of the sync
CoupleThreshold ==
  /\ sync.at = "threshold" /\ sync' = NoSync
  /\ threshold' = IF sync.backfill /\ threshold = 0 THEN 30 ELSE threshold
  /\ UNCHANGED <<settings, backups, template, claims, owned, excused, codexVars, used>>

SyncDies ==
  /\ sync # NoSync /\ used.tears < MaxTears
  /\ used' = [used EXCEPT !.tears = @ + 1, !.halved = @ \/ (sync.backfill /\ sync.at # "write")]
  /\ sync' = NoSync
  /\ settings' = [settings EXCEPT !.ok = @ /\ sync.at # "write"]
  /\ UNCHANGED <<backups, threshold, template, claims, owned, excused, codexVars>>

\* The user adds a hook: in a group of his own at either end, or among others.
AddHook ==
  /\ settings.ok /\ Use("changes", MaxChanges)
  /\ LET h == Hook("mine", used.changes, 0)
         g == settings.groups
     IN /\ \E matcher \in {"startup", "other"}, front \in BOOLEAN, i \in {0} \cup DOMAIN g:
             settings' = [settings EXCEPT !.groups =
               IF i # 0 THEN [g EXCEPT ![i].hooks = IF front THEN <<h>> \o @ ELSE Append(@, h)]
               ELSE IF front THEN <<[matcher |-> matcher, hooks |-> <<h>>]>> \o g
               ELSE Append(g, [matcher |-> matcher, hooks |-> <<h>>])]
        /\ owned' = owned \cup {h}
        /\ sync' = IF sync = NoSync THEN sync ELSE [sync EXCEPT !.late = @ \cup {h}]
  /\ UNCHANGED <<backups, threshold, template, claims, excused, codexVars>>

\* The user changes a command of YOS's, which is taken back, or chooses a model.
ChangeHook ==
  /\ settings.ok /\ Use("changes", MaxChanges) /\ sync = NoSync
  /\ \/ settings' = [settings EXCEPT !.model = "user"]
     \/ \E i \in DOMAIN settings.groups: \E j \in DOMAIN settings.groups[i].hooks:
          /\ IsCoreManaged(settings.groups[i].hooks[j])
          /\ settings' = [settings EXCEPT !.groups[i].hooks[j].v = 0]
  /\ UNCHANGED <<backups, threshold, sync, template, claims, owned, excused, codexVars>>

\* A component installs a hook of its own; a later version of it has a shard
\* instead and claims that hook.
ComponentHooks ==
  /\ settings.ok /\ sync = NoSync /\ Use("changes", MaxChanges)
  /\ \/ ~claims /\ claims' = TRUE /\ UNCHANGED settings
     \/ /\ ~claims /\ UNCHANGED claims
        /\ settings' = [settings EXCEPT !.groups =
                          Append(@, [matcher |-> "startup", hooks |-> <<Hook("legacy", 0, 0)>>])]
  /\ UNCHANGED <<backups, threshold, sync, template, owned, excused, codexVars>>

NewTemplate ==
  /\ sync = NoSync /\ template < LastTemplate /\ template' = template + 1
  /\ UNCHANGED <<settings, backups, threshold, sync, claims, owned, excused, codexVars, used>>

ClaudeHooksNext ==
  \/ SyncReads \/ SyncBacksUp \/ SyncWrites \/ SyncWriteFails \/ PruneOldBackups
  \/ CoupleThreshold \/ SyncDies \/ AddHook \/ ChangeHook \/ ComponentHooks \/ NewTemplate

-----------------------------------------------------------------------------
(* Codex: hooks.json and the trust that Codex has in it *)

CoreCodexHook == Hook("core", 0, template)
NoTrust == <<>>

\* hooks.json with the release's hooks as its last group, the user's as they were.
WithCoreHook ==
  LET there == IF codex.ok THEN codex.hooks ELSE <<>>
  IN Append(Those(there, {h \in ToSet(there): ~IsCoreManaged(h)}), CoreCodexHook)

\* A file that cannot be parsed is begun anew: nothing of the user's is left of it.
ConfigRead ==
  IF codexConfig.ok THEN codexConfig ELSE [ok |-> TRUE, on |-> FALSE, trusted |-> {}]

\* writeCodexConfig, for init, a switch of the runtime, an upgrade or a sync: the
\* project's config.toml, the one of the user, hooks.json.
WriteCodexConfig ==
  \/ /\ writing = "none" /\ Use("syncs", MaxSyncs) /\ writing' = "global" /\ projectHooks' = TRUE
     /\ UNCHANGED <<codex, codexConfig, launch>>
  \/ /\ writing = "global" /\ writing' = "hooks" /\ codexConfig' = [ConfigRead EXCEPT !.on = TRUE]
     /\ UNCHANGED <<codex, projectHooks, launch, used>>
  \/ /\ writing = "hooks" /\ writing' = "none" /\ codex' = [ok |-> TRUE, hooks |-> WithCoreHook]
     /\ launch' = [launch EXCEPT !.raced = launch.at \in {"list", "write", "mark"} /\ (@ \/ codex' # codex)]
     /\ UNCHANGED <<codexConfig, projectHooks, used>>

WriterTears ==
  /\ Use("tears", MaxTears)
  /\ excused' = IF writing = "hooks" THEN owned ELSE excused
  /\ \/ writing # "none" /\ writing' = "none" /\ UNCHANGED launch
        /\ codexConfig' = [codexConfig EXCEPT !.ok = @ /\ writing # "global"]
        /\ codex' = [codex EXCEPT !.ok = @ /\ writing # "hooks"]
     \/ launch.at \notin {"none", "runs"} /\ launch' = [launch EXCEPT !.at = "none"]
        /\ UNCHANGED <<writing, codex, codexConfig>>
  /\ UNCHANGED <<projectHooks, trust, version>>
  /\ UNCHANGED <<settings, backups, threshold, sync, template, claims, owned>>

\* Mutant: a marker is valid whatever has become of the hooks.
TrustOutlivesHooks ==
  /\ codex.ok /\ projectHooks /\ codexConfig.ok /\ codexConfig.on /\ trust # NoTrust
  /\ trust.version = version /\ trust.snapshot = codexConfig.trusted

\* isCodexTrustValid: the marker was written for these hooks, this Codex and what
\* Codex trusts by now.
IsCodexTrustValid ==
  /\ codex.ok /\ projectHooks /\ codexConfig.ok /\ codexConfig.on /\ trust # NoTrust
  /\ trust.hooks = codex.hooks /\ trust.version = version /\ trust.snapshot = codexConfig.trusted

At(hooks) == {<<i, hooks[i]>>: i \in DOMAIN hooks}
\* Codex is started; it skips, without a word, the hooks that it does not trust.
Runs(l) == [l EXCEPT !.at = "runs", !.skips = At(codex.hooks) \ codexConfig.trusted]

\* ensureCodexHooksTrusted, as Codex is launched: the hooks of the release first, ...
LaunchInstalls ==
  /\ launch.at \in {"none", "runs"} /\ Use("syncs", MaxSyncs)
  /\ launch' = [launch EXCEPT !.at = "valid", !.raced = FALSE]
  /\ codex' = [ok |-> TRUE, hooks |-> WithCoreHook]
  /\ UNCHANGED <<codexConfig, projectHooks, trust, version, writing, claudeVars>>

LaunchChecksTrust ==
  /\ launch.at = "valid"
  /\ launch' = IF IsCodexTrustValid THEN Runs(launch) ELSE [launch EXCEPT !.at = "features"]
  /\ UNCHANGED <<codex, codexConfig, projectHooks, trust, version, writing, used, claudeVars>>

LaunchEnablesHooks ==
  /\ launch.at = "features" /\ launch' = [launch EXCEPT !.at = "list"]
  /\ projectHooks' = TRUE /\ codexConfig' = [ConfigRead EXCEPT !.on = TRUE]
  /\ UNCHANGED <<codex, trust, version, writing, used, claudeVars>>

\* ... then Codex's app-server is asked for the hooks it sees, the user's among
\* them, and told to trust them; it writes its own configuration.  It can fail.
AppServerLists ==
  /\ launch.at = "list"
  /\ IF codex.ok /\ codexConfig.ok
     THEN launch' = [launch EXCEPT !.at = "write", !.listed = codex.hooks]
     ELSE launch' = [launch EXCEPT !.at = "none"]
  /\ UNCHANGED <<codex, codexConfig, projectHooks, trust, version, writing, used, claudeVars>>

AppServerTrusts ==
  /\ launch.at = "write"
  /\ IF codexConfig.ok
     THEN /\ launch' = [launch EXCEPT !.at = "mark"]
          /\ codexConfig' = [codexConfig EXCEPT !.trusted =
               {t \in @: t[1] \notin DOMAIN launch.listed} \cup At(launch.listed)]
     ELSE launch' = [launch EXCEPT !.at = "none"] /\ UNCHANGED codexConfig
  /\ UNCHANGED <<codex, projectHooks, trust, version, writing, used, claudeVars>>

\* The marker is written for the hooks as they are now, which need not be those
\* that Codex listed (used.raced).
LaunchMarks ==
  /\ launch.at = "mark"
  /\ IF codexConfig.ok /\ codexConfig.trusted # {}
     THEN /\ trust' = [hooks |-> codex.hooks, version |-> version, snapshot |-> codexConfig.trusted]
          /\ launch' = Runs(launch)
          /\ used' = [used EXCEPT !.raced = launch.raced]
     ELSE launch' = [launch EXCEPT !.at = "none"] /\ UNCHANGED <<trust, used>>
  /\ UNCHANGED <<codex, codexConfig, projectHooks, version, writing, claudeVars>>

\* The user adds a hook in front, or Codex is updated.
CodexChanges ==
  /\ Use("changes", MaxChanges)
  /\ \/ version' = version + 1 /\ UNCHANGED <<codex, launch, owned>>
     \/ /\ codex.ok /\ UNCHANGED version
        /\ codex' = [codex EXCEPT !.hooks = <<Hook("mine", used.changes, 0)>> \o @]
        /\ owned' = owned \cup {Hook("mine", used.changes, 0)}
        /\ launch' = [launch EXCEPT !.raced = TRUE]
  /\ UNCHANGED <<codexConfig, projectHooks, trust, writing>>
  /\ UNCHANGED <<settings, backups, threshold, sync, template, claims, excused>>

CodexHooksNext ==
  \/ WriteCodexConfig /\ UNCHANGED <<trust, version, claudeVars>>
  \/ WriterTears \/ LaunchInstalls \/ LaunchChecksTrust \/ LaunchEnablesHooks
  \/ AppServerLists \/ AppServerTrusts \/ LaunchMarks \/ CodexChanges

HooksNext == ClaudeHooksNext \/ CodexHooksNext
HooksSpec == HooksInit /\ [][HooksNext]_hookVars

-----------------------------------------------------------------------------
(* Properties *)

HooksOf(groups) == UNION {ToSet(groups[i].hooks): i \in DOMAIN groups}

\* Whatever is synced, claimed and upgraded, the user's own hooks stay, but for
\* what a file that a death tore had, and what came after the file was read.
UserHooksKept ==
  settings.ok =>
    \A h \in owned \ excused: h \in HooksOf(settings.groups) \cup ToSet(codex.hooks)

\* A sync leaves the hooks of its release and no other core hook; each of them
\* once, unless the user has put a group of his own before YOS's.
CoreHooksInPlace ==
  sync.at = "prune" =>
    LET core == {h \in HooksOf(settings.groups): IsCoreManaged(h)}
        startup == {i \in DOMAIN settings.groups: settings.groups[i].matcher = "startup"}
    IN /\ {Key(h): h \in core} = Keys(Desired(template))
       /\ Cardinality(startup) = 1 => core = ToSet(Desired(template))

\* A model with a million tokens of context comes with the threshold it needs,
\* unless the sync died between the two.
ModelFitsThreshold ==
  sync = NoSync /\ settings.ok /\ settings.model = "1m" => threshold \in 1..30 \/ used.halved

\* Codex is started only with hooks that it trusts, each in its place, so that
\* none of them is skipped in silence, unless hooks.json was written between
\* the app-server's look at it and the marker's.
TrustIsReal == launch.at = "runs" /\ ~used.raced => launch.skips = {}

HooksInForce == UserHooksKept /\ CoreHooksInPlace /\ ModelFitsThreshold /\ TrustIsReal
=============================================================================
