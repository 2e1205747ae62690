------------------------------ MODULE Credentials ------------------------------
(***************************************************************************)
(* Credentials that YOS writes into files of the agents (runtime-setup,    *)
(* claude-credentials, and their callers in init, runtime, claude and      *)
(* self-uninstall).                                                        *)
(*                                                                         *)
(* A credential goes to ~/.claude/settings.json first and to ~/yos/.env,   *)
(* the receipt of what YOS wrote, later; an uninstall takes back what      *)
(* equals the receipt.  Between the two the run can die, a write can fail, *)
(* and the user changes either file.  Whether Claude counts as logged in,  *)
(* and what an endpoint answers, is a choice.                              *)
(***************************************************************************)
EXTENDS Naturals, FiniteSets

CONSTANTS
  Values,           \* credentials and addresses that are handed to YOS
  Own,              \* a value of the user's
  NoValue,
  MaxJobs,          \* bound on the runs of init, runtime and uninstall
  MaxOwnEdits,      \* bound on the changes the user makes
  MaxBreaks         \* bound on the runs that die and the writes that fail

ASSUME CredentialsAssumption == NoValue \notin Values \cup {Own}

EnvKeys == {"ANTHROPIC_API_KEY", "CLAUDE_CODE_OAUTH_TOKEN", "ANTHROPIC_BASE_URL"}
KEY == "ANTHROPIC_API_KEY"
TOKEN == "CLAUDE_CODE_OAUTH_TOKEN"
URL == "ANTHROPIC_BASE_URL"

VARIABLES
  claude,           \* settings.json: can it be parsed, env, who wrote each key, terms accepted
  receipt,          \* ~/yos/.env
  approved,         \* the keys that ~/.claude.json approves of
  codexAuth,        \* the key in ~/.codex/auth.json
  job,              \* the run of yos init, yos runtime or yos uninstall
  given,            \* all values that YOS was ever handed
  owed,             \* keys that YOS wrote and has no receipt of
  counts            \* jobs, edits and breaks so far

credentialVars == <<claude, receipt, approved, codexAuth, job, given, owed, counts>>

Nothing == [k \in EnvKeys |-> NoValue]
Blank == [ok |-> TRUE, env |-> Nothing, by |-> [k \in EnvKeys |-> "none"], terms |-> FALSE]
NoJob == [at |-> "none", kind |-> "none", key |-> KEY, value |-> NoValue, url |-> NoValue,
          pending |-> FALSE, before |-> Blank, taken |-> {}, failed |-> {}]

CredentialsInit ==
  /\ claude = Blank /\ receipt = Nothing /\ approved = {} /\ codexAuth = NoValue
  /\ job = NoJob /\ given = {} /\ owed = {}
  /\ counts = [jobs |-> 0, edits |-> 0, breaks |-> 0]

Count(c, bound) == counts[c] < bound /\ counts' = [counts EXCEPT ![c] = @ + 1]
JobAt(kinds, step) == job.kind \in kinds /\ job.at = step
JobGoes(step) == job' = [job EXCEPT !.at = step]

\* A file that cannot be parsed is taken for empty and written anew.
ClaudeRead == IF claude.ok THEN claude ELSE Blank
Saved(k, v) == [ClaudeRead EXCEPT !.env[k] = v, !.by[k] = "yos"]
Deleted(file, k) == [file EXCEPT !.env[k] = NoValue, !.by[k] = "none"]

\* A write of the settings that fails leaves them as they were, or torn.
SettingsFail == Count("breaks", MaxBreaks) /\ claude' \in {claude, [claude EXCEPT !.ok = FALSE]}

-----------------------------------------------------------------------------
(* Init, and a switch of the runtime *)

\* A login that works is left alone; else what the user names or is asked for,
\* else what the receipt holds, the token before the key (resolveFromEnv).
StartClaude ==
  /\ job = NoJob /\ Count("jobs", MaxJobs)
  /\ \E kind \in {"init", "runtime"}, k \in {KEY, TOKEN}, v, url \in Values \cup {Own, NoValue}:
       LET stored == IF receipt[TOKEN] # NoValue THEN TOKEN ELSE KEY
           named == v # NoValue
           key == IF named \/ kind = "runtime" THEN k ELSE stored
           value == IF named \/ kind = "runtime" THEN v ELSE receipt[stored]
       IN \E authenticated \in BOOLEAN:
            /\ given' = given \cup ({v, url} \ {NoValue})
            /\ job' = [NoJob EXCEPT !.kind = kind, !.key = key, !.url = url, !.value = value,
                 !.at = IF value = NoValue \/ (authenticated /\ kind = "init") THEN "terms"
                        ELSE IF kind = "init" /\ key = KEY THEN "verify" ELSE "save"]
  /\ UNCHANGED <<claude, receipt, approved, codexAuth, owed>>

\* decideCredentialOutcome: a key that is refused is not saved, one that could not
\* be verified is.
VerifyApiKey ==
  /\ JobAt({"init"}, "verify")
  /\ \E outcome \in {"verified", "save-unverified", "refuse"}:
       JobGoes(IF outcome = "refuse" THEN "terms" ELSE "save")
  /\ UNCHANGED <<claude, receipt, approved, codexAuth, given, owed, counts>>

\* saveApiKey, saveSetupToken: a token takes the place of a key.
SaveCredential ==
  /\ JobAt({"init", "runtime"}, "save")
  /\ claude' = IF job.key = TOKEN THEN Deleted(Saved(TOKEN, job.value), KEY) ELSE Saved(KEY, job.value)
  /\ approved' = approved \cup {job.value}
  /\ job' = [job EXCEPT !.pending = TRUE,
               !.at = IF job.kind = "runtime" THEN "receipt" ELSE IF job.key = TOKEN THEN "try" ELSE "terms"]
  /\ UNCHANGED <<receipt, codexAuth, given, owed, counts>>

\* Init goes on without what could not be saved; a switch ends there (JobDies).
SaveFails ==
  /\ JobAt({"init"}, "save") /\ SettingsFail /\ JobGoes("terms")
  /\ UNCHANGED <<receipt, approved, codexAuth, given, owed>>

\* verifySetupToken asks Claude itself; rollbackSetupToken takes the token out
\* again, without what it had displaced.
TrySetupToken ==
  /\ JobAt({"init"}, "try")
  /\ \/ UNCHANGED claude /\ JobGoes("terms")
     \/ claude.ok /\ claude' = Deleted(claude, TOKEN)
        /\ job' = [job EXCEPT !.at = "terms", !.pending = FALSE]
  /\ UNCHANGED <<receipt, approved, codexAuth, given, owed, counts>>

\* A token that is refused and cannot be taken out again never gets a receipt.
RollbackFails ==
  /\ JobAt({"init"}, "try") /\ SettingsFail
  /\ job' = [job EXCEPT !.at = "terms", !.pending = FALSE]
  /\ owed' = owed \cup {TOKEN}
  /\ UNCHANGED <<receipt, approved, codexAuth, given>>

\* preAcceptClaudeTerms
PreAcceptTerms ==
  /\ JobAt({"init", "runtime"}, "terms") /\ JobGoes("receipt")
  /\ claude' = IF job.kind = "init" /\ ~claude.terms THEN [ClaudeRead EXCEPT !.terms = TRUE] ELSE claude
  /\ UNCHANGED <<receipt, approved, codexAuth, given, owed, counts>>

\* saveApiKeyToEnv, saveSetupTokenToEnv, which takes the key's line out
WithReceipt ==
  IF job.key = TOKEN THEN [receipt EXCEPT ![TOKEN] = job.value, ![KEY] = NoValue]
  ELSE [receipt EXCEPT ![KEY] = job.value]

\* A write that fails is passed over.
WriteReceipt ==
  /\ JobAt({"init", "runtime"}, "receipt")
  /\ job' = [job EXCEPT !.at = "url", !.pending = FALSE]
  /\ \/ ~job.pending /\ UNCHANGED <<receipt, owed, counts>>
     \/ job.pending /\ receipt' = WithReceipt /\ owed' = owed \ {job.key} /\ UNCHANGED counts
     \/ job.pending /\ Count("breaks", MaxBreaks) /\ owed' = owed \cup {job.key} /\ UNCHANGED receipt
  /\ UNCHANGED <<claude, approved, codexAuth, given>>

\* saveClaudeBaseUrlToSettingsAndEnv
SaveBaseUrl ==
  /\ JobAt({"init", "runtime"}, "url")
  /\ IF job.url = NoValue THEN job' = NoJob /\ UNCHANGED claude
     ELSE JobGoes("url receipt") /\ claude' = Saved(URL, job.url)
  /\ UNCHANGED <<receipt, approved, codexAuth, given, owed, counts>>

WriteUrlReceipt ==
  /\ JobAt({"init", "runtime"}, "url receipt") /\ job' = NoJob
  /\ \/ receipt' = [receipt EXCEPT ![URL] = job.url] /\ owed' = owed \ {URL} /\ UNCHANGED counts
     \/ Count("breaks", MaxBreaks) /\ owed' = owed \cup {URL} /\ UNCHANGED receipt
  /\ UNCHANGED <<claude, approved, codexAuth, given>>

\* saveCodexApiKey: a key for Codex goes to auth.json; its receipt is never written
\* (init) or not at all (runtime), and an uninstall leaves it.
SaveCodexKey ==
  /\ job = NoJob /\ Count("jobs", MaxJobs)
  /\ \E v \in Values, outcome \in {"verified", "save-unverified", "refuse"}:
       codexAuth' = IF outcome = "refuse" THEN codexAuth ELSE v
  /\ UNCHANGED <<claude, receipt, approved, job, given, owed>>

\* A launch hands the receipt's credentials to Claude, and approves of them,
\* unless Claude has a login of its own.
LaunchApproves ==
  /\ job = NoJob
  /\ approved' = approved \cup ({receipt[KEY], receipt[TOKEN]} \ {NoValue})
  /\ claude' = IF claude.terms THEN claude ELSE [ClaudeRead EXCEPT !.terms = TRUE]
  /\ UNCHANGED <<receipt, codexAuth, job, given, owed, counts>>

-----------------------------------------------------------------------------
(* yos uninstall --self *)

StartUninstall ==
  /\ job = NoJob /\ Count("jobs", MaxJobs)
  /\ job' = [NoJob EXCEPT !.kind = "uninstall", !.at = "reclaim", !.before = claude]
  /\ UNCHANGED <<claude, receipt, approved, codexAuth, given, owed>>

\* Mutant: what has a receipt is taken back, whatever it has become since.
ReclaimsByName == {k \in EnvKeys: claude.env[k] # NoValue /\ receipt[k] # NoValue}

Reclaimed == {k \in EnvKeys: claude.env[k] # NoValue /\ claude.env[k] = receipt[k]}

\* What settings.json is once they are out of it.
WithoutReclaimed ==
  [claude EXCEPT !.env = [k \in EnvKeys |-> IF k \in Reclaimed THEN NoValue ELSE @[k]],
                 !.by = [k \in EnvKeys |-> IF k \in Reclaimed THEN "none" ELSE @[k]]]

\* reclaimClaudeCredentials
ReclaimCredentials ==
  /\ JobAt({"uninstall"}, "reclaim")
  /\ IF claude.ok THEN /\ claude' = WithoutReclaimed
                       /\ job' = [job EXCEPT !.at = "forget", !.taken = Reclaimed]
     ELSE JobGoes("forget") /\ UNCHANGED claude
  /\ UNCHANGED <<receipt, approved, codexAuth, given, owed, counts>>

\* Settings that cannot be written: nothing is taken, and nothing is said to be.
ReclaimFails ==
  /\ JobAt({"uninstall"}, "reclaim") /\ claude.ok /\ Reclaimed # {} /\ SettingsFail
  /\ job' = [job EXCEPT !.at = "forget", !.failed = {"settings"}]
  /\ UNCHANGED <<receipt, approved, codexAuth, given, owed>>

\* The credentials that were taken; an address is not approved.
TakenValues == {job.before.env[k]: k \in job.taken \ {URL}}

\* forgetApprovedCredentials; ~/.claude.json may not be read or written.
ForgetApproved ==
  /\ JobAt({"uninstall"}, "forget")
  /\ \/ approved' = approved \ TakenValues /\ JobGoes("reclaimed") /\ UNCHANGED counts
     \/ /\ TakenValues # {} /\ Count("breaks", MaxBreaks) /\ UNCHANGED approved
        /\ job' = [job EXCEPT !.at = "reclaimed", !.failed = @ \cup {"approvals"}]
  /\ UNCHANGED <<claude, receipt, codexAuth, given, owed>>

\* What the user asks for is deleted: Claude with its files, Codex with its, and
\* ~/yos with the receipt.
FinishUninstall ==
  /\ JobAt({"uninstall"}, "reclaimed") /\ job' = NoJob
  /\ \E removeClaude, removeCodex, removeData \in BOOLEAN:
       /\ claude' = IF removeClaude THEN Blank ELSE claude
       /\ codexAuth' = IF removeCodex THEN NoValue ELSE codexAuth
       /\ receipt' = IF removeData THEN Nothing ELSE receipt
       /\ owed' = IF removeClaude THEN {} ELSE IF removeData THEN EnvKeys ELSE owed
  /\ UNCHANGED <<approved, given, counts>>

-----------------------------------------------------------------------------
(* The user, and what breaks *)

\* The user sets a key of the settings, or takes one out, ...
OwnSetting ==
  /\ claude.ok /\ Count("edits", MaxOwnEdits) /\ job.kind # "uninstall"
  /\ \E k \in EnvKeys: \/ claude' = [claude EXCEPT !.env[k] = Own, !.by[k] = "user"]
                       \/ claude' = Deleted(claude, k)
  /\ UNCHANGED <<receipt, approved, codexAuth, job, given, owed>>

\* ... or edits the receipt, which then tells nothing of what YOS wrote.
OwnReceipt ==
  /\ Count("edits", MaxOwnEdits) /\ job.kind # "uninstall"
  /\ \E k \in EnvKeys, v \in {Own, NoValue}:
       receipt' = [receipt EXCEPT ![k] = v] /\ owed' = owed \cup {k} /\ given' = given \cup ({v} \ {NoValue})
  /\ UNCHANGED <<claude, approved, codexAuth, job>>

\* A run that dies leaves the file it was writing torn, and without a receipt
\* what it has saved.
JobDies ==
  /\ job # NoJob /\ Count("breaks", MaxBreaks)
  /\ \E torn \in BOOLEAN:
       claude' = [claude EXCEPT !.ok = @ /\ ~(torn /\ job.at \in {"save", "try", "terms", "url", "reclaim"})]
  /\ owed' = owed \cup (IF job.pending THEN {job.key} ELSE {})
                  \cup (IF job.at = "url receipt" THEN {URL} ELSE {})
  /\ job' = NoJob
  /\ UNCHANGED <<receipt, approved, codexAuth, given>>

CredentialsNext ==
  \/ StartClaude \/ VerifyApiKey \/ SaveCredential \/ SaveFails \/ TrySetupToken \/ RollbackFails
  \/ PreAcceptTerms \/ WriteReceipt
  \/ SaveBaseUrl \/ WriteUrlReceipt \/ SaveCodexKey \/ LaunchApproves \/ StartUninstall
  \/ ReclaimCredentials \/ ReclaimFails \/ ForgetApproved \/ FinishUninstall \/ OwnSetting \/ OwnReceipt \/ JobDies

CredentialsSpec == CredentialsInit /\ [][CredentialsNext]_credentialVars

-----------------------------------------------------------------------------
(* Properties *)

\* An uninstall takes nothing that is the user's alone: a value he never handed
\* to YOS is there as it was.
OwnValuesStay ==
  \A k \in EnvKeys: job.before.by[k] = "user" /\ job.before.env[k] \notin given =>
    claude.env[k] = job.before.env[k]

\* It takes all that YOS wrote last, but for what has no receipt.  Where the settings
\* cannot be written all of it is still there, with the receipt that shows whose it is.
ReclaimsAll ==
  \A k \in EnvKeys: claude.by[k] = "yos" =>
    k \in owed \/ ("settings" \in job.failed /\ claude.env[k] = receipt[k])

\* What it says it took is gone, and approved of no more unless the approvals could
\* not be written; after settings that could not be, it says that it took nothing.
SaysWhatItTook ==
  /\ \A k \in job.taken: claude.env[k] = NoValue
  /\ job.failed = {} => TakenValues \cap approved = {}
  /\ "settings" \in job.failed => job.taken = {}

ReclaimIsExact ==
  job.at = "reclaimed" /\ claude.ok => OwnValuesStay /\ ReclaimsAll /\ SaysWhatItTook
=============================================================================
