--------------------------- MODULE SiteRegistration ---------------------------
(***************************************************************************)
(* scripts/register-baota-site.py: it registers the site with the panel of *)
(* a shared host, binds every listener of its Nginx to inner addresses,    *)
(* lets one container network through the firewall and starts Nginx.  Any  *)
(* step may fail, and then the script undoes what it has done; it may also *)
(* be killed anywhere, and it is run again, perhaps after the container    *)
(* network has changed.  The panel, ufw and Nginx are external.            *)
(*                                                                         *)
(* disk holds what the files say, each file by the one thing the script    *)
(* cares about: whom it listens to, or what it logs.                       *)
(***************************************************************************)
EXTENDS Integers, Sequences, FiniteSets

CONSTANTS
    Networks,   \* trustedCaddyNetwork with its interface: one ufw rule each
    Foreign,    \* a rule for the port that the script did not make
    MaxFaults,  \* bound: failures of a step
    MaxStarts   \* bound: starts of the script

ASSUME SiteAssumption == Foreign \notin Networks /\ {MaxFaults, MaxStarts} \subseteq Nat

VARIABLES
    disk,     \* the managed files
    panel,    \* the panel's tables: the site, its proxy, an opened port
    rules,    \* the ufw rules for the inner port
    nginx,    \* the process: running, under its unit, what it listens to and logs
    script,   \* the locals of main
    faults, starts,
    spoiled   \* an undo was interrupted, or one of its steps has failed

siteVars == <<disk, panel, rules, nginx, script, faults, starts, spoiled>>
world == <<disk, panel, rules, nginx>>

Files == {"config", "vhost", "default", "defaultOff", "status", "statusOff", "log"}
\* managedPaths, the order in which restoreFiles writes them back
Managed == <<"config", "vhost", "default", "defaultOff", "status", "statusOff", "log">>

\* What a configuration listens to; "inner" and "loopback" are the two it may.
Endpoints(d) ==
    {IF d["config"] = "public" THEN "888" ELSE "loopback"}
        \union (IF d["default"] = "file" \/ d["status"] = "file" THEN {"80"} ELSE {})
        \union (IF d["vhost"] = "none" THEN {}
                ELSE IF d["vhost"] = "public" THEN {"18080"} ELSE {"inner"})
Closed(d) == Endpoints(d) = {"loopback", "inner"}

Loaded(d, n) == [n EXCEPT !.listens = Endpoints(d), !.logs = d["log"]]

NoScript == [pc |-> "idle", expected |-> Foreign, wasRunning |-> FALSE, snapshot |-> <<>>,
         before |-> {}, mutated |-> FALSE, restored |-> 0]

SiteInit ==
    /\ disk = [f \in Files |->
                  CASE f = "config" -> "public" [] f \in {"default", "status"} -> "file"
                    [] OTHER -> "none"]
    /\ panel = [site |-> FALSE, proxy |-> FALSE, opened |-> FALSE]
    /\ rules = {}
    /\ nginx \in {[running |-> up, unit |-> up, listens |-> IF up THEN Endpoints(disk) ELSE {},
                   logs |-> "none"] : up \in BOOLEAN}
    /\ script = NoScript /\ faults = 0 /\ starts = 0 /\ spoiled = FALSE

AtStep(pc) == script.pc = pc
GotoStep(pc) == script' = [script EXCEPT !.pc = pc]
Write(file, content) == disk' = [disk EXCEPT ![file] = content]

-----------------------------------------------------------------------------
(* Registration.                                                           *)

\* addSite opens the port in the panel's firewall as it likes.
Begin(network) ==
    /\ AtStep("idle")
    /\ starts < MaxStarts
    /\ starts' = starts + 1
    /\ script' = [NoScript EXCEPT !.pc = "clean", !.expected = network, !.wasRunning = nginx.running,
                              !.before = rules]
    /\ IF panel.site THEN UNCHANGED <<disk, panel>>
       ELSE /\ Write("vhost", "public")
            /\ \E opened \in BOOLEAN : panel' = [panel EXCEPT !.site = TRUE, !.opened = opened]
    /\ UNCHANGED <<rules, nginx, faults, spoiled>>

\* removeOwnedFirewallRules, assertInternalPortClosed, snapshotFiles.
CleanUp ==
    /\ AtStep("clean")
    /\ panel' = [panel EXCEPT !.opened = FALSE]
    /\ script' = IF Foreign \in rules THEN [script EXCEPT !.pc = "idle"]
                 ELSE [script EXCEPT !.pc = "default", !.snapshot = disk]
    /\ UNCHANGED <<disk, rules, nginx, faults, starts, spoiled>>

Undo == IF script.mutated THEN "undoAdd" ELSE "restore"

\* A step of the try block: it refuses what it does not expect, and may fail.
Try(pc, next, expected, content) ==
    /\ AtStep(pc)
    /\ IF expected THEN disk' = content /\ GotoStep(next) ELSE GotoStep(Undo) /\ UNCHANGED disk
    /\ UNCHANGED <<panel, rules, nginx, faults, starts, spoiled>>

\* Moving a file aside, where no backup is written over.
MovedAside(file, off) == [disk EXCEPT ![file] = "none", ![off] = "file"]

DisableDefault ==
    Try("default", "config", ~(disk["default"] = "file" /\ disk["defaultOff"] = "file"),
        IF disk["default"] = "file" THEN MovedAside("default", "defaultOff") ELSE disk)

RestrictPanel == Try("config", "status", TRUE, [disk EXCEPT !["config"] = "loopback"])

DisableStatus ==
    Try("status", "vhost", disk["status"] # disk["statusOff"],
        IF disk["status"] = "file" THEN MovedAside("status", "statusOff") ELSE disk)

RestrictVhost ==
    \/ Try("vhost", "check", disk["vhost"] # "none", [disk EXCEPT !["vhost"] = "inner"])
    \/ Try("vhostAgain", "traffic", disk["vhost"] # "none", [disk EXCEPT !["vhost"] = "inner"])

ValidateConfig ==
    \/ Try("check", "proxy", Closed(disk), disk)
    \/ Try("checkAgain", "rule", Closed(disk), disk)

\* CreateProxy may write the vhost anew, and reloads Nginx when it likes.
EnsureProxy ==
    /\ AtStep("proxy")
    /\ \/ panel.proxy /\ UNCHANGED <<disk, panel, nginx>>
       \/ /\ ~panel.proxy
          /\ panel' = [panel EXCEPT !.proxy = TRUE]
          /\ \E vhost \in {"inner", "public"} : Write("vhost", vhost)
          /\ nginx' \in {nginx} \union IF nginx.running THEN {Loaded(disk, nginx)} ELSE {}
    /\ GotoStep("vhostAgain")
    /\ UNCHANGED <<rules, faults, starts, spoiled>>

\* The panel logs the headers it likes; the script's format leaves out credentials.
EnableTraffic ==
    Try("traffic", "safeLog", TRUE,
        IF disk["log"] = "none" THEN [disk EXCEPT !["log"] = "raw"] ELSE disk)
InstallSafeLog == Try("safeLog", "checkAgain", TRUE, [disk EXCEPT !["log"] = "safe"])

\* ensureScopedUfwRule: the new rule first, the others after it.
AddRule ==
    /\ AtStep("rule")
    /\ IF Foreign \in rules THEN GotoStep("restore") /\ UNCHANGED rules
       ELSE /\ rules' = rules \union {script.expected}
            /\ script' = [script EXCEPT !.pc = "prune", !.before = rules,
                                        !.mutated = rules # {script.expected}]
    /\ UNCHANGED <<disk, panel, nginx, faults, starts, spoiled>>

PruneRules ==
    /\ AtStep("prune")
    /\ \/ \E r \in rules \ {script.expected} :
             IF r = Foreign THEN GotoStep("undoAdd") /\ UNCHANGED rules
                            ELSE rules' = rules \ {r} /\ UNCHANGED script
       \/ rules = {script.expected} /\ GotoStep("nginx") /\ UNCHANGED rules
    /\ UNCHANGED <<disk, panel, nginx, faults, starts, spoiled>>

\* installNginxSystemdOverride, validateAndStartNginx: an orphan is stopped first.
StartNginx ==
    /\ AtStep("nginx")
    /\ IF nginx.running /\ ~nginx.unit
       THEN nginx' = [nginx EXCEPT !.running = FALSE, !.listens = {}] /\ UNCHANGED script
       ELSE /\ nginx' = Loaded(disk, [nginx EXCEPT !.running = TRUE, !.unit = TRUE])
            /\ GotoStep("probe")
    /\ UNCHANGED <<disk, panel, rules, faults, starts, spoiled>>

\* The probes through Caddy and into the traffic log.
Probe ==
    /\ AtStep("probe")
    /\ GotoStep("idle")
    /\ UNCHANGED <<world, faults, starts, spoiled>>

-----------------------------------------------------------------------------
(* Failure and undoing.                                                    *)

Trying == {"default", "config", "status", "vhost", "check", "proxy", "vhostAgain", "traffic",
           "safeLog", "checkAgain", "rule", "prune", "nginx", "probe"}
Undoing == {"undoAdd", "undoDelete", "restore", "restoreNginx"}

\* A step of the try block raises.
StepFails ==
    /\ faults < MaxFaults
    /\ script.pc \in Trying
    /\ GotoStep(Undo)
    /\ faults' = faults + 1
    /\ UNCHANGED <<world, starts, spoiled>>

\* Before the try block nothing is undone.
CleanUpFails ==
    /\ faults < MaxFaults /\ AtStep("clean")
    /\ GotoStep("idle")
    /\ faults' = faults + 1
    /\ UNCHANGED <<world, starts, spoiled>>

\* rollbackScopedUfwMutation: the old rules again, and then the new one away.
RestoreRules ==
    /\ AtStep("undoAdd")
    /\ rules' = rules \union script.before
    /\ GotoStep("undoDelete")
    /\ UNCHANGED <<disk, panel, nginx, faults, starts, spoiled>>

RemoveAddedRules ==
    /\ AtStep("undoDelete")
    /\ rules' = {r \in rules : r \in script.before \/ r = Foreign}
    /\ GotoStep("restore")
    /\ spoiled' = (spoiled \/ Foreign \in rules)
    /\ UNCHANGED <<disk, panel, nginx, faults, starts>>

\* What restoreFiles leaves in a file.
Restored(file) == script.snapshot[file]

\* A file that was not there when the script began is left alone.
RestoredIfSaved(file) ==
    IF script.snapshot[file] = "none" THEN disk[file] ELSE script.snapshot[file]

PutBack(file) == Restored(file)

RestoreFile ==
    /\ AtStep("restore")
    /\ LET n == script.restored + 1 IN
       /\ Write(Managed[n], PutBack(Managed[n]))
       /\ script' = [script EXCEPT !.restored = n,
                                   !.pc = IF n = Len(Managed) THEN "restoreNginx" ELSE "restore"]
    /\ UNCHANGED <<panel, rules, nginx, faults, starts, spoiled>>

\* restoreNginxProcessState: running as before, with the files as before.
RestoreNginx ==
    /\ AtStep("restoreNginx")
    /\ nginx' = IF script.wasRunning
                THEN Loaded(disk, [nginx EXCEPT !.running = TRUE,
                                                !.unit = IF nginx.running THEN @ ELSE TRUE])
                ELSE [nginx EXCEPT !.running = FALSE, !.unit = FALSE, !.listens = {}]
    /\ GotoStep("idle")
    /\ UNCHANGED <<disk, panel, rules, faults, starts, spoiled>>

\* A step of the undoing raises: of the rules it is noted, of the files it is the end.
UndoFails ==
    /\ faults < MaxFaults
    /\ script.pc \in Undoing
    /\ GotoStep(CASE script.pc = "undoAdd" -> "undoDelete" [] script.pc = "undoDelete" -> "restore"
              [] OTHER -> "idle")
    /\ faults' = faults + 1
    /\ spoiled' = TRUE
    /\ UNCHANGED <<world, starts>>

\* The script is killed.
Killed ==
    /\ ~AtStep("idle")
    /\ faults < MaxFaults
    /\ faults' = faults + 1
    /\ GotoStep("idle")
    /\ spoiled' = (spoiled \/ script.pc \in Undoing)
    /\ UNCHANGED <<world, starts>>

\* An administrator opens the port, or starts Nginx beside its unit.
AdminInterferes ==
    /\ \/ Foreign \notin rules /\ rules' = rules \union {Foreign} /\ UNCHANGED nginx
       \/ AtStep("idle") /\ nginx.running /\ nginx.unit /\ nginx' = [nginx EXCEPT !.unit = FALSE]
          /\ UNCHANGED rules
    /\ UNCHANGED <<disk, panel, script, faults, starts, spoiled>>

-----------------------------------------------------------------------------
SiteNext ==
    \/ \E network \in Networks : Begin(network)
    \/ CleanUp \/ DisableDefault \/ RestrictPanel \/ DisableStatus \/ RestrictVhost
    \/ ValidateConfig \/ EnsureProxy \/ EnableTraffic \/ InstallSafeLog \/ AddRule \/ PruneRules
    \/ StartNginx \/ Probe
    \/ StepFails \/ CleanUpFails \/ RestoreRules \/ RemoveAddedRules \/ RestoreFile
    \/ RestoreNginx \/ UndoFails \/ Killed \/ AdminInterferes

SiteSpec == SiteInit /\ [][SiteNext]_siteVars

-----------------------------------------------------------------------------
\* The type invariant of the host.
SiteTypeOK ==
    /\ disk \in [Files -> {"public", "loopback", "none", "file", "inner", "raw", "safe"}]
    /\ panel \in [site : BOOLEAN, proxy : BOOLEAN, opened : BOOLEAN]
    /\ rules \subseteq Networks \union {Foreign}
    /\ nginx.listens \subseteq {"888", "loopback", "80", "18080", "inner"}
    /\ script.pc \in Trying \union Undoing \union {"idle", "clean"}
    /\ faults \in 0 .. MaxFaults /\ starts \in 0 .. MaxStarts /\ spoiled \in BOOLEAN

\* The comments of ensureScopedUfwRule and its rollback: a container network that was let
\* through is let through at every moment of a migration and of its
\* undoing, wherever it fails or is killed.
NoFirewallGap ==
    ~spoiled' /\ rules # {} /\ script.before # {} => rules' # {}

\* A registration that succeeds leaves the two inner listeners, one rule, no opened
\* port and a log without credentials; one that fails leaves the files, the rules and
\* the process as they were.
EndsCleanly ==
    ~AtStep("idle") /\ script'.pc = "idle" /\ ~spoiled' =>
        \/ faults' # faults
        \/ AtStep("clean")
        \/ /\ AtStep("probe")
           /\ nginx.listens = {"loopback", "inner"} /\ nginx.logs = "safe"
           /\ script.expected \in rules /\ rules \subseteq {script.expected, Foreign}
           /\ ~panel.opened
        \/ /\ AtStep("restoreNginx")
           /\ disk = script.snapshot
           /\ rules \ {Foreign} = script.before \ {Foreign}
           /\ nginx'.running = script.wasRunning

\* Whatever has failed and wherever the script was killed, it can be run again: it does
\* not meet a state of its own making that it refuses.
CanRegister ==
    AtStep("idle") /\ ~spoiled =>
        /\ ~(disk["default"] = "file" /\ disk["defaultOff"] = "file")
        /\ disk["status"] # disk["statusOff"]

\* The three together.
RegistrationIsSafe == [][CanRegister' /\ NoFirewallGap /\ EndsCleanly]_siteVars
=============================================================================
