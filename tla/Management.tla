----------------------------- MODULE Management -----------------------------
(***************************************************************************)
(* The sessions of one device, its running and startup configuration and   *)
(* the state file that carries the startup configuration across a crash.   *)
(* Commands run one at a time under the lab's lock, which a save holds     *)
(* until the file is in place.                                             *)
(***************************************************************************)
EXTENDS ConfigReplay

CONSTANT Profiles        \* device types, with the commands typed at them

(* Whether the state file's path has a parent directory to sync.           *)
ASSUME ProfilesAssumption == \A i \in DOMAIN Profiles : Profiles[i].parents \subseteq BOOLEAN

VARIABLES profile,      \* the device and the commands of this run
          running,      \* RunningConfig
          startup,      \* StartupConfig: None or a configuration
          mode,         \* CliSession.mode of every session
          entered,      \* the object each session last entered, by name
          orphaned,     \* sessions whose object was removed since they entered it
          typed,        \* commands accepted so far
          save,         \* storage.save in progress: its next step, or "idle"
          disk,         \* the state file
          acked         \* the number of the last acknowledged save

vars == <<profile, running, startup, mode, entered, orphaned, typed, save, disk, acked>>

Device   == Profiles[profile]
Fresh    == NewDevice(Device.type, Device.hardware)
Sessions == 1..Device.sessions

(***************************************************************************)
(* The state file.  Each save has a number; 0 is the absence of a file.    *)
(* "path" is what a process reads at the path, "survivors" what a crash    *)
(* may leave there; -1 is a torn file.  "tmp" is the temporary file:       *)
(* absent, being written, complete or synced.                              *)
(***************************************************************************)
Torn == 0 - 1

EmptyDisk(parent) == [path |-> 0, survivors |-> {0}, tmp |-> "absent", text |-> << >>, parent |-> parent]

Attempts == Len(disk.text)

Init ==
  /\ profile \in DOMAIN Profiles
  /\ running = Fresh
  /\ startup = None
  /\ mode = [s \in Sessions |-> IF Device.configuring THEN Global ELSE User]
  /\ entered = [s \in Sessions |-> None]
  /\ orphaned = {}
  /\ typed = 0
  /\ save = "idle"
  /\ \E parent \in Device.parents : disk = EmptyDisk(parent)
  /\ acked = 0

(***************************************************************************)
(* Session bookkeeping: the name of the object a mode refers to.           *)
(***************************************************************************)
NamedObject(d, m) ==
  CASE m[1] = "rmap" /\ m[2][1] \in DOMAIN d.maps           -> Some(<<"rmap", d.maps[m[2][1]].name>>)
    [] m[1] = "class" /\ m[2] \in DOMAIN d.classes          -> Some(<<"class", d.classes[m[2]].name>>)
    [] m[1] = "policy" /\ m[2] \in DOMAIN d.policies        -> Some(<<"policy", d.policies[m[2]].name>>)
    [] m[1] = "pclass" /\ m[2][1] \in DOMAIN d.policies     -> Some(<<"policy", d.policies[m[2][1]].name>>)
    [] OTHER                                                -> None

(* A route map is removed with its last clause.                            *)
Removed(cmd, d, obj) ==
  \E o \in Range(obj) :
    \/ cmd[1] = "RemoveRouteMap" /\ o = <<"rmap", cmd[2][1]>> /\ IdOf(d.maps, cmd[2][1]) = {}
    \/ cmd[1] = "RemoveClass"    /\ o = <<"class", cmd[2]>>
    \/ cmd[1] = "RemovePolicy"   /\ o = <<"policy", cmd[2]>>

Entering(cmd) == cmd[1] \in {"EnterRouteMap", "EnterClass", "EnterPolicy"}

(***************************************************************************)
(* device_session::process: parse in the session's mode, execute, and when *)
(* the command asks for persistence, save before answering.                *)
(***************************************************************************)
Answer(s, cmd, r) ==
  /\ running' = r.dev
  /\ mode' = [mode EXCEPT ![s] = IF r.fx = "close" THEN User ELSE r.mode]
  /\ startup' = IF r.fx = "persist" THEN Some(r.dev) ELSE startup
  /\ save' = IF r.fx = "persist" THEN "create" ELSE save
  /\ entered' = IF r.ok /\ Entering(cmd) THEN [entered EXCEPT ![s] = NamedObject(r.dev, r.mode)] ELSE entered
  /\ orphaned' = IF ~r.ok THEN orphaned
                 ELSE IF Entering(cmd) THEN orphaned \ {s}
                 ELSE orphaned \cup {t \in Sessions : Removed(cmd, r.dev, entered[t])}

Process(s, cmd) ==
  /\ save = "idle" /\ typed < Device.budget
  /\ cmd[1] \in Offers(Kind(mode[s]))
  /\ Answer(s, cmd, Execute(cmd, running, mode[s]))
  /\ typed' = typed + 1
  /\ UNCHANGED <<profile, disk, acked>>

(* Ctrl+Z leaves any configuration mode.                                   *)
EndConfiguration(s) ==
  /\ save = "idle" /\ Kind(mode[s]) \in ConfigModes
  /\ mode' = [mode EXCEPT ![s] = Privileged]
  /\ UNCHANGED <<profile, running, startup, entered, orphaned, typed, save, disk, acked>>

(***************************************************************************)
(* StateStore::save, one system call at a time.                            *)
(***************************************************************************)
SaveStep(from, to, d) ==
  /\ save = from /\ save' = to /\ disk' = d
  /\ UNCHANGED <<profile, running, startup, mode, entered, orphaned, typed>>

(* Mutation: the temporary file is renamed without having been synced.     *)
SyncAllSkipped == SaveStep("sync", "rename", disk) /\ UNCHANGED acked

Create == /\ SaveStep("create", "write", [disk EXCEPT !.tmp = "partial", !.text = Append(@, Render(startup[1]))])
          /\ UNCHANGED acked

WriteAll == SaveStep("write", "sync", [disk EXCEPT !.tmp = "complete"]) /\ UNCHANGED acked

SyncAll == SaveStep("sync", "rename", [disk EXCEPT !.tmp = "synced"]) /\ UNCHANGED acked

(* After the rename a crash may keep either name binding until the         *)
(* directory is synced; an unsynced file may also lose its contents.       *)
Rename ==
  LET after == disk.survivors \cup {Attempts} \cup IF disk.tmp = "synced" THEN {} ELSE {Torn}
  IN  /\ SaveStep("rename", IF disk.parent THEN "dirsync" ELSE "idle",
                  [disk EXCEPT !.path = Attempts, !.survivors = after, !.tmp = "absent"])
      /\ acked' = IF disk.parent THEN acked ELSE Attempts

SyncDirectory == SaveStep("dirsync", "idle", [disk EXCEPT !.survivors = {disk.path}]) /\ acked' = Attempts

(* Any of the calls may fail: the temporary file is removed and the        *)
(* command reports the error; the startup configuration stays in memory.   *)
SaveFails ==
  /\ save # "idle"
  /\ save' = "idle"
  /\ disk' = [disk EXCEPT !.tmp = "absent"]
  /\ UNCHANGED <<profile, running, startup, mode, entered, orphaned, typed, acked>>

(***************************************************************************)
(* A crash, and StateStore::load at the next start.  A file that does not  *)
(* load stops the program: the action is not enabled.                      *)
(***************************************************************************)
Loaded(n) == IF n = 0 THEN Accept(Fresh)
             ELSE IF n = Torn THEN Reject(Fresh)
             ELSE LoadConfiguration(Fresh, disk.text[n])

Restart ==
  /\ Device.crashes /\ typed > 0
  /\ \E n \in disk.survivors : \E r \in {Loaded(n)} :
       /\ r.ok
       /\ running' = r.dev
       /\ startup' = IF n = 0 THEN None ELSE Some(r.dev)
       /\ disk' = [disk EXCEPT !.path = n, !.survivors = {n}]
       /\ acked' = n
  /\ save' = "idle"
  /\ mode' = [s \in Sessions |-> User]
  /\ entered' = [s \in Sessions |-> None]
  /\ orphaned' = {}
  /\ UNCHANGED <<profile, typed>>

Next ==
  \/ \E s \in Sessions, cmd \in Device.commands : Process(s, cmd)
  \/ \E s \in Sessions : EndConfiguration(s)
  \/ Create \/ WriteAll \/ SyncAll \/ Rename \/ SyncDirectory \/ SaveFails
  \/ Restart

Spec == Init /\ [][Next]_vars

(***************************************************************************)
(* Properties.                                                             *)
(***************************************************************************)
(* What a reader of the configuration sees: objects by name, a switchport  *)
(* by the settings of its mode.                                            *)
Essence(d) ==
  LET name(p) == IF p.qos = None THEN None ELSE Some(d.policies[p.qos[1]].name)
      port(x) == LET p == d.ports[x]
                 IN  [p EXCEPT !.sw = RenderSwitchport(@), !.qos = name(p),
                               !.acl = IF @ = None THEN None ELSE Some(@[1][2])]
      inner(i) == [j \in DOMAIN d.policies[i].classes |->
                     LET c == d.policies[i].classes[j] IN <<d.classes[c].name, c \in d.policies[i].acts>>]
  IN  [ports |-> [x \in DOMAIN d.ports |-> port(x)], vlans |-> d.vlans, std |-> d.std, named |-> d.named,
       nat |-> d.nat, pools |-> d.pools, ospf |-> d.ospf, bgp |-> d.bgp, plain |-> d.plain,
       maps |-> Range(d.maps), classes |-> Range(d.classes),
       policies |-> {<<d.policies[i].name, inner(i)>> : i \in DOMAIN d.policies}]

(* What the replay relies on and the setters together do not guarantee: a  *)
(* member with no address client, routing only on routed ports, spanning   *)
(* tree only on switchports, a routed parent for every subinterface, and a *)
(* member with the switchport of its Port-channel.                         *)
PortReplays(d, x) ==
  LET p == d.ports[x]
  IN  /\ p.chan # None => p.ip = "none"
      /\ p.sw # None => ~p.bind
      /\ p.stp => p.sw # None
      /\ x.k = "sub" => d.ports[Parent(x)].sw = None
      /\ \A g \in Range(p.chan) :
           RenderSwitchport(p.sw) = RenderSwitchport(d.ports[Po(g.n)].sw)

Replayable(d) == \A x \in DOMAIN d.ports : PortReplays(d, x)

(* Replaying the rendered running configuration on the bare hardware gives *)
(* back the same configuration, whatever the commands before it, as long   *)
(* as no interface is in one of the states above.                          *)
ReloadExact ==
  Replayable(running) =>
    \E r \in {LoadConfiguration(Fresh, Render(running))} : r.ok /\ Essence(r.dev) = Essence(running)

(* What render promises: its text replays through the command engine on    *)
(* the bare hardware, in every state the commands reach.                   *)
RenderedReplays == LoadConfiguration(Fresh, Render(running)).ok

(* A crash at any point of a save leaves a complete state file, and with a *)
(* directory to sync never one older than the last acknowledged save.      *)
AcknowledgedSurvives ==
  \A n \in disk.survivors : n # Torn /\ (disk.parent => n >= acked)

(* A session keeps editing the object it entered, under the name it used,  *)
(* for as long as nobody removes that object.                              *)
KeepsObject ==
  \A s \in Sessions \ orphaned :
    Kind(mode[s]) \in {"rmap", "class", "policy", "pclass"} =>
      NamedObject(running, mode[s]) = entered[s]
=============================================================================
