-------------------------------- MODULE Config --------------------------------
(***************************************************************************)
(* config/config.go and plugs/types.go: what the program makes of its         *)
(* environment and of its plug file, and which of them it refuses.           *)
(*                                                                         *)
(* An environment gives for every variable whether it is set and to what.     *)
(* Variables that are only tested by themselves (the PIN's length, the log    *)
(* level and format, the paths) are one Boolean, "others".  A text is Empty   *)
(* or not; an address is what netip.ParseAddrPort makes of it.               *)
(***************************************************************************)
EXTENDS Integers, Sequences

CONSTANTS
  Unset,        \* the variable, or the JSON field, is not given
  Empty,        \* given, or left, as the empty text
  Malformed,    \* given, but not what it should be
  Texts,        \* what texts may be given, Empty among them
  DefaultName,  \* "tasmota-homekit"
  Environments, \* the environments the program may be started in
  PlugFiles     \* the plug files it may find

Listeners == {"HAP", "web", "MQTT"}

DefaultPort == [HAP |-> 8080, web |-> 8081, MQTT |-> 1883]

(* What can be written as a bind address: nothing, an IPv4 address, an IPv6   *)
(* address with or without brackets, or anything else.                      *)
BindAddresses == {Empty, "v4", "[v6]", "v6", "name"}

MaxPort == 65535

Ports == 0 .. MaxPort

IsEnvironment(env) ==
  /\ {env.hostname, env.bridge} \subseteq Texts \cup {Unset}
  /\ env.port \in [Listeners -> Int \cup {Unset, Malformed}]
  /\ env.addr \in [Listeners -> Ports \cup {Empty, Malformed}]
  /\ env.bind \in [Listeners -> BindAddresses]
  /\ env.others \in BOOLEAN

(* The entries of a plug file, as far as they are read.                     *)
PlugEntry == [id : Texts, name : Texts, address : Texts,
              homekit : BOOLEAN \cup {Unset}, web : BOOLEAN \cup {Unset}]

ConfigAssumption ==
  /\ Empty \in Texts /\ Unset \notin Texts /\ DefaultName \in Texts \ {Empty}
  /\ {Unset, Malformed, Empty} \cap Int = {}
  /\ \A env \in Environments : IsEnvironment(env)
  /\ PlugFiles \subseteq Seq(PlugEntry) \cup {Malformed}

ASSUME ConfigAssumption

(* Mutant: the bridge's name is no base for the hostname.                   *)
NamesFromHostname(env) ==
  LET base == IF env.hostname # Unset THEN env.hostname ELSE DefaultName
  IN [hostname |-> base, bridge |-> IF env.bridge # Unset THEN env.bridge ELSE base]

(* applyNameDefaults: the hostname, if set, is the base for both names, then   *)
(* the bridge's name, then the default; what is set is kept, even empty.     *)
applyNameDefaults(env) ==
  LET base == CASE env.hostname # Unset -> env.hostname
                [] env.hostname = Unset /\ env.bridge # Unset -> env.bridge
                [] OTHER -> DefaultName
  IN [hostname |-> IF env.hostname = Unset THEN base ELSE env.hostname,
      bridge |-> IF env.bridge = Unset THEN base ELSE env.bridge]

(* The port variable of a listener, or its default.                         *)
PortOf(env, l) == IF env.port[l] = Unset THEN DefaultPort[l] ELSE env.port[l]

validatePortRange(port) == port \in 1 .. MaxPort

(* The port is appended after a colon, which an IPv6 address without          *)
(* brackets does not survive; an empty bind address becomes 0.0.0.0.         *)
BindParses(bind) == bind \in {Empty, "v4", "[v6]"}

(* parseListenerAddrs, for one listener: the port variable is validated even   *)
(* where a whole address takes its place.                                   *)
ListenerParses(env, l) ==
  /\ env.port[l] # Malformed
  /\ validatePortRange(PortOf(env, l))
  /\ IF env.addr[l] = Empty THEN BindParses(env.bind[l]) ELSE env.addr[l] # Malformed

(* HAPAddrPort, WebAddrPort, MQTTAddrPort: the port the listener gets.        *)
ListenPort(env, l) == IF env.addr[l] = Empty THEN PortOf(env, l) ELSE env.addr[l]

(* Load and Validate return no error.                                       *)
Loads(env) ==
  /\ applyNameDefaults(env).bridge # Empty
  /\ \A l \in Listeners : ListenerParses(env, l)
  /\ env.others

(* seenIDs.                                                                *)
IsNew(file, i) == \A j \in 1 .. i - 1 : file[j].id # file[i].id

(* LoadConfig returns no error; Malformed is a file that cannot be read.      *)
PlugsLoad(file) ==
  /\ file # Malformed /\ file # <<>>
  /\ \A i \in DOMAIN file :
        /\ Empty \notin {file[i].id, file[i].name, file[i].address}
        /\ IsNew(file, i)

(* A plug is shown in HomeKit and on the dashboard unless its entry says no.  *)
WithDefaults(plug) ==
  [plug EXCEPT !.homekit = IF @ = Unset THEN TRUE ELSE @,
               !.web = IF @ = Unset THEN TRUE ELSE @]

LoadConfig(file) == [i \in DOMAIN file |-> WithDefaults(file[i])]
------------------------------------------------------------------------------
(* "By default, both names stay in sync and use tasmota-homekit"              *)
(* (README.md:98): in a configuration that loads neither name is missing, and *)
(* they differ only if both were set; one that is set is never replaced.     *)
NamesInSync ==
  \A env \in Environments : Loads(env) =>
     LET names == applyNameDefaults(env)
     IN /\ names.bridge # Empty /\ (env.hostname # Empty => names.hostname # Empty)
        /\ env.hostname = Unset \/ env.bridge = Unset => names.hostname = names.bridge
        /\ env.hostname = Unset /\ env.bridge = Unset => names.bridge = DefaultName
        /\ env.hostname \in {Unset, names.hostname} /\ env.bridge \in {Unset, names.bridge}

(* A configuration that loads gives every listener a port that exists, and    *)
(* leaves the choice to the system (port 0) only where a whole address asks   *)
(* for it (config.go:99-158).                                               *)
PortsExist ==
  \A env \in Environments : Loads(env) => \A l \in Listeners :
     /\ ListenPort(env, l) \in Ports
     /\ ListenPort(env, l) = 0 => env.addr[l] = 0
     /\ env.addr[l] = Empty /\ env.port[l] = Unset => ListenPort(env, l) = DefaultPort[l]

(* What the rest of the program takes for granted: a plug file that loads has  *)
(* at least one plug and no two with one ID, since manager, HAP manager and   *)
(* web server all keep their state per ID (types.go:37-64).                  *)
PlugsAreDistinct ==
  \A file \in PlugFiles : PlugsLoad(file) =>
     LET plugs == LoadConfig(file)
     IN /\ plugs # <<>>
        /\ \A i, j \in DOMAIN plugs : plugs[i].id = plugs[j].id => i = j
        /\ \A i \in DOMAIN plugs : plugs[i].homekit \in BOOLEAN /\ plugs[i].web \in BOOLEAN
==============================================================================
