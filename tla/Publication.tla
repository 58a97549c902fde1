---------------------------- MODULE Publication ----------------------------
(***************************************************************************)
(* How other plugins hang on to the host: its registry of published tools  *)
(* (mcp/external-tools.ts), its lists of governance hooks (mcp/seam.ts),   *)
(* and the publishers' side of both (vault-mcp-api: publishTools,          *)
(* registerGovernance), while host and plugins are loaded, reloaded and    *)
(* unloaded in any order.  The host exposes its api at once and announces  *)
(* it later, with two events.                                              *)
(***************************************************************************)
EXTENDS Naturals, FiniteSets

CONSTANTS
  Plugins,
  Providers,   \* those that register governance hooks; each publishes its tool too
  NameOf,      \* NameOf[p]: the published name: ids that sanitize alike share it
  MaxInstances \* bound: instances loaded, of the host and of the plugins

ASSUME PublicationAssumption == Providers \subseteq Plugins /\ MaxInstances \in Nat

VARIABLES
  api,        \* the host is loaded, its registries are the live ones
  event,      \* ready events still to come: 2 before the first, 0 when both are delivered
  unheard,    \* plugins the event under way has not reached
  live,       \* live[p]: the plugin's live instance, 0 when unloaded
  born,       \* instances so far
  tools,      \* the registry: entries [owner, by (instance), k], one per name
  hookList,   \* the list: entries [owner, by, k]
  unregister, disposers,   \* what each plugin's SDK holds: its entries
  serial,
  session,    \* a connection: the entries at its build, with the owner's instance then
  crowded,    \* history: plugins whose last registration another's name refused
  ghosts      \* history: entries whose handler ran when their instance was gone

pvars == <<api, event, unheard, live, born, tools, hookList, unregister, disposers, serial,
           session, crowded, ghosts>>

PublicationInit ==
  /\ api = FALSE /\ event = 0 /\ unheard = {} /\ live = [p \in Plugins |-> 0] /\ born = 0
  /\ tools = {} /\ hookList = {} /\ serial = 0 /\ session = {} /\ crowded = {} /\ ghosts = {}
  /\ unregister = [p \in Plugins |-> {}] /\ disposers = [p \in Plugins |-> {}]

Entry(p, i)  == [owner |-> p, by |-> i, k |-> serial + 1]
SameName(p)  == {e \in tools : NameOf[e.owner] = NameOf[p]}

\* Mutant of Clobbers: a name is taken from whoever has it.
NeverClobbers(p) == FALSE

Clobbers(p) == \E e \in SameName(p) : e.owner # p

\* Mutant of Forgotten: the old disposers are dropped without being called.
NoneForgotten(p) == {}

\* disposeAll calls what this SDK holds.
Forgotten(p) == disposers[p]

\* register(), of both SDK functions, by the plugin's instance i; publishTools has
\* forgotten its disposer, registerGovernance has called its own.
RegisterAs(p, i) ==
  /\ IF Clobbers(p)
     THEN UNCHANGED tools /\ unregister' = [unregister EXCEPT ![p] = {}] /\ crowded' = crowded \cup {p}
     ELSE /\ tools' = (tools \ SameName(p)) \cup {Entry(p, i)} /\ crowded' = crowded \ {p}
          /\ unregister' = [unregister EXCEPT ![p] = {Entry(p, i)}]
  /\ hookList' = (hookList \ Forgotten(p)) \cup {Entry(p, i) : q \in {p} \cap Providers}
  /\ disposers' = [disposers EXCEPT ![p] = {Entry(p, i) : q \in {p} \cap Providers}]
  /\ serial' = serial + 1

\* The two events are one synchronous step of the host.
Quiet == unheard = {} /\ event # 1

-----------------------------------------------------------------------------
\* A new plugin instance of the host has new, empty registries.
HostLoads ==
  /\ ~api /\ born < MaxInstances /\ born' = born + 1 /\ api' = TRUE /\ event' = 2
  /\ UNCHANGED <<unheard, live, tools, hookList, unregister, disposers, serial, session, crowded, ghosts>>

\* The end of onload: one event after the other, each to every live plugin.
Announce ==
  /\ api /\ unheard = {} /\ event > 0 /\ event' = event - 1
  /\ unheard' = {p \in Plugins : live[p] # 0}
  /\ UNCHANGED <<api, live, born, tools, hookList, unregister, disposers, serial, session, crowded,
                 ghosts>>

Hears(p) ==
  /\ p \in unheard /\ unheard' = unheard \ {p} /\ RegisterAs(p, live[p])
  /\ UNCHANGED <<api, event, live, born, session, ghosts>>

HostUnloads ==
  /\ api /\ Quiet /\ api' = FALSE /\ event' = 0 /\ tools' = {} /\ hookList' = {} /\ session' = {}
  /\ UNCHANGED <<unheard, live, born, unregister, disposers, serial, crowded, ghosts>>

PluginLoads(p) ==
  /\ Quiet /\ live[p] = 0 /\ born < MaxInstances /\ born' = born + 1
  /\ live' = [live EXCEPT ![p] = born']
  /\ IF api THEN RegisterAs(p, born')
            ELSE UNCHANGED <<tools, hookList, unregister, disposers, serial, crowded>>
  /\ UNCHANGED <<api, event, unheard, session, ghosts>>

\* The returned disposers: whatever the SDK holds, dropped by identity.
PluginUnloads(p) ==
  /\ Quiet /\ live[p] # 0 /\ live' = [live EXCEPT ![p] = 0]
  /\ tools' = tools \ unregister[p] /\ hookList' = hookList \ disposers[p]
  /\ unregister' = [unregister EXCEPT ![p] = {}] /\ disposers' = [disposers EXCEPT ![p] = {}]
  /\ UNCHANGED <<api, event, unheard, born, serial, session, crowded, ghosts>>

-----------------------------------------------------------------------------
\* buildMcpServer takes the entries, each with its owner as it is now.
Connect ==
  /\ api /\ Quiet /\ session = {}
  /\ session' = {[entry |-> e, owner |-> live[e.owner]] : e \in tools}
  /\ UNCHANGED <<api, event, unheard, live, born, tools, hookList, unregister, disposers, serial,
                 crowded, ghosts>>

\* Mutant of Serves: the owner's presence alone is looked at.
ServesAny(s) == live[s.entry.owner] # 0

\* Refused unless the owner is the very instance of then.
Serves(s) == s.owner # 0 /\ live[s.entry.owner] = s.owner

CallTool(s) ==
  /\ Quiet /\ s \in session /\ Serves(s)
  /\ ghosts' = ghosts \cup {e \in {s.entry} : live[e.owner] # e.by}
  /\ UNCHANGED <<api, event, unheard, live, born, tools, hookList, unregister, disposers, serial,
                 session, crowded>>

PublicationNext ==
  \/ HostLoads \/ Announce \/ HostUnloads \/ Connect
  \/ \E p \in Plugins : Hears(p) \/ PluginLoads(p) \/ PluginUnloads(p)
  \/ \E s \in session : CallTool(s)

PublicationSpec == PublicationInit /\ [][PublicationNext]_pvars

-----------------------------------------------------------------------------
PublicationTypeOK ==
  /\ event \in 0..2 /\ unheard \subseteq Plugins /\ live \in [Plugins -> 0..born]
  /\ \A n \in {NameOf[p] : p \in Plugins} : Cardinality({e \in tools : NameOf[e.owner] = n}) <= 1

\* Nobody is consulted, and no tool is offered, for a plugin that is gone, or twice
\* for one that is there.
NoGhosts ==
  Quiet => /\ \A e \in tools \cup hookList : e.by = live[e.owner]
           /\ \A e, f \in hookList : e.owner = f.owner => e = f

\* Whoever is loaded is registered once the host has announced itself, in whatever
\* order they came, save a plugin whose name another held when it last tried.
AllRegistered ==
  api /\ Quiet /\ event = 0 =>
    \A p \in Plugins : live[p] # 0 =>
      /\ p \in Providers => \E e \in hookList : e.owner = p
      /\ p \in crowded \/ \E e \in tools : e.owner = p

\* A session of before never runs the handler of an instance that was unloaded.
NoStaleHandler == ghosts = {}

PublicationSafe == PublicationTypeOK /\ NoGhosts /\ AllRegistered /\ NoStaleHandler
=============================================================================
