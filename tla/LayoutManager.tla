--------------------------- MODULE LayoutManager ---------------------------
(***************************************************************************)
(* LayoutManager (apps/web/src/layout.ts) over a PanelRegistry (apps/web/  *)
(* src/panels.ts): the panels mounted, each bound to a system and perhaps  *)
(* a workspace, where and how they are presented, and the presets kept of  *)
(* them outside of it.                                                     *)
(***************************************************************************)
EXTENDS Naturals, FiniteSets

CONSTANTS
  Panels,        \* the definitions, by panel id
  LayoutScopes,  \* what a panel may be bound to: sys, and ws or NoWorkspace
  NoWorkspace,
  MaxMounts,     \* bounds: the panels mounted
  MaxPresets     \* and the presets saved

ASSUME LayoutAssumption == MaxMounts \in Nat /\ MaxPresets \in Nat

VARIABLES
  registered,   \* the ids in the registry
  instances,    \* the instances, by a number that stands for "inst-" and it
  counter,
  presets,      \* the presets saved
  mounts        \* the mounts so far

layoutvars == <<registered, instances, counter, presets, mounts>>

States == {"docked", "floating", "detached", "hud", "hidden"}
PanelIds == DOMAIN Panels

\* checkDefinition: what register() takes.
Definable(p) == Panels[p].presentations # {} /\ (Panels[p].workspaceScoped => Panels[p].systemScoped)

Register(p) ==
  /\ p \notin registered /\ Definable(p)
  /\ registered' = registered \cup {p}
  /\ UNCHANGED <<instances, counter, presets, mounts>>

\* mount(): a workspace for the panels that need one, and for no other.
Mountable(p, s, how) ==
  /\ p \in registered /\ Panels[p].systemScoped
  /\ Panels[p].workspaceScoped <=> s.ws # NoWorkspace
  /\ how \in Panels[p].presentations
NumberedBySize == Cardinality(DOMAIN instances) + 1
Numbered == counter + 1
Placed(i, instance) == instances' = [j \in DOMAIN instances \cup {i} |->
                                       IF j = i THEN instance ELSE instances[j]]
Mount(p, s, how) ==
  /\ Mountable(p, s, how) /\ mounts < MaxMounts /\ mounts' = mounts + 1
  /\ counter' = Numbered
  /\ Placed(counter', [panel |-> p, scope |-> s, state |-> "docked", presentation |-> how])
  /\ UNCHANGED <<registered, presets>>

\* setState(): what the definition allows; the HUD brings its presentation.
Allowed(p, state) ==
  /\ state = "floating" => Panels[p].canFloat
  /\ state \in {"detached", "hud"} => Panels[p].canDetach
  /\ state = "hud" => "hud" \in Panels[p].presentations
SetState(i, state) ==
  /\ Allowed(instances[i].panel, state)
  /\ instances' = [instances EXCEPT ![i].state = state,
                     ![i].presentation = IF state = "hud" THEN "hud" ELSE @]
  /\ UNCHANGED <<registered, counter, presets, mounts>>

SetPresentation(i, how) ==
  /\ how \in Panels[instances[i].panel].presentations
  /\ instances' = [instances EXCEPT ![i].presentation = how]
  /\ UNCHANGED <<registered, counter, presets, mounts>>

\* retarget(): any scope, also one mount() would not take.
Rebinds(i, s) == instances' = [instances EXCEPT ![i].scope = s]
RetargetPanel(i, s) ==
  Rebinds(i, s) /\ UNCHANGED <<registered, counter, presets, mounts>>

Unmount(i) ==
  /\ instances' = [j \in DOMAIN instances \ {i} |-> instances[j]]
  /\ UNCHANGED <<registered, counter, presets, mounts>>

SavePreset ==
  /\ Cardinality(presets) < MaxPresets /\ presets' = presets \cup {instances}
  /\ UNCHANGED <<registered, instances, counter, mounts>>

\* loadPreset(): the instances as they were saved; the counter stays.
LoadPreset(preset) ==
  /\ \A i \in DOMAIN preset : preset[i].panel \in registered
  /\ instances' = preset
  /\ UNCHANGED <<registered, counter, presets, mounts>>

Reset == instances' = << >> /\ UNCHANGED <<registered, counter, presets, mounts>>

LayoutInit ==
  registered = {} /\ instances = << >> /\ counter = 0 /\ presets = {} /\ mounts = 0

LayoutNext ==
  \/ \E p \in PanelIds : Register(p)
  \/ \E p \in PanelIds, s \in LayoutScopes : \E how \in Panels[p].presentations : Mount(p, s, how)
  \/ \E i \in DOMAIN instances :
       \/ \E state \in States : SetState(i, state)
       \/ \E how \in {"full", "compact", "hud"} : SetPresentation(i, how)
       \/ \E s \in LayoutScopes : RetargetPanel(i, s)
       \/ Unmount(i)
  \/ SavePreset \/ Reset
  \/ \E preset \in presets : LoadPreset(preset)

LayoutSpec == LayoutInit /\ [][LayoutNext]_layoutvars

----------------------------------------------------------------------------
\* "Every instance is explicitly bound to (systemId, workspaceId?); a switch of
\* the main shell requires explicit retarget, never silent re-scope" (layout.ts
\* 14-16): mounting a panel leaves every other as it is, and so does any step
\* but a retarget of it and the restoring of a preset.
BindingsKept ==
  [][LET changed == {i \in DOMAIN instances \cap DOMAIN instances' :
                       \/ instances'[i].scope # instances[i].scope
                       \/ instances'[i].panel # instances[i].panel}
     IN changed # {} =>
          \/ instances' \in presets
          \/ /\ counter' = counter /\ Cardinality(changed) = 1
             /\ \A i \in changed : instances'[i] = [instances[i] EXCEPT !.scope = instances'[i].scope]
         ]_layoutvars
=============================================================================
