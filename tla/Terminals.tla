------------------------------- MODULE Terminals -------------------------------
(***************************************************************************)
(* The terminal service of the desktop app: tabs of integrated terminals,  *)
(* each with a shell in a pseudo-terminal, filed by root (a workspace and  *)
(* the scope of a thread).  Every method runs to its end without an await; *)
(* between them shells exit, and workspaces, windows and settings change.  *)
(*                                                                         *)
(* Sizes, titles, replays and access times are left out, and so is which   *)
(* neighbour becomes active when the active tab goes, and which exited     *)
(* terminal is the least recently used.                                    *)
(***************************************************************************)
EXTENDS Naturals, FiniteSets

CONSTANTS
  Folders, Scopes,
  None,
  PerRoot,      \* MAX_TERMINAL_SESSIONS_PER_ROOT
  Total,        \* MAX_TERMINAL_SESSIONS_TOTAL
  MaxTerminals, \* bound: terminals ever made
  MaxPtys       \* bound: shells ever spawned

ASSUME CeilingsArePositive == PerRoot \in Nat \ {0} /\ Total \in Nat \ {0}
ASSUME BoundsAreNaturals == MaxTerminals \in Nat /\ MaxPtys \in Nat
ASSUME NoneIsNothing == None \notin Nat

VARIABLES
  workspaces, \* the folders in the store's state
  retained,   \* those of the last state the service was shown
  window,     \* the main window is there
  roots,      \* the keys of rootsByKey
  tabs,       \* the sessionIds of each root
  active,     \* its activeSessionId
  present,    \* the keys of sessionsById
  terminals,  \* its sessions, by number
  made,       \* how many were made
  ptys,       \* the shells: their process, and the session whose onExit is subscribed
  spawned,    \* how many were spawned
  stranded,   \* history: terminals made for a root that making room for them removed
  early,      \* history: terminals made for a workspace not yet shown
  broken      \* history: running terminals whose restart found no shell

filing == <<roots, tabs, active>>
sessions == <<present, terminals>>
shells == <<ptys, spawned>>
outside == <<workspaces, retained, window>>
histories == <<stranded, early, broken>>
vars == <<outside, filing, sessions, made, shells, histories>>

Roots == Folders \X Scopes
Ids == 1 .. MaxTerminals
Ptys == 1 .. MaxPtys
Terminal == [root: Roots \cup {None}, status: {"running", "exited", "error"},
             pty: Ptys \cup {None}]
NoTerminal == [root |-> None, status |-> "exited", pty |-> None]
Pty == [process: {"none", "alive", "ended", "gone"}, heard: Ids \cup {None}]

Init ==
  /\ workspaces \in SUBSET Folders /\ retained = workspaces /\ window = TRUE
  /\ roots = {} /\ tabs = [r \in Roots |-> {}] /\ active = [r \in Roots |-> None]
  /\ present = {} /\ made = 0 /\ spawned = 0
  /\ terminals = [t \in Ids |-> NoTerminal]
  /\ ptys = [p \in Ptys |-> [process |-> "none", heard |-> None]]
  /\ stranded = {} /\ early = {} /\ broken = {}

------------------------------------------------------------------------------
Filing == [roots |-> roots, tabs |-> tabs, active |-> active, present |-> present]

Files(f) ==
  roots' = f.roots /\ tabs' = f.tabs /\ active' = f.active /\ present' = f.present

(* ensureRoot *)
Ensured(r) == [Filing EXCEPT !.roots = @ \cup {r}]

(* Mutant: the active tab and the root are left as they are. *)
RemovalsFromList(f, t) ==
  LET r == terminals[t].root
  IN  IF r \notin f.roots THEN {} ELSE {[f EXCEPT !.tabs[r] = @ \ {t}, !.present = @ \ {t}]}

(* removeSession: the root goes with its last tab, and otherwise another   *)
(* tab becomes active.  There is no outcome if the root is not there.      *)
Removals(f, t) ==
  LET r == terminals[t].root
      left == f.tabs[r] \ {t}
  IN  IF r \notin f.roots THEN {}
      ELSE IF left = {}
      THEN {[f EXCEPT !.roots = @ \ {r}, !.tabs[r] = {}, !.active[r] = None,
                      !.present = @ \ {t}]}
      ELSE {[f EXCEPT !.tabs[r] = left, !.active[r] = IF @ = t THEN next ELSE @,
                      !.present = @ \ {t}] : next \in left}

(* disposePty for the terminals ts: nothing listens to their shells, which *)
(* are told to end.                                                        *)
Disposed(ts) ==
  [p \in Ptys |-> IF \E t \in ts : terminals[t].pty = p
                  THEN [process |-> "gone", heard |-> None] ELSE ptys[p]]

(* The other terminals are no longer in sessionsById. *)
Kept(ts) == [t \in Ids |-> IF t \in ts THEN terminals[t] ELSE NoTerminal]

(* spawnPty, with the sessions and the shells as the caller left them: the *)
(* shell runs, or the terminal shows the error.                            *)
Spawns(t, r, kept, before) ==
  \/ /\ spawned < MaxPtys
     /\ spawned' = spawned + 1
     /\ terminals' = [kept EXCEPT ![t] =
                        [root |-> r, status |-> "running", pty |-> spawned + 1]]
     /\ ptys' = [before EXCEPT ![spawned + 1] = [process |-> "alive", heard |-> t]]
  \/ /\ terminals' = [kept EXCEPT ![t] = [root |-> r, status |-> "error", pty |-> None]]
     /\ ptys' = before
     /\ UNCHANGED spawned

------------------------------------------------------------------------------
Dormant == {t \in present : terminals[t].status # "running"}

(* Mutant: one terminal more. *)
FullLate == Cardinality(present) > Total

Full == Cardinality(present) >= Total

(* ensureGlobalCapacity, after ensureRoot: at the ceiling a terminal that  *)
(* has exited is removed, be it the root's own last one.                   *)
Rooms(r) ==
  IF Full THEN UNION {Removals(Ensured(r), d) : d \in Dormant} ELSE {Ensured(r)}

(* There is none to remove, or the one to remove has no root. *)
NoRoom(r) ==
  Full /\ (Dormant = {} \/ \E d \in Dormant : Removals(Ensured(r), d) = {})

(* createSessionForRoot: the tab joins the root that ensureRoot returned,  *)
(* which may no longer be the one, if any, that rootsByKey holds.          *)
Create(r) ==
  /\ made < MaxTerminals
  /\ \E f \in Rooms(r) :
       /\ IF r \in f.roots
          THEN /\ Files([f EXCEPT !.tabs[r] = @ \cup {made + 1}, !.active[r] = made + 1,
                                  !.present = @ \cup {made + 1}])
               /\ UNCHANGED stranded
          ELSE /\ Files([f EXCEPT !.present = @ \cup {made + 1}])
               /\ stranded' = stranded \cup {made + 1}
       /\ Spawns(made + 1, r, Kept(f.present), ptys)
  /\ made' = made + 1
  /\ early' = IF r[1] \in retained THEN early ELSE early \cup {made + 1}
  /\ UNCHANGED <<outside, broken>>

(* There is no room, or room and no shell: the root stays. *)
CreateFails(r) ==
  /\ \/ \E f \in Rooms(r) : Files(f)
     \/ NoRoom(r) /\ Files(Ensured(r))
  /\ terminals' = Kept(present')
  /\ UNCHANGED <<outside, made, shells, histories>>

(* getWorkspacePath knows the folder. *)
Known(r) == window /\ r[1] \in workspaces

EnsurePanel(r) ==
  Known(r) /\ tabs[r] = {} /\ (Create(r) \/ CreateFails(r))

CreateSession(r) ==
  Known(r) /\ Cardinality(tabs[r]) < PerRoot /\ (Create(r) \/ CreateFails(r))

SetActiveSession(t) ==
  LET r == terminals[t].root
  IN  /\ window /\ t \in present
      /\ t \in tabs[r]
      /\ active' = [active EXCEPT ![r] = t]
      /\ UNCHANGED <<outside, roots, tabs, sessions, made, shells, histories>>

(* Mutant: the old shell is left to itself. *)
RestartOnTop(t) ==
  /\ window /\ t \in present
  /\ Spawns(t, terminals[t].root, terminals, ptys)
  /\ broken' = broken \ {t}
  /\ UNCHANGED <<outside, filing, present, made, stranded, early>>

(* restart: also of a stranded terminal, whose caller gets an error then. *)
Restart(t) ==
  /\ window /\ t \in present
  /\ Spawns(t, terminals[t].root, terminals, Disposed({t}))
  /\ broken' = broken \ {t}
  /\ UNCHANGED <<outside, filing, present, made, stranded, early>>

(* resolveShell throws when the old shell is already disposed of. *)
RestartFails(t) ==
  /\ window /\ t \in present
  /\ ptys' = Disposed({t})
  /\ terminals' = [terminals EXCEPT ![t].pty = None]
  /\ broken' = IF terminals[t].status = "running" THEN broken \cup {t} ELSE broken
  /\ UNCHANGED <<outside, filing, present, made, spawned, stranded, early>>

Close(t) ==
  /\ window /\ t \in present
  /\ \E f \in Removals(Filing, t) : Files(f)
  /\ ptys' = Disposed({t})
  /\ terminals' = Kept(present')
  /\ UNCHANGED <<outside, made, spawned, histories>>

------------------------------------------------------------------------------
(* A shell ends by itself, and its exit is reported later. *)
ProcessEnds(p) ==
  /\ ptys[p].process = "alive"
  /\ ptys' = [ptys EXCEPT ![p].process = "ended"]
  /\ UNCHANGED <<outside, filing, sessions, made, spawned, histories>>

(* onExit: what the terminal has by then is released. *)
Exit(p) ==
  LET t == ptys[p].heard
  IN  /\ ptys[p].process = "ended"
      /\ t \in Ids
      /\ ptys' = Disposed({t})
      /\ terminals' = [terminals EXCEPT ![t].status = "exited", ![t].pty = None]
      /\ broken' = broken \ {t}
      /\ UNCHANGED <<outside, filing, present, made, spawned, stranded, early>>

(* The store's workspaces change, and are shown to its listeners later.    *)
WorkspacesChange ==
  /\ workspaces' \in SUBSET Folders
  /\ UNCHANGED <<retained, window, filing, sessions, made, shells, histories>>

Unretained == {r \in roots : r[1] \notin workspaces}

(* retainWorkspacePaths *)
RetainWorkspacePaths ==
  LET gone == present \cap UNION {tabs[r] : r \in Unretained}
  IN  /\ workspaces # retained
      /\ retained' = workspaces
      /\ roots' = roots \ Unretained
      /\ tabs' = [r \in Roots |-> IF r \in Unretained THEN {} ELSE tabs[r]]
      /\ active' = [r \in Roots |-> IF r \in Unretained THEN None ELSE active[r]]
      /\ present' = present \ gone
      /\ ptys' = Disposed(gone)
      /\ terminals' = Kept(present')
      /\ UNCHANGED <<workspaces, window, made, spawned, histories>>

(* The window is closed, and dispose() called.  The service stays. *)
WindowCloses ==
  /\ window /\ window' = FALSE
  /\ roots' = {} /\ tabs' = [r \in Roots |-> {}] /\ active' = [r \in Roots |-> None]
  /\ present' = {}
  /\ ptys' = Disposed(present)
  /\ terminals' = Kept({})
  /\ UNCHANGED <<workspaces, retained, made, spawned, histories>>

WindowOpens ==
  /\ ~window /\ window' = TRUE
  /\ UNCHANGED <<workspaces, retained, filing, sessions, made, shells, histories>>

Next ==
  \/ \E r \in Roots : EnsurePanel(r) \/ CreateSession(r)
  \/ \E t \in Ids : SetActiveSession(t) \/ Restart(t) \/ RestartFails(t) \/ Close(t)
  \/ \E p \in Ptys : ProcessEnds(p) \/ Exit(p)
  \/ WorkspacesChange \/ RetainWorkspacePaths
  \/ WindowCloses \/ WindowOpens

Spec == Init /\ [][Next]_vars

------------------------------------------------------------------------------
(* The types, and the ceilings, which hold over terminals that lost their  *)
(* root too.                                                               *)
TypeOK ==
  /\ workspaces \subseteq Folders /\ retained \subseteq Folders /\ window \in BOOLEAN
  /\ roots \subseteq Roots /\ tabs \in [Roots -> SUBSET Ids] /\ active \in [Roots -> Ids \cup {None}]
  /\ present \subseteq Ids /\ Cardinality(present) <= Total
  /\ \A r \in Roots : Cardinality(tabs[r]) <= PerRoot
  /\ terminals \in [Ids -> Terminal] /\ made \in 0 .. MaxTerminals
  /\ ptys \in [Ptys -> Pty] /\ spawned \in 0 .. MaxPtys
  /\ stranded \subseteq Ids /\ early \subseteq Ids /\ broken \subseteq Ids

(* Every shell that was not told to end belongs to a terminal that listens *)
(* for its exit, and a terminal shows that it runs while it has a shell,   *)
(* and only then, unless its restart found none: no process is left behind *)
(* by a restart, a close, an eviction or a late exit, and the ceiling      *)
(* counts as live only what lives.                                         *)
ProcessesAreOwned ==
  /\ \A p \in Ptys : ptys[p].process \in {"alive", "ended"} =>
       /\ ptys[p].heard \in present
       /\ terminals[ptys[p].heard].pty = p
  /\ \A t \in present :
       /\ terminals[t].pty # None => /\ ptys[terminals[t].pty].heard = t
                                     /\ ptys[terminals[t].pty].process \in {"alive", "ended"}
       /\ terminals[t].status = "running" <=> terminals[t].pty # None \/ t \in broken

(* Every terminal is a tab of its root, where the panel shows it and its   *)
(* close, its workspace's removal and the ceiling find it, unless room for *)
(* it was made by removing the root; and once the store has shown its      *)
(* state no terminal is left of a workspace that the state does not have,  *)
(* unless it was made before the workspace was ever shown.                 *)
TerminalsAreFiled ==
  /\ \A r \in Roots : /\ tabs[r] # {} => r \in roots /\ active[r] \in tabs[r]
                      /\ \A t \in tabs[r] : t \in present /\ terminals[t].root = r
  /\ \A t \in present \ stranded : t \in tabs[terminals[t].root]
  /\ workspaces = retained =>
       \A t \in present \ (stranded \cup early) : terminals[t].root[1] \in workspaces

(* A shell that runs is told to end only by the restart or the close of    *)
(* its own terminal, with its workspace, or with the window: no late exit  *)
(* report and no room made for another terminal ever ends it.              *)
LiveShellsAreSpared ==
  [][\A p \in Ptys : ptys[p].process = "alive" /\ ptys'[p].process = "gone" =>
       LET t == ptys[p].heard
       IN  \/ Restart(t) \/ RestartFails(t) \/ Close(t)
           \/ t \notin present' /\ (~window' \/ terminals[t].root[1] \notin retained')]_vars
==============================================================================
