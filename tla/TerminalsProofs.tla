---------------------------- MODULE TerminalsProofs ----------------------------
(***************************************************************************)
(* Proofs about Terminals, for any folders, scopes, ceilings and numbers   *)
(* of terminals and shells.                                                *)
(***************************************************************************)
EXTENDS Terminals, FiniteSetTheorems, TLAPS

Lives == {"alive", "ended"}

(* The terminals of pr and the shells of pt own each other. *)
Owners(pr, te, pt, br) ==
  /\ \A p \in Ptys : pt[p].process \in Lives => pt[p].heard \in pr /\ te[pt[p].heard].pty = p
  /\ \A t \in pr :
       /\ te[t].pty # None => pt[te[t].pty].heard = t /\ pt[te[t].pty].process \in Lives
       /\ te[t].status = "running" <=> te[t].pty # None \/ t \in br

(* The tabs of a filing are terminals, and an active one is among them. *)
Tabbed(f) ==
  /\ f \in [roots: SUBSET Roots, tabs: [Roots -> SUBSET Ids],
            active: [Roots -> Ids \cup {None}], present: SUBSET Ids]
  /\ \A r \in Roots : /\ f.tabs[r] # {} => r \in f.roots /\ f.active[r] \in f.tabs[r]
                      /\ \A t \in f.tabs[r] : t \in f.present /\ terminals[t].root = r

(* Its terminals are tabs of their roots. *)
Filed(f) == \A t \in f.present \ stranded : t \in f.tabs[terminals[t].root]

(* What was not made or spawned yet is nowhere, and what is not present is *)
(* nothing.                                                                *)
Fresh ==
  /\ present \subseteq 1 .. made /\ broken \subseteq 1 .. made
  /\ \A p \in Ptys : p > spawned => ptys[p].process = "none"
  /\ \A t \in Ids \ present : terminals[t] = NoTerminal
  /\ \A t \in present : terminals[t].root \in Roots

Shown == \A t \in present \ (stranded \cup early) : terminals[t].root[1] \in retained

Inv ==
  /\ TypeOK /\ Fresh /\ Shown
  /\ Owners(present, terminals, ptys, broken)
  /\ Tabbed(Filing) /\ Filed(Filing)

------------------------------------------------------------------------------
LEMMA IdsAreFinite ==
  /\ Ids \subseteq Nat /\ Ptys \subseteq Nat /\ IsFiniteSet(Ids)
  /\ None \notin Ids /\ None \notin Ptys
  BY BoundsAreNaturals, FS_Interval, NoneIsNothing DEF Ids, Ptys

LEMMA Smaller ==
  ASSUME NEW S \in SUBSET Ids, NEW T \in SUBSET S
  PROVE  /\ IsFiniteSet(S) /\ Cardinality(S) \in Nat
         /\ Cardinality(T) \in Nat /\ Cardinality(T) <= Cardinality(S)
  BY IdsAreFinite, FS_Subset, FS_CardinalityType

LEMMA InitInv == Init => Inv
<1> SUFFICES ASSUME Init PROVE Inv
  OBVIOUS
<1> USE IdsAreFinite, BoundsAreNaturals, CeilingsArePositive DEF Init
<1>1. TypeOK
  <2>1. Cardinality({}) = 0
    BY FS_EmptySet
  <2>2. NoTerminal \in Terminal
    BY DEF NoTerminal, Terminal
  <2> QED BY <2>1, <2>2 DEF TypeOK, Pty
<1>2. Fresh /\ Shown
  BY DEF Fresh, Shown, Ids
<1>3. Owners(present, terminals, ptys, broken)
  BY DEF Owners, Lives
<1>4. Tabbed(Filing) /\ Filed(Filing)
  BY DEF Tabbed, Filed, Filing
<1> QED BY <1>1, <1>2, <1>3, <1>4 DEF Inv

------------------------------------------------------------------------------
(* The shells of the terminals that go are told to end, and the others'    *)
(* stay theirs.                                                            *)
LEMMA OwnersDrop ==
  ASSUME TypeOK, Owners(present, terminals, ptys, broken),
         NEW pr \in SUBSET present, NEW te, NEW br,
         \A t \in pr : te[t] = terminals[t] /\ (t \in br <=> t \in broken)
  PROVE  Owners(pr, te, Disposed(present \ pr), br)
<1> DEFINE pt == Disposed(present \ pr)
<1>1. \A p \in Ptys :
        pt[p] = IF \E t \in present \ pr : terminals[t].pty = p
                THEN [process |-> "gone", heard |-> None] ELSE ptys[p]
  BY DEF Disposed
<1> HIDE DEF pt
<1>2. ASSUME NEW p \in Ptys, pt[p].process \in Lives
      PROVE  pt[p].heard \in pr /\ te[pt[p].heard].pty = p
  <2>1. pt[p] = ptys[p] /\ ~\E t \in present \ pr : terminals[t].pty = p
    BY <1>1, <1>2 DEF Lives
  <2>2. ptys[p].heard \in present /\ terminals[ptys[p].heard].pty = p
    BY <1>2, <2>1 DEF Owners
  <2> QED BY <2>1, <2>2
<1>3. ASSUME NEW t \in pr, te[t].pty # None
      PROVE  pt[te[t].pty].heard = t /\ pt[te[t].pty].process \in Lives
  <2>1. te[t].pty \in Ptys
    BY <1>3 DEF TypeOK, Terminal
  <2>2. ptys[te[t].pty].heard = t /\ ptys[te[t].pty].process \in Lives
    BY <1>3 DEF Owners
  <2>3. ~\E u \in present \ pr : terminals[u].pty = te[t].pty
    <3> SUFFICES ASSUME NEW u \in present \ pr, terminals[u].pty = te[t].pty PROVE FALSE
      OBVIOUS
    <3>1. ptys[te[t].pty].heard = u
      BY <1>3 DEF Owners
    <3> QED BY <3>1, <2>2
  <2> QED BY <1>1, <2>1, <2>2, <2>3
<1>4. \A t \in pr : te[t].status = "running" <=> te[t].pty # None \/ t \in br
  BY DEF Owners
<1> QED BY <1>2, <1>3, <1>4 DEF Owners, pt

(* A terminal without a shell may join. *)
LEMMA OwnersRest ==
  ASSUME NEW pr, NEW t, NEW te, NEW pt, NEW br,
         Owners(pr \ {t}, te, pt, br),
         te[t].pty = None, te[t].status = "running" <=> t \in br
  PROVE  Owners(pr \cup {t}, te, pt, br)
  BY DEF Owners

LEMMA OwnersSpawn ==
  ASSUME TypeOK, Fresh, NEW pr \in SUBSET Ids, NEW t \in Ids, NEW r \in Roots,
         NEW kept \in [Ids -> Terminal], NEW before \in [Ptys -> Pty], NEW br,
         Owners(pr \ {t}, kept, before, br), t \notin br,
         \A p \in Ptys : p > spawned => before[p].process = "none",
         Spawns(t, r, kept, before)
  PROVE  /\ Owners(pr \cup {t}, terminals', ptys', br)
         /\ terminals' \in [Ids -> Terminal] /\ ptys' \in [Ptys -> Pty]
         /\ spawned' \in 0 .. MaxPtys
         /\ \A p \in Ptys : p > spawned' => ptys'[p].process = "none"
         /\ terminals'[t].root = r
         /\ \A u \in Ids \ {t} : terminals'[u] = kept[u]
<1> USE IdsAreFinite, BoundsAreNaturals
<1>1. CASE
        /\ spawned < MaxPtys
        /\ spawned' = spawned + 1
        /\ terminals' = [kept EXCEPT ![t] = [root |-> r, status |-> "running", pty |-> spawned + 1]]
        /\ ptys' = [before EXCEPT ![spawned + 1] = [process |-> "alive", heard |-> t]]
  <2>1. spawned \in Nat /\ spawned + 1 \in Ptys /\ spawned' \in 0 .. MaxPtys
    BY <1>1 DEF TypeOK, Ptys
  <2>2. /\ terminals' \in [Ids -> Terminal] /\ ptys' \in [Ptys -> Pty]
        /\ terminals'[t] = [root |-> r, status |-> "running", pty |-> spawned + 1]
        /\ \A u \in Ids \ {t} : terminals'[u] = kept[u]
        /\ ptys'[spawned + 1] = [process |-> "alive", heard |-> t]
        /\ \A p \in Ptys \ {spawned + 1} : ptys'[p] = before[p]
    BY <1>1, <2>1 DEF Terminal, Pty
  <2>3. before[spawned + 1].process \notin Lives
    BY <2>1 DEF Lives
  <2>4. \A p \in Ptys : ptys'[p].process \in Lives =>
          ptys'[p].heard \in pr \cup {t} /\ terminals'[ptys'[p].heard].pty = p
    <3> TAKE p \in Ptys
    <3>1. CASE p = spawned + 1
      BY <3>1, <2>2
    <3>2. CASE p # spawned + 1
      <4>1. ptys'[p] = before[p]
        BY <3>2, <2>2
      <4>2. before[p].process \in Lives =>
              before[p].heard \in pr \ {t} /\ kept[before[p].heard].pty = p
        BY DEF Owners
      <4> QED BY <4>1, <4>2, <2>2
    <3> QED BY <3>1, <3>2
  <2>5. \A u \in pr \cup {t} :
          /\ terminals'[u].pty # None => /\ ptys'[terminals'[u].pty].heard = u
                                         /\ ptys'[terminals'[u].pty].process \in Lives
          /\ terminals'[u].status = "running" <=> terminals'[u].pty # None \/ u \in br
    <3> TAKE u \in pr \cup {t}
    <3>1. CASE u = t
      BY <3>1, <2>1, <2>2 DEF Lives
    <3>2. CASE u # t
      <4>1. /\ terminals'[u] = kept[u] /\ u \in pr \ {t} /\ u \in Ids
            /\ kept[u].pty \in Ptys \cup {None}
        BY <3>2, <2>2 DEF Terminal
      <4>2. kept[u].pty # None =>
              kept[u].pty # spawned + 1 /\ before[kept[u].pty].heard = u
                /\ before[kept[u].pty].process \in Lives
        BY <4>1, <2>3 DEF Owners
      <4>3. kept[u].status = "running" <=> kept[u].pty # None \/ u \in br
        BY <4>1 DEF Owners
      <4> QED BY <4>1, <4>2, <4>3, <2>2
    <3> QED BY <3>1, <3>2
  <2>6. \A p \in Ptys : p > spawned' => ptys'[p].process = "none"
    BY <1>1, <2>1, <2>2
  <2> QED BY <2>1, <2>2, <2>4, <2>5, <2>6 DEF Owners
<1>2. CASE
        /\ terminals' = [kept EXCEPT ![t] = [root |-> r, status |-> "error", pty |-> None]]
        /\ ptys' = before
        /\ UNCHANGED spawned
  <2>1. /\ terminals' \in [Ids -> Terminal]
        /\ terminals'[t] = [root |-> r, status |-> "error", pty |-> None]
        /\ \A u \in Ids \ {t} : terminals'[u] = kept[u]
    BY <1>2 DEF Terminal
  <2>2. Owners(pr \ {t}, terminals', ptys', br)
    BY <1>2, <2>1 DEF Owners
  <2>3. Owners(pr \cup {t}, terminals', ptys', br)
    <3>1. terminals'[t].pty = None
      BY <2>1
    <3>2. terminals'[t].status = "running" <=> t \in br
      BY <2>1
    <3> QED BY ONLY <2>2, <3>1, <3>2, OwnersRest
  <2> QED BY <1>2, <2>1, <2>3 DEF TypeOK
<1> QED BY <1>1, <1>2 DEF Spawns

------------------------------------------------------------------------------
LEMMA EnsuredFiled ==
  ASSUME Inv, NEW r \in Roots
  PROVE  /\ Tabbed(Ensured(r)) /\ Filed(Ensured(r))
         /\ Ensured(r).present = present /\ Ensured(r).tabs = tabs
  BY DEF Inv, Tabbed, Filed, Ensured, Filing

(* removeSession leaves a filing of the other terminals. *)
LEMMA RemovalsFiled ==
  ASSUME Inv, NEW g, Tabbed(g), Filed(g), g.present = present,
         NEW t \in present, NEW f \in Removals(g, t)
  PROVE  /\ Tabbed(f) /\ Filed(f) /\ f.present = present \ {t}
         /\ \A r \in Roots : f.tabs[r] \subseteq g.tabs[r]
<1> DEFINE r == terminals[t].root
           left == g.tabs[r] \ {t}
<1>1. r \in Roots /\ r \in g.roots /\ t \in Ids
  BY DEF Removals, Inv, Fresh, TypeOK
<1>2. \A u \in present : terminals[u].root \in Roots
  BY DEF Inv, Fresh
<1>3. CASE left = {}
  <2>1. f = [g EXCEPT !.roots = @ \ {r}, !.tabs[r] = {}, !.active[r] = None,
                      !.present = @ \ {t}]
    BY <1>1, <1>3 DEF Removals
  <2>2. f.present = present \ {t} /\ \A q \in Roots : f.tabs[q] = g.tabs[q] \ {t}
    BY <2>1, <1>1, <1>3 DEF Tabbed
  <2>3. f \in [roots: SUBSET Roots, tabs: [Roots -> SUBSET Ids],
               active: [Roots -> Ids \cup {None}], present: SUBSET Ids]
    BY <2>1, <1>1 DEF Tabbed
  <2>4. \A q \in Roots : f.tabs[q] # {} => q \in f.roots /\ f.active[q] \in f.tabs[q]
    <3> SUFFICES ASSUME NEW q \in Roots, f.tabs[q] # {}
                 PROVE  q \in f.roots /\ f.active[q] \in f.tabs[q]
      OBVIOUS
    <3>1. q # r /\ g.tabs[q] = f.tabs[q]
      BY <2>1, <1>1 DEF Tabbed
    <3>2. f.active[q] = g.active[q] /\ f.roots = g.roots \ {r}
      BY <2>1, <3>1 DEF Tabbed
    <3> QED BY <3>1, <3>2 DEF Tabbed
  <2>5. \A q \in Roots : \A u \in f.tabs[q] : u \in f.present /\ terminals[u].root = q
    BY <2>2 DEF Tabbed
  <2>6. Filed(f)
    BY <2>2, <1>2 DEF Filed
  <2> QED BY <2>2, <2>3, <2>4, <2>5, <2>6 DEF Tabbed
<1>4. CASE left # {}
  <2> PICK next \in left :
        f = [g EXCEPT !.tabs[r] = left, !.active[r] = IF @ = t THEN next ELSE @,
                      !.present = @ \ {t}]
    BY <1>1, <1>4 DEF Removals
  <2>2. f.present = present \ {t} /\ \A q \in Roots : f.tabs[q] = g.tabs[q] \ {t}
    BY <1>1 DEF Tabbed
  <2>3. left \subseteq Ids
    BY <1>1 DEF Tabbed
  <2>4. f \in [roots: SUBSET Roots, tabs: [Roots -> SUBSET Ids],
               active: [Roots -> Ids \cup {None}], present: SUBSET Ids]
    BY <1>1, <2>3 DEF Tabbed
  <2>5. \A q \in Roots : f.tabs[q] # {} => q \in f.roots /\ f.active[q] \in f.tabs[q]
    <3> SUFFICES ASSUME NEW q \in Roots, f.tabs[q] # {}
                 PROVE  q \in f.roots /\ f.active[q] \in f.tabs[q]
      OBVIOUS
    <3>1. q \in g.roots /\ g.active[q] \in g.tabs[q] /\ f.roots = g.roots
      BY <2>2 DEF Tabbed
    <3>2. CASE q = r
      <4>1. f.active[q] = IF g.active[q] = t THEN next ELSE g.active[q]
        BY <3>2, <1>1 DEF Tabbed
      <4> QED BY <4>1, <3>1, <3>2, <2>2
    <3>3. CASE q # r
      <4>1. f.active[q] = g.active[q] /\ f.tabs[q] = g.tabs[q]
        BY <3>3, <1>1 DEF Tabbed
      <4> QED BY <4>1, <3>1
    <3> QED BY <3>2, <3>3
  <2>6. \A q \in Roots : \A u \in f.tabs[q] : u \in f.present /\ terminals[u].root = q
    BY <2>2 DEF Tabbed
  <2>7. Filed(f)
    BY <2>2, <1>2 DEF Filed
  <2>8. Tabbed(f)
    BY <2>4, <2>5, <2>6 DEF Tabbed
  <2>9. \A q \in Roots : f.tabs[q] \subseteq g.tabs[q]
    BY <2>2
  <2> QED BY ONLY <2>2, <2>7, <2>8, <2>9
<1> QED BY <1>3, <1>4

(* Room is made, if at all, by one terminal that does not run. *)
LEMMA RoomsFiled ==
  ASSUME Inv, NEW r \in Roots, NEW f \in Rooms(r)
  PROVE  /\ Tabbed(f) /\ Filed(f) /\ f.present \subseteq present
         /\ \A t \in present \ f.present : terminals[t].pty = None
         /\ \A q \in Roots : f.tabs[q] \subseteq tabs[q]
         /\ Cardinality(f.present) < Total
<1>1. /\ IsFiniteSet(present) /\ Cardinality(present) \in Nat /\ Cardinality(present) <= Total
      /\ Total \in Nat
  BY Smaller, CeilingsArePositive DEF Inv, TypeOK
<1>2. CASE ~Full
  <2>1. f = Ensured(r)
    BY <1>2 DEF Rooms
  <2> QED BY <2>1, <1>1, <1>2, EnsuredFiled DEF Full
<1>3. CASE Full
  <2> PICK d \in Dormant : f \in Removals(Ensured(r), d)
    BY <1>3 DEF Rooms
  <2>1. d \in present /\ terminals[d].pty = None
    BY DEF Dormant, Inv, Owners
  <2>2. /\ Tabbed(f) /\ Filed(f) /\ f.present = present \ {d}
        /\ \A q \in Roots : f.tabs[q] \subseteq tabs[q]
    BY <2>1, EnsuredFiled, RemovalsFiled
  <2>3. Cardinality(present \ {d}) = Cardinality(present) - 1
    BY <1>1, <2>1, FS_RemoveElement
  <2> QED BY <1>1, <2>1, <2>2, <2>3
<1> QED BY <1>2, <1>3

LEMMA NothingDisposed ==
  ASSUME TypeOK, NEW ts, \A t \in ts : terminals[t].pty = None
  PROVE  Disposed(ts) = ptys
<1>1. \A p \in Ptys : ~\E t \in ts : terminals[t].pty = p
  BY IdsAreFinite
<1> QED BY <1>1 DEF Disposed, TypeOK

LEMMA DisposedTyped ==
  ASSUME TypeOK, NEW ts
  PROVE  /\ Disposed(ts) \in [Ptys -> Pty]
         /\ \A p \in Ptys : ptys[p].process = "none" =>
              Disposed(ts)[p].process = "none" \/ \E t \in ts : terminals[t].pty = p
  BY DEF Disposed, TypeOK, Pty

(* The shells that are still to be spawned are untouched. *)
LEMMA DisposedFresh ==
  ASSUME Inv, NEW ts \in SUBSET present, NEW p \in Ptys, p > spawned
  PROVE  Disposed(ts)[p].process = "none"
<1>1. ptys[p].process = "none"
  BY DEF Inv, Fresh
<1>2. \A t \in ts : terminals[t].pty # p
  BY <1>1, IdsAreFinite DEF Inv, Owners, Lives
<1> QED BY <1>1, <1>2, DisposedTyped DEF Inv

------------------------------------------------------------------------------
(* Some terminals go, with their shells. *)
LEMMA DropInv ==
  ASSUME Inv, NEW f, Tabbed(f), Filed(f), f.present \subseteq present,
         \A r \in Roots : f.tabs[r] \subseteq tabs[r],
         Files(f), terminals' = Kept(f.present), ptys' = Disposed(present \ f.present),
         UNCHANGED <<workspaces, made, spawned, histories>>,
         retained' \subseteq Folders, window' \in BOOLEAN,
         \A t \in f.present \ (stranded \cup early) : terminals[t].root[1] \in retained'
  PROVE  Inv'
<1> USE DEF Files, histories
<1>1. /\ \A t \in f.present : terminals'[t] = terminals[t]
      /\ \A t \in Ids \ f.present : terminals'[t] = NoTerminal
      /\ terminals' \in [Ids -> Terminal]
  BY DEF Kept, Tabbed, Inv, TypeOK, Terminal, NoTerminal
<1>2. TypeOK'
  <2>1. Cardinality(present') <= Total
    BY Smaller, CeilingsArePositive DEF Inv, TypeOK
  <2>2. \A r \in Roots : Cardinality(tabs'[r]) <= PerRoot
    <3> TAKE r \in Roots
    <3>1. tabs[r] \in SUBSET Ids /\ Cardinality(tabs[r]) <= PerRoot
      BY DEF Inv, TypeOK
    <3> QED BY <3>1, Smaller, CeilingsArePositive
  <2>3. ptys' \in [Ptys -> Pty]
    BY DisposedTyped DEF Inv
  <2> QED BY <1>1, <2>1, <2>2, <2>3 DEF Inv, TypeOK, Tabbed
<1>3. Owners(present', terminals', ptys', broken')
  <2>1. \A t \in f.present : t \in broken' <=> t \in broken
    OBVIOUS
  <2> QED BY <1>1, <2>1, OwnersDrop DEF Inv
<1>4. Fresh'
  <2>1. \A p \in Ptys : p > spawned' => ptys'[p].process = "none"
    BY DisposedFresh
  <2> QED BY <1>1, <2>1 DEF Inv, Fresh
<1>5. Shown'
  BY <1>1 DEF Shown
<1>6. Filing' = [roots |-> f.roots, tabs |-> f.tabs, active |-> f.active, present |-> f.present]
  BY DEF Filing
<1>7. Tabbed(Filing)'
  BY <1>1, <1>6 DEF Tabbed
<1>8. Filed(Filing)'
  BY <1>1, <1>6 DEF Filed
<1> QED BY <1>2, <1>3, <1>4, <1>5, <1>7, <1>8 DEF Inv

LEMMA CreateInv ==
  ASSUME Inv, NEW r \in Roots, Cardinality(tabs[r]) < PerRoot, Create(r)
  PROVE  Inv'
<1> DEFINE t == made + 1
<1> PICK f \in Rooms(r) :
      /\ IF r \in f.roots
         THEN /\ Files([f EXCEPT !.tabs[r] = @ \cup {t}, !.active[r] = t, !.present = @ \cup {t}])
              /\ UNCHANGED stranded
         ELSE /\ Files([f EXCEPT !.present = @ \cup {t}])
              /\ stranded' = stranded \cup {t}
      /\ Spawns(t, r, Kept(f.present), ptys)
  BY DEF Create
<1>1. /\ made' = t /\ broken' = broken
      /\ early' = IF r[1] \in retained THEN early ELSE early \cup {t}
      /\ UNCHANGED outside
  BY DEF Create
<1>2. /\ made \in Nat /\ t \in Ids /\ t \notin present /\ t \notin broken
      /\ made' \in 0 .. MaxTerminals
  BY BoundsAreNaturals DEF Create, Inv, TypeOK, Fresh, Ids
<1>3. /\ Tabbed(f) /\ Filed(f) /\ f.present \subseteq present /\ f.present \subseteq Ids
      /\ \A u \in present \ f.present : terminals[u].pty = None
      /\ \A q \in Roots : f.tabs[q] \subseteq tabs[q]
      /\ Cardinality(f.present) < Total
  BY RoomsFiled, IdsAreFinite DEF Inv, TypeOK
<1> DEFINE kept == Kept(f.present)
<1>4. /\ kept \in [Ids -> Terminal]
      /\ \A u \in f.present : kept[u] = terminals[u]
      /\ \A u \in Ids \ f.present : kept[u] = NoTerminal
  BY <1>3 DEF Kept, Inv, TypeOK, Terminal, NoTerminal
<1>5. Owners(f.present \ {t}, kept, ptys, broken)
  <2>1. f.present \ {t} = f.present
    BY <1>2, <1>3
  <2>2. Disposed(present \ f.present) = ptys
    BY <1>3, NothingDisposed DEF Inv
  <2>3. Owners(f.present, kept, Disposed(present \ f.present), broken)
    BY <1>3, <1>4, OwnersDrop DEF Inv
  <2> QED BY <2>1, <2>2, <2>3
<1>6. /\ Owners(f.present \cup {t}, terminals', ptys', broken)
      /\ terminals' \in [Ids -> Terminal] /\ ptys' \in [Ptys -> Pty]
      /\ spawned' \in 0 .. MaxPtys
      /\ \A p \in Ptys : p > spawned' => ptys'[p].process = "none"
      /\ terminals'[t].root = r
      /\ \A u \in Ids \ {t} : terminals'[u] = kept[u]
  <2>1. ptys \in [Ptys -> Pty] /\ \A p \in Ptys : p > spawned => ptys[p].process = "none"
    BY DEF Inv, TypeOK, Fresh
  <2>2. f.present \in SUBSET Ids /\ TypeOK /\ Fresh
    BY <1>3 DEF Inv
  <2>3. Spawns(t, r, kept, ptys)
    OBVIOUS
  <2>4. t \in Ids /\ t \notin broken /\ kept \in [Ids -> Terminal]
    BY <1>2, <1>4
  <2> PICK pr, n, ke, be, br : pr = f.present /\ n = t /\ ke = kept /\ be = ptys /\ br = broken
    OBVIOUS
  <2>5. /\ pr \in SUBSET Ids /\ n \in Ids /\ ke \in [Ids -> Terminal] /\ be \in [Ptys -> Pty]
        /\ Owners(pr \ {n}, ke, be, br) /\ n \notin br
        /\ \A p \in Ptys : p > spawned => be[p].process = "none"
    BY <1>5, <2>1, <2>2, <2>4
  <2>6. Spawns(n, r, ke, be)
    BY <2>3 DEF Spawns
  <2>7. /\ Owners(pr \cup {n}, terminals', ptys', br)
        /\ terminals' \in [Ids -> Terminal] /\ ptys' \in [Ptys -> Pty]
        /\ spawned' \in 0 .. MaxPtys
        /\ \A p \in Ptys : p > spawned' => ptys'[p].process = "none"
        /\ terminals'[n].root = r
        /\ \A u \in Ids \ {n} : terminals'[u] = ke[u]
    BY ONLY <2>2, <2>5, <2>6, OwnersSpawn, r \in Roots DEF Spawns
  <2> HIDE DEF kept, t
  <2> QED BY <2>7
<1>7. /\ \A u \in f.present : terminals'[u] = terminals[u]
      /\ \A u \in Ids \ (f.present \cup {t}) : terminals'[u] = NoTerminal
  BY <1>2, <1>3, <1>4, <1>6
<1>8. \A u \in f.present : terminals[u].root \in Roots
  BY <1>3 DEF Inv, Fresh
<1> HIDE DEF kept
<1>9. /\ present' = f.present \cup {t}
      /\ Tabbed(Filing)' /\ Filed(Filing)'
      /\ \A q \in Roots \ {r} : tabs'[q] = f.tabs[q]
      /\ tabs'[r] \in {f.tabs[r], f.tabs[r] \cup {t}}
      /\ stranded' \subseteq Ids /\ stranded \subseteq stranded'
  <2> DEFINE g == [roots |-> roots', tabs |-> tabs', active |-> active', present |-> present']
  <2>1. CASE r \in f.roots
    <3>1. /\ Files([f EXCEPT !.tabs[r] = @ \cup {t}, !.active[r] = t, !.present = @ \cup {t}])
          /\ UNCHANGED stranded
      BY <2>1
    <3>2. /\ roots' = f.roots /\ present' = f.present \cup {t}
          /\ tabs' = [f.tabs EXCEPT ![r] = @ \cup {t}]
          /\ active' = [f.active EXCEPT ![r] = t]
      BY <3>1, <1>3 DEF Files, Tabbed
    <3>3. /\ tabs'[r] = f.tabs[r] \cup {t} /\ \A q \in Roots \ {r} : tabs'[q] = f.tabs[q]
          /\ active'[r] = t /\ \A q \in Roots \ {r} : active'[q] = f.active[q]
      BY <3>2, <1>3 DEF Tabbed
    <3>4. /\ roots' \in SUBSET Roots /\ tabs' \in [Roots -> SUBSET Ids]
          /\ active' \in [Roots -> Ids \cup {None}] /\ present' \in SUBSET Ids
      BY <3>2, <1>2, <1>3 DEF Tabbed
    <3>5. \A q \in Roots : tabs'[q] # {} => q \in roots' /\ active'[q] \in tabs'[q]
      BY <2>1, <3>2, <3>3, <1>3 DEF Tabbed
    <3>6. \A q \in Roots : \A u \in tabs'[q] : u \in present' /\ terminals'[u].root = q
      BY <3>2, <3>3, <1>3, <1>6, <1>7 DEF Tabbed
    <3>7. \A u \in present' \ stranded' : u \in tabs'[terminals'[u].root]
      BY <3>1, <3>2, <3>3, <1>3, <1>6, <1>7, <1>8 DEF Filed
    <3>8. Tabbed(Filing)'
      BY <3>4, <3>5, <3>6 DEF Tabbed, Filing
    <3>9. Filed(Filing)'
      BY <3>7 DEF Filed, Filing
    <3>10. stranded' \subseteq Ids /\ stranded \subseteq stranded'
      BY <3>1 DEF Inv, TypeOK
    <3> QED BY <3>2, <3>3, <3>8, <3>9, <3>10
  <2>2. CASE r \notin f.roots
    <3>1. /\ Files([f EXCEPT !.present = @ \cup {t}])
          /\ stranded' = stranded \cup {t}
      BY <2>2
    <3>2. /\ roots' = f.roots /\ present' = f.present \cup {t}
          /\ tabs' = f.tabs /\ active' = f.active
      BY <3>1, <1>3 DEF Files, Tabbed
    <3>4. /\ roots' \in SUBSET Roots /\ tabs' \in [Roots -> SUBSET Ids]
          /\ active' \in [Roots -> Ids \cup {None}] /\ present' \in SUBSET Ids
      BY <3>2, <1>2, <1>3 DEF Tabbed
    <3>5. \A q \in Roots : tabs'[q] # {} => q \in roots' /\ active'[q] \in tabs'[q]
      BY <3>2, <1>3 DEF Tabbed
    <3>6. \A q \in Roots : \A u \in tabs'[q] : u \in present' /\ terminals'[u].root = q
      BY <3>2, <1>3, <1>7 DEF Tabbed
    <3>7. \A u \in present' \ stranded' : u \in tabs'[terminals'[u].root]
      BY <3>1, <3>2, <1>3, <1>7 DEF Filed
    <3>8. Tabbed(Filing)'
      BY <3>4, <3>5, <3>6 DEF Tabbed, Filing
    <3>9. Filed(Filing)'
      BY <3>7 DEF Filed, Filing
    <3>10. stranded' \subseteq Ids /\ stranded \subseteq stranded'
      BY <3>1, <1>2 DEF Inv, TypeOK
    <3> QED BY <3>2, <3>8, <3>9, <3>10
  <2> QED BY <2>1, <2>2
<1>10. TypeOK'
  <2>1. IsFiniteSet(f.present) /\ Cardinality(f.present) \in Nat /\ t \notin f.present
    BY <1>2, <1>3, Smaller
  <2>2. Cardinality(present') = Cardinality(f.present) + 1
    BY <1>9, <2>1, FS_AddElement
  <2>3. Cardinality(present') <= Total
    BY <1>3, <2>1, <2>2, CeilingsArePositive
  <2>4. \A q \in Roots : Cardinality(tabs'[q]) <= PerRoot
    <3> TAKE q \in Roots
    <3>1. /\ tabs[q] \in SUBSET Ids /\ Cardinality(tabs[q]) <= PerRoot
          /\ f.tabs[q] \in SUBSET tabs[q]
      BY <1>3 DEF Inv, TypeOK
    <3>2. /\ IsFiniteSet(f.tabs[q]) /\ Cardinality(f.tabs[q]) \in Nat
          /\ Cardinality(tabs[q]) \in Nat /\ Cardinality(f.tabs[q]) <= Cardinality(tabs[q])
      BY <3>1, Smaller, FS_Subset
    <3>3. Cardinality(f.tabs[q]) <= PerRoot
      BY <3>1, <3>2, CeilingsArePositive
    <3>4. CASE tabs'[q] = f.tabs[q]
      BY <3>3, <3>4
    <3>5. CASE tabs'[q] # f.tabs[q]
      <4>1. q = r /\ tabs'[q] = f.tabs[q] \cup {t} /\ t \notin f.tabs[q]
        BY <3>5, <1>9
      <4>2. Cardinality(tabs'[q]) = Cardinality(f.tabs[q]) + 1
        BY <4>1, <3>2, FS_AddElement
      <4> QED BY <4>1, <4>2, <3>2, CeilingsArePositive
    <3> QED BY <3>4, <3>5
  <2>5. /\ roots' \subseteq Roots /\ tabs' \in [Roots -> SUBSET Ids]
        /\ active' \in [Roots -> Ids \cup {None}] /\ present' \subseteq Ids
    BY <1>9 DEF Tabbed, Filing
  <2>6. early' \subseteq Ids /\ broken' \subseteq Ids
    BY <1>1, <1>2 DEF Inv, TypeOK
  <2>7. workspaces' \subseteq Folders /\ retained' \subseteq Folders /\ window' \in BOOLEAN
    BY <1>1 DEF outside, Inv, TypeOK
  <2> QED BY <1>2, <1>6, <1>9, <2>3, <2>4, <2>5, <2>6, <2>7 DEF TypeOK
<1>11. Fresh'
  <2>1. present' \subseteq 1 .. made' /\ broken' \subseteq 1 .. made'
    BY <1>1, <1>2, <1>3, <1>9 DEF Inv, Fresh
  <2>2. \A u \in Ids \ present' : terminals'[u] = NoTerminal
    BY <1>7, <1>9
  <2>3. \A u \in present' : terminals'[u].root \in Roots
    BY <1>6, <1>7, <1>8, <1>9
  <2> QED BY <1>6, <2>1, <2>2, <2>3 DEF Fresh
<1>12. Shown'
  <2> SUFFICES ASSUME NEW u \in present' \ (stranded' \cup early')
               PROVE  terminals'[u].root[1] \in retained'
    BY DEF Shown
  <2>1. retained' = retained /\ early \subseteq early'
    BY <1>1 DEF outside
  <2>2. CASE u = t
    BY <2>1, <2>2, <1>1, <1>6
  <2>3. CASE u # t
    <3>1. u \in f.present /\ u \in present \ (stranded \cup early)
      BY <2>1, <2>3, <1>3, <1>9
    <3> QED BY <3>1, <2>1, <1>7 DEF Inv, Shown
  <2> QED BY <2>2, <2>3
<1> QED BY <1>1, <1>6, <1>9, <1>10, <1>11, <1>12 DEF Inv

LEMMA CreateFailsInv ==
  ASSUME Inv, NEW r \in Roots, CreateFails(r)
  PROVE  Inv'
<1>1. PICK f : /\ Files(f) /\ Tabbed(f) /\ Filed(f) /\ f.present \subseteq present
               /\ \A q \in Roots : f.tabs[q] \subseteq tabs[q]
               /\ \A t \in present \ f.present : terminals[t].pty = None
  <2>1. CASE \E f \in Rooms(r) : Files(f)
    BY <2>1, RoomsFiled
  <2>2. CASE Files(Ensured(r))
    BY <2>2, EnsuredFiled
  <2> QED BY <2>1, <2>2 DEF CreateFails
<1>2. terminals' = Kept(f.present) /\ ptys' = Disposed(present \ f.present)
  BY <1>1, NothingDisposed DEF CreateFails, Files, shells, Inv
<1>3. /\ UNCHANGED <<workspaces, made, spawned, histories>>
      /\ retained' = retained /\ window' = window
  BY DEF CreateFails, outside, shells
<1>4. /\ retained' \subseteq Folders /\ window' \in BOOLEAN
      /\ \A t \in f.present \ (stranded \cup early) : terminals[t].root[1] \in retained'
  BY <1>1, <1>3 DEF Inv, TypeOK, Shown
<1> QED BY <1>1, <1>2, <1>3, <1>4, DropInv

LEMMA PanelInv ==
  ASSUME Inv, NEW r \in Roots, EnsurePanel(r) \/ CreateSession(r)
  PROVE  Inv'
<1>1. Cardinality(tabs[r]) < PerRoot
  BY FS_EmptySet, CeilingsArePositive DEF EnsurePanel, CreateSession
<1> QED BY <1>1, CreateInv, CreateFailsInv DEF EnsurePanel, CreateSession

LEMMA CloseInv ==
  ASSUME Inv, NEW t \in Ids, Close(t)
  PROVE  Inv'
<1>1. t \in present /\ Tabbed(Filing) /\ Filed(Filing) /\ Filing.present = present
      /\ Filing.tabs = tabs
  BY DEF Close, Inv, Filing
<1> PICK f \in Removals(Filing, t) : Files(f)
  BY DEF Close
<1>2. /\ Tabbed(f) /\ Filed(f) /\ f.present = present \ {t}
      /\ \A q \in Roots : f.tabs[q] \subseteq tabs[q]
  BY <1>1, RemovalsFiled
<1>3. present \ f.present = {t} /\ f.present \subseteq present
  BY <1>1, <1>2
<1>4. terminals' = Kept(f.present) /\ ptys' = Disposed(present \ f.present)
  BY <1>3 DEF Close, Files
<1>5. /\ UNCHANGED <<workspaces, made, spawned, histories>>
      /\ retained' = retained /\ window' = window
  BY DEF Close, outside
<1>6. /\ retained' \subseteq Folders /\ window' \in BOOLEAN
      /\ \A u \in f.present \ (stranded \cup early) : terminals[u].root[1] \in retained'
  BY <1>3, <1>5 DEF Inv, TypeOK, Shown
<1> QED BY <1>2, <1>3, <1>4, <1>5, <1>6, DropInv

(* The terminals of a folder that is gone are tabs of its roots, unless    *)
(* they are stranded.                                                      *)
LEMMA RetainInv ==
  ASSUME Inv, RetainWorkspacePaths
  PROVE  Inv'
<1> DEFINE gone == present \cap UNION {tabs[r] : r \in Unretained}
           f == [roots |-> roots', tabs |-> tabs', active |-> active', present |-> present']
<1>1. /\ roots' = roots \ Unretained
      /\ tabs' = [r \in Roots |-> IF r \in Unretained THEN {} ELSE tabs[r]]
      /\ active' = [r \in Roots |-> IF r \in Unretained THEN None ELSE active[r]]
      /\ present' = present \ gone
      /\ ptys' = Disposed(gone) /\ terminals' = Kept(present')
      /\ retained' = workspaces
      /\ UNCHANGED <<workspaces, window, made, spawned, histories>>
  BY DEF RetainWorkspacePaths
<1>2. /\ Unretained \subseteq Roots /\ roots \subseteq Roots
      /\ tabs \in [Roots -> SUBSET Ids] /\ active \in [Roots -> Ids \cup {None}]
      /\ present \subseteq Ids
      /\ \A r \in Roots : /\ tabs[r] # {} => r \in roots /\ active[r] \in tabs[r]
                          /\ \A t \in tabs[r] : t \in present /\ terminals[t].root = r
  BY DEF Inv, TypeOK, Tabbed, Filing, Unretained
<1>3. Tabbed(f)
  <2>1. f \in [roots: SUBSET Roots, tabs: [Roots -> SUBSET Ids],
               active: [Roots -> Ids \cup {None}], present: SUBSET Ids]
    BY <1>1, <1>2
  <2>2. \A r \in Roots : f.tabs[r] # {} => r \in f.roots /\ f.active[r] \in f.tabs[r]
    BY <1>1, <1>2
  <2>3. \A r \in Roots : \A t \in f.tabs[r] : t \in f.present /\ terminals[t].root = r
    BY <1>1, <1>2
  <2> QED BY <2>1, <2>2, <2>3 DEF Tabbed
<1>4. ASSUME NEW t \in present' \ stranded
      PROVE  /\ terminals[t].root \in Roots /\ terminals[t].root \notin Unretained
             /\ t \in tabs'[terminals[t].root]
  <2>1. /\ t \in present /\ terminals[t].root \in Roots
        /\ t \in tabs[terminals[t].root]
    BY <1>1 DEF Inv, Fresh, Filed, Filing
  <2>2. terminals[t].root \notin Unretained
    BY <1>1, <2>1
  <2> QED BY <1>1, <2>1, <2>2
<1>5. Filed(f)
  BY <1>4 DEF Filed
<1>6. \A t \in present' \ (stranded \cup early) : terminals[t].root[1] \in retained'
  <2> TAKE t \in present' \ (stranded \cup early)
  <2>1. terminals[t].root \in roots /\ terminals[t].root \notin Unretained
    BY <1>1, <1>2, <1>4
  <2> QED BY <2>1, <1>1 DEF Unretained
<1>7. Files(f) /\ f.present \subseteq present /\ present \ f.present = gone
  BY <1>1 DEF Files
<1>8. \A r \in Roots : f.tabs[r] \subseteq tabs[r]
  BY <1>1
<1>9. f.present = present'
  OBVIOUS
<1>10. retained' \subseteq Folders /\ window' \in BOOLEAN
  BY <1>1 DEF Inv, TypeOK
<1> HIDE DEF f, gone
<1> QED BY <1>1, <1>3, <1>5, <1>6, <1>7, <1>8, <1>9, <1>10, DropInv

LEMMA WindowClosesInv ==
  ASSUME Inv, WindowCloses
  PROVE  Inv'
<1> DEFINE f == [roots |-> roots', tabs |-> tabs', active |-> active', present |-> present']
<1>1. /\ roots' = {} /\ tabs' = [r \in Roots |-> {}] /\ active' = [r \in Roots |-> None]
      /\ present' = {} /\ ptys' = Disposed(present) /\ terminals' = Kept(present')
      /\ retained' = retained /\ window' = FALSE
      /\ UNCHANGED <<workspaces, made, spawned, histories>>
  BY DEF WindowCloses
<1>2. Tabbed(f) /\ Filed(f)
  BY <1>1 DEF Tabbed, Filed
<1>3. /\ Files(f) /\ f.present \subseteq present /\ present \ f.present = present
      /\ f.present = present' /\ \A r \in Roots : f.tabs[r] \subseteq tabs[r]
  BY <1>1 DEF Files
<1>4. /\ retained' \subseteq Folders /\ window' \in BOOLEAN
      /\ \A t \in f.present \ (stranded \cup early) : terminals[t].root[1] \in retained'
  BY <1>1 DEF Inv, TypeOK
<1> HIDE DEF f
<1> QED BY <1>1, <1>2, <1>3, <1>4, DropInv

------------------------------------------------------------------------------
(* The filing and the roots of the terminals stay. *)
LEMMA StayInv ==
  ASSUME Inv, UNCHANGED <<outside, roots, tabs, active, present, made, stranded, early>>,
         terminals' \in [Ids -> Terminal], ptys' \in [Ptys -> Pty], spawned' \in 0 .. MaxPtys,
         broken' \subseteq present \cup broken,
         \A t \in present : terminals'[t].root = terminals[t].root,
         \A t \in Ids \ present : terminals'[t] = terminals[t],
         \A p \in Ptys : p > spawned' => ptys'[p].process = "none",
         Owners(present, terminals', ptys', broken')
  PROVE  Inv'
<1> USE DEF outside, Inv
<1>1. broken' \subseteq Ids /\ broken' \subseteq 1 .. made'
  BY DEF TypeOK, Fresh
<1>2. TypeOK'
  BY <1>1 DEF TypeOK
<1>3. Fresh'
  BY <1>1 DEF Fresh
<1>4. Shown'
  BY DEF Shown
<1>5. Filing' = Filing
  BY DEF Filing
<1>6. Tabbed(Filing)'
  BY <1>5 DEF Tabbed, Filing
<1>7. Filed(Filing)'
  BY <1>5 DEF Filed, Filing
<1> QED BY <1>2, <1>3, <1>4, <1>6, <1>7

LEMMA SetActiveInv ==
  ASSUME Inv, NEW t \in Ids, SetActiveSession(t)
  PROVE  Inv'
<1> DEFINE r == terminals[t].root
<1>1. /\ t \in present /\ r \in Roots /\ t \in tabs[r]
      /\ active' = [active EXCEPT ![r] = t]
      /\ UNCHANGED <<outside, roots, tabs, sessions, made, shells, histories>>
  BY DEF SetActiveSession, Inv, Fresh
<1> USE DEF outside, sessions, shells, histories
<1>2. TypeOK' /\ Fresh' /\ Shown' /\ Owners(present', terminals', ptys', broken')
  <2>1. active' \in [Roots -> Ids \cup {None}]
    BY <1>1 DEF Inv, TypeOK
  <2>2. TypeOK'
    BY <1>1, <2>1 DEF Inv, TypeOK
  <2>3. Fresh' /\ Shown'
    BY <1>1 DEF Inv, Fresh, Shown
  <2> QED BY <1>1, <2>2, <2>3 DEF Inv
<1>3. Tabbed(Filing)'
  <2>1. \A q \in Roots : tabs'[q] # {} => q \in roots' /\ active'[q] \in tabs'[q]
    BY <1>1 DEF Inv, TypeOK, Tabbed, Filing
  <2> QED BY <1>1, <1>2, <2>1 DEF Inv, TypeOK, Tabbed, Filing
<1>4. Filed(Filing)'
  BY <1>1 DEF Inv, Filed, Filing
<1> QED BY <1>2, <1>3, <1>4 DEF Inv

LEMMA RestartInv ==
  ASSUME Inv, NEW t \in Ids, Restart(t)
  PROVE  Inv'
<1> DEFINE r == terminals[t].root
           before == Disposed({t})
<1>1. /\ t \in present /\ r \in Roots
      /\ Spawns(t, r, terminals, before)
      /\ broken' = broken \ {t}
      /\ UNCHANGED <<outside, roots, tabs, active, present, made, stranded, early>>
  BY DEF Restart, filing, Inv, Fresh
<1>2. Owners(present \ {t}, terminals, before, broken')
  <2>1. present \ (present \ {t}) = {t}
    BY <1>1
  <2>2. \A u \in present \ {t} : u \in broken' <=> u \in broken
    BY <1>1
  <2>3. Owners(present \ {t}, terminals, Disposed(present \ (present \ {t})), broken')
    BY <2>2, OwnersDrop DEF Inv
  <2> QED BY <2>1, <2>3
<1>3. before \in [Ptys -> Pty] /\ terminals \in [Ids -> Terminal] /\ present \in SUBSET Ids
      /\ TypeOK /\ Fresh /\ t \notin broken'
  BY <1>1, DisposedTyped DEF Inv, TypeOK
<1>4. \A p \in Ptys : p > spawned => before[p].process = "none"
  BY <1>1, DisposedFresh
<1>5. /\ Owners(present \cup {t}, terminals', ptys', broken')
      /\ terminals' \in [Ids -> Terminal] /\ ptys' \in [Ptys -> Pty]
      /\ spawned' \in 0 .. MaxPtys
      /\ \A p \in Ptys : p > spawned' => ptys'[p].process = "none"
      /\ terminals'[t].root = r
      /\ \A u \in Ids \ {t} : terminals'[u] = terminals[u]
  <2> PICK pr, q, ke, be, br :
           pr = present /\ q = r /\ ke = terminals /\ be = before /\ br = broken'
    OBVIOUS
  <2>1. /\ pr \in SUBSET Ids /\ q \in Roots /\ ke \in [Ids -> Terminal] /\ be \in [Ptys -> Pty]
        /\ Owners(pr \ {t}, ke, be, br) /\ t \notin br
        /\ \A p \in Ptys : p > spawned => be[p].process = "none"
        /\ TypeOK /\ Fresh
    BY <1>1, <1>2, <1>3, <1>4
  <2>2. Spawns(t, q, ke, be)
    BY <1>1 DEF Spawns
  <2>3. /\ Owners(pr \cup {t}, terminals', ptys', br)
        /\ terminals' \in [Ids -> Terminal] /\ ptys' \in [Ptys -> Pty]
        /\ spawned' \in 0 .. MaxPtys
        /\ \A p \in Ptys : p > spawned' => ptys'[p].process = "none"
        /\ terminals'[t].root = q
        /\ \A u \in Ids \ {t} : terminals'[u] = ke[u]
    BY ONLY t \in Ids, <2>1, <2>2, OwnersSpawn DEF Spawns
  <2> HIDE DEF before, r
  <2> QED BY <2>3
<1>6. present \cup {t} = present /\ broken' \subseteq present \cup broken
  BY <1>1
<1>7. Owners(present, terminals', ptys', broken')
  BY <1>5, <1>6
<1>8. /\ \A u \in present : terminals'[u].root = terminals[u].root
      /\ \A u \in Ids \ present : terminals'[u] = terminals[u]
  BY <1>1, <1>3, <1>5
<1> QED BY <1>1, <1>5, <1>6, <1>7, <1>8, StayInv

(* A terminal loses its shell, and stays. *)
LEMMA ReleaseInv ==
  ASSUME Inv, NEW t \in present, ptys' = Disposed({t}),
         terminals' \in [Ids -> Terminal], terminals'[t].pty = None,
         terminals'[t].root = terminals[t].root,
         \A u \in Ids \ {t} : terminals'[u] = terminals[u],
         terminals'[t].status = "running" <=> t \in broken',
         broken' \subseteq broken \cup {t}, broken \ {t} \subseteq broken',
         UNCHANGED <<outside, roots, tabs, active, present, made, spawned, stranded, early>>
  PROVE  Inv'
<1>1. Owners(present \ {t}, terminals', ptys', broken')
  <2>1. present \ (present \ {t}) = {t}
    OBVIOUS
  <2>2. \A u \in present \ {t} : terminals'[u] = terminals[u] /\ (u \in broken' <=> u \in broken)
    BY DEF Inv, TypeOK
  <2>3. Owners(present \ {t}, terminals', Disposed(present \ (present \ {t})), broken')
    BY <2>2, OwnersDrop DEF Inv
  <2> QED BY <2>1, <2>3
<1>2. Owners(present \cup {t}, terminals', ptys', broken')
  BY ONLY <1>1, terminals'[t].pty = None, terminals'[t].status = "running" <=> t \in broken',
          OwnersRest
<1>3. present \cup {t} = present /\ broken' \subseteq present \cup broken
  OBVIOUS
<1>4. ptys' \in [Ptys -> Pty] /\ \A p \in Ptys : p > spawned' => ptys'[p].process = "none"
  BY DisposedTyped, DisposedFresh DEF Inv
<1>5. spawned' \in 0 .. MaxPtys
  BY DEF Inv, TypeOK
<1>6. Owners(present, terminals', ptys', broken')
  BY <1>2, <1>3
<1>7. /\ \A u \in present : terminals'[u].root = terminals[u].root
      /\ \A u \in Ids \ present : terminals'[u] = terminals[u]
  BY DEF Inv, TypeOK
<1> QED BY <1>3, <1>4, <1>5, <1>6, <1>7, StayInv

LEMMA RestartFailsInv ==
  ASSUME Inv, NEW t \in Ids, RestartFails(t)
  PROVE  Inv'
<1>1. /\ t \in present /\ ptys' = Disposed({t})
      /\ terminals' = [terminals EXCEPT ![t].pty = None]
      /\ broken' = IF terminals[t].status = "running" THEN broken \cup {t} ELSE broken
      /\ UNCHANGED <<outside, roots, tabs, active, present, made, spawned, stranded, early>>
  BY DEF RestartFails, filing
<1>2. /\ terminals' \in [Ids -> Terminal] /\ terminals'[t].pty = None
      /\ terminals'[t].root = terminals[t].root /\ terminals'[t].status = terminals[t].status
      /\ \A u \in Ids \ {t} : terminals'[u] = terminals[u]
  BY <1>1 DEF Inv, TypeOK, Terminal
<1>3. terminals'[t].status = "running" <=> t \in broken'
  BY <1>1, <1>2 DEF Inv, Owners
<1>4. broken' \subseteq broken \cup {t} /\ broken \ {t} \subseteq broken'
  BY <1>1
<1> QED BY <1>1, <1>2, <1>3, <1>4, ReleaseInv

LEMMA ExitInv ==
  ASSUME Inv, NEW p \in Ptys, Exit(p)
  PROVE  Inv'
<1> DEFINE t == ptys[p].heard
<1>1. /\ t \in present /\ t \in Ids /\ ptys' = Disposed({t})
      /\ terminals' = [terminals EXCEPT ![t].status = "exited", ![t].pty = None]
      /\ broken' = broken \ {t}
      /\ UNCHANGED <<outside, roots, tabs, active, present, made, spawned, stranded, early>>
  BY DEF Exit, filing, Inv, Owners, Lives
<1> HIDE DEF t
<1>2. /\ terminals' \in [Ids -> Terminal] /\ terminals'[t].pty = None
      /\ terminals'[t].root = terminals[t].root /\ terminals'[t].status = "exited"
      /\ \A u \in Ids \ {t} : terminals'[u] = terminals[u]
  BY <1>1 DEF Inv, TypeOK, Terminal
<1>3. terminals'[t].status = "running" <=> t \in broken'
  BY <1>1, <1>2
<1>4. broken' \subseteq broken \cup {t} /\ broken \ {t} \subseteq broken'
  BY <1>1
<1> QED BY <1>1, <1>2, <1>3, <1>4, ReleaseInv

LEMMA ProcessEndsInv ==
  ASSUME Inv, NEW p \in Ptys, ProcessEnds(p)
  PROVE  Inv'
<1>1. /\ ptys[p].process = "alive" /\ ptys' = [ptys EXCEPT ![p].process = "ended"]
      /\ UNCHANGED <<outside, roots, tabs, active, present, made, stranded, early>>
      /\ UNCHANGED <<terminals, spawned, broken>>
  BY DEF ProcessEnds, filing, sessions, histories
<1>2. /\ ptys' \in [Ptys -> Pty] /\ ptys'[p].process = "ended" /\ ptys'[p].heard = ptys[p].heard
      /\ \A q \in Ptys \ {p} : ptys'[q] = ptys[q]
  BY <1>1 DEF Inv, TypeOK, Pty
<1>3. \A q \in Ptys : /\ ptys'[q].heard = ptys[q].heard
                      /\ ptys'[q].process \in Lives <=> ptys[q].process \in Lives
  BY <1>1, <1>2 DEF Lives
<1>4. \A t \in present : terminals[t].pty # None => terminals[t].pty \in Ptys
  BY DEF Inv, TypeOK, Terminal
<1>5. Owners(present, terminals', ptys', broken')
  BY <1>1, <1>3, <1>4 DEF Inv, Owners
<1>6. \A q \in Ptys : q > spawned' => ptys'[q].process = "none"
  BY <1>1, <1>2 DEF Inv, Fresh
<1>7. /\ terminals' \in [Ids -> Terminal] /\ spawned' \in 0 .. MaxPtys
      /\ broken' \subseteq present \cup broken
      /\ \A u \in Ids : terminals'[u] = terminals[u]
  BY <1>1 DEF Inv, TypeOK
<1>8. present \subseteq Ids
  BY DEF Inv, TypeOK
<1> QED BY <1>1, <1>2, <1>5, <1>6, <1>7, <1>8, StayInv

(* What stays but for the workspaces and the window. *)
LEMMA OutsideInv ==
  ASSUME Inv, UNCHANGED <<retained, filing, sessions, made, shells, histories>>,
         workspaces' \subseteq Folders, window' \in BOOLEAN
  PROVE  Inv'
<1> USE DEF filing, sessions, shells, histories
<1>1. TypeOK'
  BY DEF Inv, TypeOK
<1>2. Fresh' /\ Shown'
  BY DEF Inv, Fresh, Shown
<1>3. Tabbed(Filing)'
  BY DEF Inv, Tabbed, Filing
<1>4. Filed(Filing)'
  BY DEF Inv, Filed, Filing
<1> QED BY <1>1, <1>2, <1>3, <1>4 DEF Inv

LEMMA StepInv == Inv /\ [Next]_vars => Inv'
<1> SUFFICES ASSUME Inv, [Next]_vars PROVE Inv'
  OBVIOUS
<1>1. ASSUME NEW r \in Roots, EnsurePanel(r) \/ CreateSession(r) PROVE Inv'
  BY <1>1, PanelInv
<1>2. ASSUME NEW t \in Ids, SetActiveSession(t) PROVE Inv'
  BY <1>2, SetActiveInv
<1>3. ASSUME NEW t \in Ids, Restart(t) PROVE Inv'
  BY <1>3, RestartInv
<1>4. ASSUME NEW t \in Ids, RestartFails(t) PROVE Inv'
  BY <1>4, RestartFailsInv
<1>5. ASSUME NEW t \in Ids, Close(t) PROVE Inv'
  BY <1>5, CloseInv
<1>6. ASSUME NEW p \in Ptys, ProcessEnds(p) PROVE Inv'
  BY <1>6, ProcessEndsInv
<1>7. ASSUME NEW p \in Ptys, Exit(p) PROVE Inv'
  BY <1>7, ExitInv
<1>8. CASE RetainWorkspacePaths
  BY <1>8, RetainInv
<1>9. CASE WindowCloses
  BY <1>9, WindowClosesInv
<1>10. CASE WorkspacesChange \/ WindowOpens \/ UNCHANGED vars
  <2>1. /\ UNCHANGED <<retained, filing, sessions, made, shells, histories>>
        /\ workspaces' \subseteq Folders /\ window' \in BOOLEAN
    BY <1>10 DEF WorkspacesChange, WindowOpens, vars, outside, Inv, TypeOK
  <2> QED BY <2>1, OutsideInv
<1> QED BY <1>1, <1>2, <1>3, <1>4, <1>5, <1>6, <1>7, <1>8, <1>9, <1>10 DEF Next

LEMMA InvHolds == Spec => []Inv
  BY InitInv, StepInv, PTL DEF Spec

------------------------------------------------------------------------------
(* The variables keep their types, and neither a root nor the service ever *)
(* has more terminals than its ceiling, for any folders and ceilings.      *)
THEOREM TypeCorrect == Spec => []TypeOK
<1>1. Inv => TypeOK
  BY DEF Inv
<1> QED BY <1>1, InvHolds, PTL

(* No shell is left without a terminal that listens for its exit, and no   *)
(* terminal shows a shell it does not have, unless its restart failed.     *)
THEOREM ShellsAreOwned == Spec => []ProcessesAreOwned
<1>1. Inv => ProcessesAreOwned
  BY DEF Inv, Owners, Lives, ProcessesAreOwned
<1> QED BY <1>1, InvHolds, PTL

(* Every terminal is a tab of its root and of a workspace the store has,   *)
(* but for those the property names.                                       *)
THEOREM TabsAreFiled == Spec => []TerminalsAreFiled
<1>1. Inv => TerminalsAreFiled
  BY DEF Inv, Tabbed, Filed, Filing, Shown, TerminalsAreFiled
<1> QED BY <1>1, InvHolds, PTL

------------------------------------------------------------------------------
(* A shell that lives is disposed of only with the terminal that hears it. *)
LEMMA DisposedIsOwn ==
  ASSUME Inv, NEW ts \in SUBSET present, NEW p \in Ptys,
         ptys[p].process = "alive", Disposed(ts)[p].process = "gone"
  PROVE  ptys[p].heard \in ts
<1>1. PICK t \in ts : terminals[t].pty = p
  BY DEF Disposed
<1>2. p # None
  BY NoneIsNothing, BoundsAreNaturals DEF Ptys
<1>3. ptys[p].heard = t
  BY <1>1, <1>2 DEF Inv, Owners
<1> QED BY <1>3

LEMMA SpawnsSpare ==
  ASSUME Inv, NEW t, NEW r, NEW kept, NEW before, Spawns(t, r, kept, before),
         NEW p \in Ptys, ptys'[p].process = "gone", before \in [Ptys -> Pty]
  PROVE  before[p].process = "gone"
<1>1. CASE ptys' = before
  BY <1>1
<1>2. CASE ptys' = [before EXCEPT ![spawned + 1] = [process |-> "alive", heard |-> t]]
  BY <1>2
<1> QED BY <1>1, <1>2 DEF Spawns

(* A shell that lives is ended only by its terminal's restart or close,    *)
(* with its workspace, or with the window.                                 *)
THEOREM LiveShellsSpared == Spec => LiveShellsAreSpared
<1> DEFINE Spared(p) ==
      LET t == ptys[p].heard
      IN  \/ Restart(t) \/ RestartFails(t) \/ Close(t)
          \/ t \notin present' /\ (~window' \/ terminals[t].root[1] \notin retained')
<1>1. ASSUME Inv, [Next]_vars, NEW p \in Ptys,
             ptys[p].process = "alive", ptys'[p].process = "gone"
      PROVE  Spared(p)
  <2> DEFINE t == ptys[p].heard
  <2>0. ptys \in [Ptys -> Pty] /\ \A ts : Disposed(ts) \in [Ptys -> Pty]
    BY <1>1 DEF Inv, TypeOK, Disposed, Pty
  <2>1. t \in present /\ terminals[t].pty = p /\ present \subseteq Ids
    BY <1>1 DEF Inv, Owners, Lives, TypeOK
  <2>2. ASSUME NEW r, Create(r) PROVE FALSE
    <3>1. \E f \in Rooms(r) : Spawns(made + 1, r, Kept(f.present), ptys)
      BY <2>2 DEF Create
    <3> QED BY <1>1, <2>0, <3>1, SpawnsSpare
  <2>3. ASSUME NEW r \in Roots, EnsurePanel(r) \/ CreateSession(r) PROVE FALSE
    <3>1. CreateFails(r)
      BY <2>2, <2>3 DEF EnsurePanel, CreateSession
    <3> QED BY <1>1, <3>1 DEF CreateFails, shells
  <2>4. ASSUME NEW u \in Ids, Restart(u) PROVE Spared(p)
    <3>1. u \in present /\ Disposed({u})[p].process = "gone"
      BY <1>1, <2>0, <2>4, SpawnsSpare DEF Restart
    <3>2. t \in {u}
      BY <1>1, <3>1, DisposedIsOwn
    <3> QED BY <2>4, <3>2
  <2>5. ASSUME NEW u \in Ids, RestartFails(u) \/ Close(u) PROVE Spared(p)
    <3>1. u \in present /\ Disposed({u})[p].process = "gone"
      BY <1>1, <2>5 DEF RestartFails, Close
    <3>2. t \in {u}
      BY <1>1, <3>1, DisposedIsOwn
    <3> QED BY <2>5, <3>2
  <2>6. ASSUME NEW q \in Ptys, Exit(q) PROVE FALSE
    <3> DEFINE u == ptys[q].heard
    <3>1. u \in present /\ terminals[u].pty = q /\ ptys[q].process = "ended"
      BY <1>1, <2>6 DEF Exit, Inv, Owners, Lives
    <3>2. Disposed({u})[p].process = "gone"
      BY <1>1, <2>6 DEF Exit
    <3>3. t = u
      BY <1>1, <3>1, <3>2, DisposedIsOwn
    <3>4. p = q
      BY <2>1, <3>1, <3>3
    <3> QED BY <1>1, <3>1, <3>4
  <2>7. ASSUME NEW q \in Ptys, ProcessEnds(q) PROVE FALSE
    BY <1>1, <2>7 DEF ProcessEnds, Inv, TypeOK, Pty
  <2>8. ASSUME RetainWorkspacePaths PROVE Spared(p)
    <3> DEFINE gone == present \cap UNION {tabs[r] : r \in Unretained}
    <3>1. ptys' = Disposed(gone) /\ present' = present \ gone /\ retained' = workspaces
      BY <2>8 DEF RetainWorkspacePaths
    <3>2. t \in gone
      BY <1>1, <3>1, DisposedIsOwn
    <3>3. PICK r \in Unretained : t \in tabs[r]
      BY <3>2
    <3>4. terminals[t].root = r
      BY <1>1, <3>3 DEF Inv, Tabbed, Filing, Unretained
    <3> QED BY <3>1, <3>2, <3>3, <3>4 DEF Unretained
  <2>9. ASSUME WindowCloses PROVE Spared(p)
    BY <2>9 DEF WindowCloses
  <2>10. ASSUME \/ \E u \in Ids : SetActiveSession(u)
                \/ WorkspacesChange \/ WindowOpens \/ UNCHANGED vars
         PROVE  FALSE
    BY <1>1, <2>10 DEF SetActiveSession, WorkspacesChange, WindowOpens, vars, shells
  <2> QED BY <1>1, <2>3, <2>4, <2>5, <2>6, <2>7, <2>8, <2>9, <2>10 DEF Next
<1>2. Inv /\ [Next]_vars
      => [\A p \in Ptys : ptys[p].process = "alive" /\ ptys'[p].process = "gone" => Spared(p)]_vars
  BY <1>1
<1> QED BY <1>2, InvHolds, PTL DEF Spec, LiveShellsAreSpared
==============================================================================
