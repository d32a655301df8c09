----------------------------- MODULE LayoutStore -----------------------------
(***************************************************************************)
(* The layouts a browser keeps: game/layoutStore.ts, and the list of them  *)
(* in components/MapEditor.tsx, with an editor open in each of some tabs.  *)
(*                                                                         *)
(* All tabs share one value of localStorage, which each function reads and *)
(* writes as a whole and in one go; what a tab shows is what its last call *)
(* returned.  A write may fail, and storage may be out of reach.           *)
(***************************************************************************)
EXTENDS Integers, FiniteSets, Sequences

CONSTANTS
  Tabs,        \* browser tabs with the editor open
  SlotNames,   \* names of layouts, trimmed
  MaxSlots,    \* MAX_SLOTS
  MaxSaves     \* bound: saves over a behaviour

ASSUME StoreAssumption == MaxSlots \in Nat \ {0} /\ MaxSaves \in Nat

VARIABLES
  disk,        \* the slots in localStorage, as they were written
  blocked,     \* localStorage can be neither read nor written
  shown,       \* what each tab lists
  clock        \* Date.now: one step for each save

storeVars == <<disk, blocked, shown, clock>>

\* A layout is told from another by when it was saved.
Slot(name) == [name |-> name, at |-> clock + 1]

StoreInit ==
  /\ disk = <<>> /\ blocked = FALSE /\ clock = 0
  /\ shown = [t \in Tabs |-> <<>>]

Slots(list) == {list[i] : i \in DOMAIN list}

\* The order of listLayouts, which a filter keeps: the newest comes first.
NewestFirst(slots) ==
  LET rank(s) == Cardinality({u \in slots : u.at >= s.at})
  IN [k \in 1 .. Cardinality(slots) |-> CHOOSE s \in slots : rank(s) = k]

\* listLayouts: nothing when storage is out of reach.
ListLayouts == IF blocked THEN <<>> ELSE NewestFirst(Slots(disk))

Without(list, name) == NewestFirst({s \in Slots(list) : s.name # name})

\* write: cut to MAX_SLOTS.
Kept(list) == IF Len(list) > MaxSlots THEN SubSeq(list, 1, MaxSlots) ELSE list

\* The tab shows what it wrote, whether or not the write came through; the
\* lists of the other tabs are not told.
Write(t, list) ==
  /\ shown' = [shown EXCEPT ![t] = Kept(list)]
  /\ \/ ~blocked /\ disk' = Kept(list)
     \/ disk' = disk                       \* over quota, or blocked

\* bug: what is written is the tab's own list, not the disk's
SaveLayoutFromScreen(t, name) ==
  /\ clock < MaxSaves /\ clock' = clock + 1
  /\ Write(t, <<Slot(name)>> \o Without(shown[t], name))
  /\ UNCHANGED blocked

\* saveLayout: the name's old layout gives way, the new one comes first.
SaveLayout(t, name) ==
  /\ clock < MaxSaves /\ clock' = clock + 1
  /\ Write(t, <<Slot(name)>> \o Without(ListLayouts, name))
  /\ UNCHANGED blocked

\* deleteLayout: by the name of a slot the tab shows, there any more or not.
DeleteLayout(t, name) ==
  /\ \E i \in DOMAIN shown[t] : shown[t][i].name = name
  /\ Write(t, Without(ListLayouts, name))
  /\ UNCHANGED <<blocked, clock>>

\* The editor is closed and opened again: the list is read anew.
Reopen(t) ==
  /\ shown' = [shown EXCEPT ![t] = ListLayouts]
  /\ UNCHANGED <<disk, blocked, clock>>

\* The browser takes storage away, or gives it back.
Block == blocked' = ~blocked /\ UNCHANGED <<disk, shown, clock>>

StoreNext ==
  \/ \E t \in Tabs, name \in SlotNames : SaveLayout(t, name) \/ DeleteLayout(t, name)
  \/ \E t \in Tabs : Reopen(t)
  \/ Block

StoreSpec == StoreInit /\ [][StoreNext]_storeVars

(***************************************************************************)
(* Properties                                                              *)
(***************************************************************************)

Distinct(list) == \A i, j \in DOMAIN list : list[i].name = list[j].name => i = j

\* Types: a name has one slot, on the disk and on every list, and there are never
\* more slots than MAX_SLOTS.
StoreTypeOK ==
  /\ blocked \in BOOLEAN /\ clock \in 0 .. MaxSaves
  /\ Len(disk) <= MaxSlots /\ Distinct(disk)
  /\ \A t \in Tabs : Len(shown[t]) <= MaxSlots /\ Distinct(shown[t])

\* A layout goes from the disk only when its own name is saved or deleted, or
\* when MAX_SLOTS newer ones are there (the comment on MAX_SLOTS), and not because
\* another tab, or a tab whose own list is old, saves something else.
OnlyTheOldestGo ==
  [][\A s \in Slots(disk) \ Slots(disk') :
       \/ \E t \in Tabs : SaveLayout(t, s.name) \/ DeleteLayout(t, s.name)
       \/ /\ Len(disk') = MaxSlots
          /\ \A u \in Slots(disk') : u.at > s.at]_storeVars
=============================================================================
