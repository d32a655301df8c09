------------------------------ MODULE MapEditor ------------------------------
(***************************************************************************)
(* The map editor of a room's host: components/MapEditor.tsx, the part of  *)
(* screens/RoomScreen.tsx that opens it and sends what it saves, and the   *)
(* handling of set_platforms and reset_platforms in api/ws.py and          *)
(* game/layout.py.  The layouts kept in the browser are one shelf here;    *)
(* LayoutStore is about them.                                              *)
(*                                                                         *)
(* Blocks are known to the program by their index in the list only.  Here  *)
(* each has a name besides, which the program does not see, to say which   *)
(* block it was that the user selected or took.                            *)
(*                                                                         *)
(* A second pointer is not modelled: while one is down, only keys act.     *)
(***************************************************************************)
EXTENDS Blocks, FiniteSets

CONSTANTS
  Points,      \* places of the pointer, in world coordinates
  Numbers,     \* numbers that are typed
  MidHandleMin,\* MID_HANDLE_MIN_SIDE
  Original,    \* the map's own blocks
  MaxEdits     \* bound: what is done in a behaviour

\* The maps of game/maps.py are lists the server itself would take.
ASSUME EditorBounds ==
  /\ MaxEdits \in Nat /\ Points # {} /\ Points \subseteq Int \X Int /\ Numbers \subseteq Int
  /\ Original \in Seq([x : Int, y : Int, width : Int, height : Int,
                       type : Kinds, extra : Options \cup {NoOption}])
  /\ Len(Original) <= MaxBlocks /\ \A i \in DOMAIN Original : LegalBlock(Original[i])

VARIABLES
  \* the room, and what is under way to it
  layout,      \* RoomState.map.platforms
  custom,      \* RoomState.custom_map
  wire,        \* set_platforms or reset_platforms
  shelf,       \* the layout saved last in this browser
  \* the editor
  editing, blocks, tool, selected, drag, draft,
  \* histories
  chosen,      \* the name of the block that was selected
  edits

roomVars   == <<layout, custom, wire>>
editorVars == <<editing, blocks, tool, selected, drag, draft>>
vars == <<roomVars, shelf, editorVars, chosen, edits>>

Nothing == 0                      \* null: no selection, no name
NoDrag  == [kind |-> "none"]
NoDraft == [width |-> 0, height |-> 0]
NoWire  == [type |-> "none"]
Tools   == Kinds \cup {"eraser"}

Named(list)   == [i \in DOMAIN list |->
                    [id |-> i, x |-> list[i].x, y |-> list[i].y, width |-> list[i].width,
                     height |-> list[i].height, type |-> list[i].type, extra |-> list[i].extra]]
Nameless(list) == [i \in DOMAIN list |->
                    [x |-> list[i].x, y |-> list[i].y, width |-> list[i].width,
                     height |-> list[i].height, type |-> list[i].type, extra |-> list[i].extra]]
Loaded(list)  == Named([i \in DOMAIN list |-> WithDefaults(list[i], list[i].type)])

\* A name no block has, nor the selection or the drag.
Names   == {blocks[i].id : i \in DOMAIN blocks} \cup {chosen}
             \cup (IF drag = NoDrag THEN {} ELSE {drag.id})
NewName == CHOOSE n \in 1 .. Cardinality(Names) + 1 : n \notin Names

Init ==
  /\ layout = Original /\ custom = FALSE /\ wire = NoWire /\ shelf = <<>>
  /\ editing = FALSE /\ blocks = <<>> /\ tool = "solid" /\ selected = Nothing
  /\ drag = NoDrag /\ draft = NoDraft
  /\ chosen = Nothing /\ edits = 0

Full    == Len(blocks) >= MaxBlocks
Brush   == IF tool = "eraser" THEN "solid" ELSE tool
Current == selected \in DOMAIN blocks
AtRest  == editing /\ drag = NoDrag

\* The block on top at a place; 0 for none.
BlockAt(at) ==
  LET under == {i \in DOMAIN blocks : Hits(blocks[i], at)}
  IN IF under = {} THEN 0 ELSE CHOOSE i \in under : \A j \in under : j <= i

Edit == editing /\ edits < MaxEdits /\ edits' = edits + 1

Patch(i, block) == blocks' = [blocks EXCEPT ![i] = block]

Select(i, name) == selected' = i /\ chosen' = name

\* bug: the selection keeps its place when a block before it goes
RemoveBlockKeepingPlace(index) ==
  /\ blocks' = IF index \in DOMAIN blocks THEN RemoveAt(blocks, index) ELSE blocks
  /\ selected' = IF selected = index THEN Nothing ELSE selected
  /\ chosen' = IF selected = index THEN Nothing ELSE chosen

\* removeAt: those above move down, and the selection with them.
RemoveBlock(index) ==
  /\ blocks' = IF index \in DOMAIN blocks THEN RemoveAt(blocks, index) ELSE blocks
  /\ selected' = IF selected \in {Nothing, index} THEN Nothing
                 ELSE IF selected > index THEN selected - 1 ELSE selected
  /\ chosen' = IF selected = index THEN Nothing ELSE chosen

(***************************************************************************)
(* Keys                                                                    *)
(***************************************************************************)

\* Delete and Backspace, wherever the focus is.
KeyDelete ==
  /\ Edit /\ selected # Nothing
  /\ RemoveBlock(selected)
  /\ UNCHANGED <<roomVars, shelf, editing, tool, drag, draft>>

\* Arrows move by a cell; with Shift they size.
KeyArrow(dx, dy, shift) ==
  /\ Edit /\ Current
  /\ LET b == blocks[selected]
     IN Patch(selected, FitToWorld(
          IF shift THEN [b EXCEPT !.width = @ + dx, !.height = @ + dy]
                   ELSE [b EXCEPT !.x = @ + dx, !.y = @ + dy]))
  /\ UNCHANGED <<roomVars, shelf, editing, tool, selected, drag, draft, chosen>>

(***************************************************************************)
(* The pointer                                                             *)
(***************************************************************************)

\* The eraser, or the right button with any tool.
PointerErase(at) ==
  /\ AtRest /\ Edit
  /\ drag' = [kind |-> "erase", id |-> Nothing]
  /\ IF BlockAt(at) # 0 THEN RemoveBlock(BlockAt(at)) ELSE UNCHANGED <<blocks, selected, chosen>>
  /\ UNCHANGED <<roomVars, shelf, editing, tool, draft>>

\* On a block: it is selected and taken.
PointerTake(at) ==
  /\ AtRest /\ tool # "eraser" /\ BlockAt(at) # 0
  /\ LET i == BlockAt(at)
     IN /\ Select(i, blocks[i].id)
        /\ tool' = blocks[i].type
        /\ drag' = [kind |-> "move", from |-> at, index |-> i, base |-> blocks[i],
                    id |-> blocks[i].id]
  /\ UNCHANGED <<roomVars, shelf, editing, blocks, draft, edits>>

\* On empty ground: a block is drawn.
PointerDraw(at) ==
  /\ AtRest /\ tool # "eraser" /\ BlockAt(at) = 0 /\ ~Full
  /\ Select(Nothing, Nothing)
  /\ drag' = [kind |-> "draw", from |-> at, id |-> Nothing]
  /\ UNCHANGED <<roomVars, shelf, editing, blocks, tool, draft, edits>>

\* Corners always have a handle, sides when they are long enough.
Visible(block, handle) ==
  \/ Cardinality(handle) = 2
  \/ handle \subseteq {"n", "s"} /\ block.width >= MidHandleMin
  \/ handle \subseteq {"e", "w"} /\ block.height >= MidHandleMin

HandleAt(block, handle) ==
  <<block.x + (IF "w" \in handle THEN 0
               ELSE IF "e" \in handle THEN block.width ELSE block.width \div 2),
    block.y + (IF "n" \in handle THEN 0
               ELSE IF "s" \in handle THEN block.height ELSE block.height \div 2)>>

StartResize(handle) ==
  /\ AtRest /\ Current /\ Visible(blocks[selected], handle)
  /\ drag' = [kind |-> "resize", from |-> HandleAt(blocks[selected], handle),
              index |-> selected, handle |-> handle, base |-> blocks[selected],
              id |-> blocks[selected].id]
  /\ UNCHANGED <<roomVars, shelf, editing, blocks, tool, selected, draft, chosen, edits>>

Box(a, b) ==
  LET x1 == Clamp(SnapTo(a[1]), 0, Width)  y1 == Clamp(SnapTo(a[2]), 0, Height)
      x2 == Clamp(SnapTo(b[1]), 0, Width)  y2 == Clamp(SnapTo(b[2]), 0, Height)
  IN [x |-> IF x1 < x2 THEN x1 ELSE x2, y |-> IF y1 < y2 THEN y1 ELSE y2,
      width  |-> IF x1 < x2 THEN x2 - x1 ELSE x1 - x2,
      height |-> IF y1 < y2 THEN y2 - y1 ELSE y1 - y2]

\* What is dragged is the block at the index it was taken from.
PointerMove(at) ==
  /\ Edit /\ drag # NoDrag
  /\ IF drag.kind = "erase"
       THEN IF BlockAt(at) # 0 THEN RemoveBlock(BlockAt(at)) /\ UNCHANGED draft
                               ELSE UNCHANGED <<blocks, selected, chosen, draft>>
       ELSE LET dx == SnapTo(at[1] - drag.from[1])
                dy == SnapTo(at[2] - drag.from[2])
            IN /\ CASE drag.kind = "draw" ->
                         draft' = Box(drag.from, at) /\ UNCHANGED blocks
                    [] drag.kind # "draw" /\ drag.index \notin DOMAIN blocks ->
                         UNCHANGED <<blocks, draft>>
                    [] drag.kind = "move" /\ drag.index \in DOMAIN blocks ->
                         /\ Patch(drag.index, FitToWorld(
                              [blocks[drag.index] EXCEPT !.x = drag.base.x + dx,
                                                         !.y = drag.base.y + dy]))
                         /\ UNCHANGED draft
                    [] drag.kind = "resize" /\ drag.index \in DOMAIN blocks ->
                         /\ Patch(drag.index, Resized(drag.base, drag.handle, dx, dy))
                         /\ UNCHANGED draft
               /\ UNCHANGED <<selected, chosen>>
  /\ UNCHANGED <<roomVars, shelf, editing, tool, drag>>

\* What has been drawn, or a cell where the pointer was pressed.
PointerUp ==
  /\ editing /\ drag # NoDrag
  /\ drag' = NoDrag /\ draft' = NoDraft
  /\ IF drag.kind # "draw" \/ Full
       THEN UNCHANGED <<blocks, selected, chosen>>
       ELSE LET cell == [x |-> Clamp((drag.from[1] \div Grid) * Grid, 0, Width - Grid),
                         y |-> Clamp((drag.from[2] \div Grid) * Grid, 0, Height - Grid),
                         width |-> Grid, height |-> Grid]
                r == IF draft.width >= MinSize /\ draft.height >= MinSize THEN draft ELSE cell
                drawn == [id |-> NewName, x |-> r.x, y |-> r.y, width |-> r.width,
                          height |-> r.height, type |-> "solid", extra |-> NoOption]
            IN /\ blocks' = Append(blocks, FitToWorld(WithDefaults(drawn, Brush)))
               /\ Select(Len(blocks) + 1, NewName)
  /\ UNCHANGED <<roomVars, shelf, editing, tool, edits>>

(***************************************************************************)
(* The side panel                                                          *)
(***************************************************************************)

\* A tool; the type of the selected block is the one that is picked.
PickTool(next) ==
  /\ AtRest /\ next # tool /\ Edit
  /\ tool' = next
  /\ IF next = "eraser"
       THEN Select(Nothing, Nothing) /\ UNCHANGED blocks
       ELSE /\ UNCHANGED <<selected, chosen>>
            /\ IF Current THEN Patch(selected, WithDefaults(blocks[selected], next))
                          ELSE UNCHANGED blocks
  /\ UNCHANGED <<roomVars, shelf, editing, drag, draft>>

\* The numbers and the options of the selected block.
TypeNumber(field, n) ==
  /\ AtRest /\ Edit /\ Current
  /\ Patch(selected, FitToWorld([blocks[selected] EXCEPT ![field] = n]))
  /\ UNCHANGED <<roomVars, shelf, editing, tool, selected, drag, draft, chosen>>

SetOption(option) ==
  /\ AtRest /\ Edit /\ Current /\ HasOption(blocks[selected].type)
  /\ Patch(selected, FitToWorld([blocks[selected] EXCEPT !.extra = option]))
  /\ UNCHANGED <<roomVars, shelf, editing, tool, selected, drag, draft, chosen>>

\* store: what is on the shelf has been merged.
Store ==
  /\ AtRest /\ blocks # <<>> /\ Edit
  /\ shelf' = Nameless(MergeBlocks(blocks))
  /\ UNCHANGED <<roomVars, editorVars, chosen>>

LoadSlot ==
  /\ AtRest /\ shelf # <<>> /\ Edit
  /\ blocks' = Loaded(shelf)
  /\ Select(Nothing, Nothing)
  /\ UNCHANGED <<roomVars, shelf, editing, tool, drag, draft>>

\* The selection is not cleared.
ClearAll ==
  /\ AtRest /\ Edit
  /\ blocks' = <<>>
  /\ UNCHANGED <<roomVars, shelf, editing, tool, selected, drag, draft, chosen>>

(***************************************************************************)
(* Opening, closing, and the room                                          *)
(***************************************************************************)

OpenEditor ==
  /\ ~editing /\ edits < MaxEdits /\ edits' = edits + 1
  /\ editing' = TRUE /\ blocks' = Loaded(layout)
  /\ UNCHANGED <<roomVars, shelf, tool, selected, drag, draft, chosen>>

Gone ==
  /\ editing' = FALSE /\ blocks' = <<>> /\ tool' = "solid"
  /\ Select(Nothing, Nothing) /\ drag' = NoDrag /\ draft' = NoDraft

\* Esc at any time, the buttons when the pointer is free.
Close ==
  /\ editing /\ Gone
  /\ UNCHANGED <<roomVars, shelf, edits>>

SaveAndApply ==
  /\ AtRest /\ blocks # <<>> /\ wire = NoWire
  /\ wire' = [type |-> "set_platforms", platforms |-> Nameless(MergeBlocks(blocks))]
  /\ Gone
  /\ UNCHANGED <<layout, custom, shelf, edits>>

\* In the editor, and in the room when its layout is not the map's.
ResetToOriginal ==
  /\ AtRest \/ (~editing /\ custom)
  /\ wire = NoWire /\ wire' = [type |-> "reset_platforms"]
  /\ Gone
  /\ UNCHANGED <<layout, custom, shelf, edits>>

\* The server applies it and tells the room; the editor does not look again.
RoomApplies ==
  /\ wire # NoWire /\ wire' = NoWire
  /\ IF wire.type = "reset_platforms"
       THEN layout' = Original /\ custom' = FALSE
       ELSE IF NormalizeAll(wire.platforms) = <<>>
              THEN UNCHANGED <<layout, custom>>
              ELSE layout' = NormalizeAll(wire.platforms) /\ custom' = TRUE
  /\ UNCHANGED <<shelf, editorVars, chosen, edits>>

Keys    == \/ KeyDelete
           \/ \E d \in {-Grid, Grid}, shift \in BOOLEAN :
                KeyArrow(d, 0, shift) \/ KeyArrow(0, d, shift)
Pointer == \/ \E at \in Points : \/ PointerErase(at) \/ PointerTake(at) \/ PointerDraw(at)
                                 \/ PointerMove(at)
           \/ \E handle \in Handles : StartResize(handle)
           \/ PointerUp
Panel   == \/ \E t \in Tools : PickTool(t)
           \/ \E field \in {"x", "y", "width", "height"}, n \in Numbers : TypeNumber(field, n)
           \/ \E option \in Options : SetOption(option)
           \/ Store \/ LoadSlot \/ ClearAll
Next == Keys \/ Pointer \/ Panel \/ OpenEditor \/ Close \/ SaveAndApply
          \/ ResetToOriginal \/ RoomApplies

Spec == Init /\ [][Next]_vars

(***************************************************************************)
(* Properties                                                              *)
(***************************************************************************)

\* Types: every block is one the server would take, and there are never more
\* of them than it takes.
TypeOK ==
  /\ editing \in BOOLEAN /\ custom \in BOOLEAN /\ edits \in 0 .. MaxEdits
  /\ tool \in Tools /\ selected \in 0 .. MaxBlocks
  /\ Len(blocks) <= MaxBlocks /\ Len(layout) <= MaxBlocks
  /\ \A i \in DOMAIN blocks : LegalBlock(blocks[i])
  /\ \A i \in DOMAIN layout : LegalBlock(layout[i])
  /\ \A i \in DOMAIN shelf : LegalBlock(shelf[i])

\* The selection stays with the block the user selected, as long as it is there,
\* whatever is erased below it (removeAt moves it with its block).
SelectionIsTheUsers ==
  /\ Current => blocks[selected].id = chosen
  /\ (\E i \in DOMAIN blocks : blocks[i].id = chosen) => Current

\* What is sent to the room is what was drawn: merging loses and adds no ground
\* of any type, leaves every mover alone and never makes more blocks.
MergeKeepsTheGround ==
  LET merged == MergeBlocks(blocks)
  IN /\ Ground(merged) = Ground(blocks)
     /\ Cardinality(Movers(merged)) = Cardinality(Movers(blocks))
     /\ Len(merged) <= Len(blocks)

\* The server takes a layout as it is: it moves, sizes, cuts off and retypes
\* nothing that the editor sends (the comment on MAX_BLOCKS and MIN_SIZE).
LayoutArrivesAsDrawn ==
  wire.type = "set_platforms" =>
    wire.platforms # <<>> /\ NormalizeAll(wire.platforms) = wire.platforms

\* The comment on onPointerDown: on a block, that block is taken and moved.
\* What is at the index of the drag is the block that was taken, or nothing.
DragHoldsItsBlock ==
  drag.kind \in {"move", "resize"} /\ drag.index \in DOMAIN blocks
    => blocks[drag.index].id = drag.id
=============================================================================
