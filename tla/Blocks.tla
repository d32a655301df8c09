-------------------------------- MODULE Blocks --------------------------------
(***************************************************************************)
(* The rectangles of a map: what components/MapEditor.tsx does to one and  *)
(* to a list of them, and what game/blocks.py of the server accepts.       *)
(*                                                                         *)
(* A block has a place, a size, a type, and the options of its type as one *)
(* value: the power of a jump pad, the axis, span and speed of a mover.    *)
(***************************************************************************)
EXTENDS Integers, FiniteSets, SequencesExt

CONSTANTS
  Width, Height,   \* the world
  MinSize,         \* the least side of a block
  Grid,            \* the side of a cell of the editor
  MaxBlocks,       \* the most blocks of a map
  Kinds,           \* block types
  Options          \* options of jump pads and movers; "default" is one

ASSUME WorldAssumption ==
  /\ MinSize \in Nat \ {0} /\ Grid \in Nat \ {0} /\ MaxBlocks \in Nat
  /\ Width \in Nat /\ Height \in Nat /\ MinSize <= Width /\ MinSize <= Height
  /\ "solid" \in Kinds /\ "default" \in Options

NoOption == "none"
Sides    == {"n", "s", "e", "w"}

\* The handles of a block: its corners and the middles of its sides.
Handles == {{"n"}, {"s"}, {"e"}, {"w"},
            {"n", "w"}, {"n", "e"}, {"s", "w"}, {"s", "e"}}

Clamp(v, lo, hi) == IF v < lo THEN lo ELSE IF v > hi THEN hi ELSE v

\* snapTo: Math.round takes a half up.
SnapTo(v) == ((2 * v + Grid) \div (2 * Grid)) * Grid

\* bug: a block may start anywhere in the world
FitStartToWorld(block) ==
  [block EXCEPT !.width = Clamp(block.width, MinSize, Width),
                !.height = Clamp(block.height, MinSize, Height),
                !.x = Clamp(block.x, 0, Width), !.y = Clamp(block.y, 0, Height)]

\* A block into the world: the size first, then the place it leaves.
FitToWorld(block) ==
  LET width  == Clamp(block.width, MinSize, Width)
      height == Clamp(block.height, MinSize, Height)
  IN [block EXCEPT !.width = width, !.height = height,
                   !.x = Clamp(block.x, 0, Width - width),
                   !.y = Clamp(block.y, 0, Height - height)]

Hits(block, at) ==
  /\ at[1] >= block.x /\ at[1] <= block.x + block.width
  /\ at[2] >= block.y /\ at[2] <= block.y + block.height

HasOption(kind) == kind \in {"jump", "mover"}

\* A type has its own options; one that is kept, keeps them.
WithDefaults(block, kind) ==
  [block EXCEPT !.type  = kind,
                !.extra = IF ~HasOption(kind) THEN NoOption
                          ELSE IF block.type = kind /\ block.extra # NoOption
                                 THEN block.extra ELSE "default"]

\* A side that is dragged over the other one becomes the other one.
Resized(base, handle, dx, dy) ==
  LET x0 == IF "w" \in handle THEN base.x + dx ELSE base.x
      y0 == IF "n" \in handle THEN base.y + dy ELSE base.y
      w0 == base.width  + (IF "e" \in handle THEN dx ELSE IF "w" \in handle THEN -dx ELSE 0)
      h0 == base.height + (IF "s" \in handle THEN dy ELSE IF "n" \in handle THEN -dy ELSE 0)
  IN FitToWorld([base EXCEPT !.x = IF w0 < 0 THEN x0 + w0 ELSE x0,
                             !.y = IF h0 < 0 THEN y0 + h0 ELSE y0,
                             !.width  = IF w0 < 0 THEN -w0 ELSE w0,
                             !.height = IF h0 < 0 THEN -h0 ELSE h0])

(***************************************************************************)
(* mergeBlocks                                                             *)
(***************************************************************************)

SameKind(a, b) == a.type = b.type /\ a.type # "mover" /\ a.extra = b.extra

\* bug: blocks of another height are joined too
JoinsRow(prev, block, vertical) ==
  IF vertical
    THEN prev.x = block.x /\ prev.y + prev.height = block.y
    ELSE prev.y = block.y /\ prev.x + prev.width = block.x

\* The block ends where the next one, of the same extent, begins.
Joins(prev, block, vertical) ==
  IF vertical
    THEN prev.x = block.x /\ prev.width = block.width /\ prev.y + prev.height = block.y
    ELSE prev.y = block.y /\ prev.height = block.height /\ prev.x + prev.width = block.x

Joined(prev, block, vertical) ==
  IF vertical THEN [prev EXCEPT !.height = @ + block.height]
              ELSE [prev EXCEPT !.width = @ + block.width]

\* The order in which a pass meets the blocks; what is level stays in order.
Before(a, b, vertical) ==
  IF vertical THEN a.x < b.x \/ (a.x = b.x /\ a.y < b.y)
              ELSE a.y < b.y \/ (a.y = b.y /\ a.x < b.x)

\* The sort is stable: a block comes after those that the order puts first, and
\* after those level with it that came first.
Earlier(list, i, j, vertical) ==
  \/ Before(list[i], list[j], vertical)
  \/ ~Before(list[j], list[i], vertical) /\ i < j

InOrder(list, vertical) ==
  LET place(j) == Cardinality({i \in DOMAIN list : Earlier(list, i, j, vertical)}) + 1
  IN [k \in DOMAIN list |-> list[CHOOSE j \in DOMAIN list : place(j) = k]]

MergePass(list, vertical) ==
  LET add(out, block) ==
        IF /\ out # <<>> /\ Joins(Last(out), block, vertical)
           /\ SameKind(Last(out), block)
          THEN [out EXCEPT ![Len(out)] = Joined(@, block, vertical)]
          ELSE Append(out, block)
  IN FoldLeft(add, <<>>, InOrder(list, vertical))

MergeBlocks(list) == MergePass(MergePass(list, FALSE), TRUE)

(***************************************************************************)
(* The server                                                              *)
(***************************************************************************)

\* blocks.normalize: sizes first, then places, then the options of the type.
Normalize(raw) ==
  LET width  == Clamp(raw.width, MinSize, Width)
      height == Clamp(raw.height, MinSize, Height)
      kind   == IF raw.type \in Kinds THEN raw.type ELSE "solid"
  IN [raw EXCEPT !.x = Clamp(raw.x, 0, Width - width),
                 !.y = Clamp(raw.y, 0, Height - height),
                 !.width = width, !.height = height, !.type = kind,
                 !.extra = IF ~HasOption(kind) THEN NoOption
                           ELSE IF raw.extra \in Options THEN raw.extra ELSE "default"]

\* blocks.normalize_all: the list is cut at the limit.
NormalizeAll(raw) ==
  [i \in 1 .. (IF Len(raw) < MaxBlocks THEN Len(raw) ELSE MaxBlocks) |-> Normalize(raw[i])]

(***************************************************************************)
(* What the properties speak of                                            *)
(***************************************************************************)

\* A block the server takes as it is.
LegalBlock(b) ==
  /\ b.x \in Int /\ b.y \in Int /\ b.width \in Int /\ b.height \in Int
  /\ b.width >= MinSize /\ b.height >= MinSize
  /\ b.x >= 0 /\ b.x + b.width <= Width
  /\ b.y >= 0 /\ b.y + b.height <= Height
  /\ b.type \in Kinds
  /\ b.extra \in (IF HasOption(b.type) THEN Options ELSE {NoOption})

\* What lies where: every unit of the world with a type that covers it.
Cells(b) == {<<x, y, b.type, b.extra>> : x \in b.x .. b.x + b.width - 1,
                                         y \in b.y .. b.y + b.height - 1}
Ground(list) == UNION {Cells(list[i]) : i \in DOMAIN list}

Movers(list) == {i \in DOMAIN list : list[i].type = "mover"}
=============================================================================
