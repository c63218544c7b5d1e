----------------------------- MODULE SlottedPage -----------------------------
(***************************************************************************)
(* The slotted page of page.go with its 16-bit arithmetic, and the sizes   *)
(* of the cells of cell.go.  A cell is a record with its length in bytes;  *)
(* a slot is a cell and the offset at which its bytes lie.                 *)
(***************************************************************************)
EXTENDS Integers, Sequences, SequencesExt

PageSize == 4096
HeaderSize == 32
SlotSize == 4
Word == 65536      \* lengths and offsets are uint16

KeyCellSize(keyLen) == 4 + 2 + keyLen
KVCellSize(keyLen, valueLen) == 1 + 2 + 2 + keyLen + valueLen

(* Page.Init *)
InitPage(type) == [type |-> type, slots |-> <<>>, free |-> PageSize]

DirectoryEnd(pg) == (HeaderSize + Len(pg.slots) * SlotSize) % Word

(* Mutant: the new directory entry is not counted. *)
HasRoomForCell(pg, len) ==
  (DirectoryEnd(pg) + (len % Word)) % Word <= pg.free

(* The test of Page.Insert for "page full". *)
HasRoom(pg, len) ==
  LET neededSpace == ((len % Word) + SlotSize) % Word
  IN  (DirectoryEnd(pg) + neededSpace) % Word <= pg.free

(* Page.Insert; a caller that ignores the error goes on with the same page. *)
Insert(pg, cell) ==
  LET offset == (pg.free - (cell.len % Word)) % Word
  IN  IF HasRoom(pg, cell.len)
      THEN [pg EXCEPT !.free = offset,
                      !.slots = Append(@, [cell |-> cell, off |-> offset])]
      ELSE pg

(* Page.Get for all slots. *)
CellsOf(pg) == [i \in DOMAIN pg.slots |-> pg.slots[i].cell]

(* Init followed by Insert of every cell, errors ignored. *)
Rebuild(type, cells) == FoldLeft(Insert, InitPage(type), cells)

(* totalSpaceNeeded of upsertCell. *)
SpaceNeeded(cells) == FoldLeft(LAMBDA n, c : n + SlotSize + c.len, HeaderSize, cells)

(* Cells lie above the directory, inside the page and do not overlap, so    *)
(* that Get returns what Insert stored.                                     *)
Layout(pg) ==
  /\ HeaderSize + Len(pg.slots) * SlotSize <= pg.free
  /\ pg.free <= PageSize
  /\ \A i \in DOMAIN pg.slots :
       /\ pg.free <= pg.slots[i].off
       /\ pg.slots[i].off + pg.slots[i].cell.len <= PageSize
  /\ \A i, j \in DOMAIN pg.slots :
       i < j => pg.slots[j].off + pg.slots[j].cell.len <= pg.slots[i].off
=============================================================================
