------------------------- MODULE SlottedPageProofs --------------------------
(***************************************************************************)
(* What Page.Insert keeps, for every page and every cell short enough that *)
(* the 16-bit sum in its test for "page full" does not wrap around.        *)
(***************************************************************************)
EXTENDS SlottedPage, SequenceTheorems, TLAPS

(* The pages over a set of cells. *)
PageOf(Cell) ==
  [type : {1, 2}, slots : Seq([cell : Cell, off : Nat]), free : Nat]

(* The lengths for which HeaderSize + slots + cell + slot stays below 2^16. *)
Short(len) == len < Word - PageSize - SlotSize

(* On a page that is laid out, the test of Insert is the one without        *)
(* overflow, and the new free offset does not wrap around either.           *)
LEMMA RoomIsRoom ==
  ASSUME NEW Cell, NEW pg \in PageOf(Cell), Layout(pg),
         NEW len \in Nat, Short(len)
  PROVE  /\ HasRoom(pg, len) <=>
              HeaderSize + Len(pg.slots) * SlotSize + len + SlotSize <= pg.free
         /\ HasRoom(pg, len) => (pg.free - (len % Word)) % Word = pg.free - len
<1> DEFINE dir == HeaderSize + Len(pg.slots) * SlotSize
<1>1. dir \in Nat /\ pg.free \in Nat /\ dir <= pg.free /\ pg.free <= PageSize
  BY DEF PageOf, Layout, HeaderSize, SlotSize
<1>2. dir % Word = dir /\ len % Word = len /\ (len + SlotSize) % Word = len + SlotSize
  BY <1>1 DEF Short, Word, PageSize, SlotSize
<1>3. (dir + (len + SlotSize)) % Word = dir + (len + SlotSize)
  BY <1>1 DEF Short, Word, PageSize, SlotSize
<1>4. HasRoom(pg, len) <=> dir + (len + SlotSize) <= pg.free
  BY <1>2, <1>3 DEF HasRoom, DirectoryEnd
<1>5. len <= pg.free => (pg.free - len) % Word = pg.free - len
  BY <1>1 DEF Word, PageSize
<1> QED  BY <1>1, <1>2, <1>4, <1>5 DEF SlotSize

(* Page.Insert never lets the directory run into the cells, a cell leave    *)
(* the page or two cells overlap, however full the page is.                 *)
THEOREM InsertKeepsLayout ==
  ASSUME NEW Cell, \A c \in Cell : c.len \in Nat,
         NEW pg \in PageOf(Cell), Layout(pg),
         NEW cell \in Cell, Short(cell.len)
  PROVE  Insert(pg, cell) \in PageOf(Cell) /\ Layout(Insert(pg, cell))
<1>1. CASE ~HasRoom(pg, cell.len)
  BY <1>1 DEF Insert
<1>2. CASE HasRoom(pg, cell.len)
  <2> DEFINE off == pg.free - cell.len
             slots == Append(pg.slots, [cell |-> cell, off |-> off])
             new == [pg EXCEPT !.free = off, !.slots = slots]
             n == Len(pg.slots)
  <2>1. /\ HeaderSize + n * SlotSize + cell.len + SlotSize <= pg.free
        /\ (pg.free - (cell.len % Word)) % Word = off
    BY <1>2, RoomIsRoom
  <2>2. Insert(pg, cell) = new
    BY <1>2, <2>1 DEF Insert, PageOf
  <2>3. n \in Nat /\ pg.free \in Nat /\ cell.len \in Nat /\ pg.free <= PageSize
    BY DEF PageOf, Layout
  <2>4. off \in Nat /\ off <= pg.free /\ HeaderSize + (n + 1) * SlotSize <= off
    BY <2>1, <2>3 DEF HeaderSize, SlotSize
  <2>5. /\ slots \in Seq([cell : Cell, off : Nat]) /\ Len(slots) = n + 1
        /\ slots[n + 1] = [cell |-> cell, off |-> off]
        /\ \A i \in 1 .. n : slots[i] = pg.slots[i]
    BY <2>4 DEF PageOf
  <2>6. new \in PageOf(Cell) /\ new.slots = slots /\ new.free = off
    BY <2>4, <2>5 DEF PageOf
  <2>7. \A i \in 1 .. n :
          /\ pg.slots[i].off \in Nat /\ pg.slots[i].cell.len \in Nat
          /\ pg.free <= pg.slots[i].off
          /\ pg.slots[i].off + pg.slots[i].cell.len <= PageSize
    <3>1. /\ pg.slots \in Seq([cell : Cell, off : Nat]) /\ DOMAIN pg.slots = 1 .. n
      BY DEF PageOf
    <3>2. \A i \in 1 .. n : pg.slots[i] \in [cell : Cell, off : Nat]
      BY <3>1, ElementOfSeq
    <3>3. ASSUME NEW i \in 1 .. n
          PROVE  /\ pg.slots[i].off \in Nat /\ pg.slots[i].cell.len \in Nat
      BY <3>2
    <3>4. \A i \in 1 .. n :
            /\ pg.free <= pg.slots[i].off
            /\ pg.slots[i].off + pg.slots[i].cell.len <= PageSize
      BY <3>1 DEF Layout
    <3> QED  BY <3>3, <3>4
  <2>8. \A i \in 1 .. n + 1 :
          /\ off <= slots[i].off
          /\ slots[i].off + slots[i].cell.len <= PageSize
    <3> SUFFICES ASSUME NEW i \in 1 .. n + 1
                 PROVE  /\ off <= slots[i].off
                        /\ slots[i].off + slots[i].cell.len <= PageSize
      OBVIOUS
    <3>1. CASE i \in 1 .. n
      <4>1. slots[i] = pg.slots[i]  BY <2>5, <3>1
      <4>2. /\ pg.slots[i].off \in Nat /\ pg.free <= pg.slots[i].off
            /\ pg.slots[i].off + pg.slots[i].cell.len <= PageSize
        BY <2>7, <3>1
      <4> QED  BY <2>3, <2>4, <4>1, <4>2
    <3>2. CASE i = n + 1
      BY <2>3, <2>5, <3>2 DEF PageSize
    <3> QED  BY <2>3, <3>1, <3>2
  <2>9. ASSUME NEW i \in 1 .. n + 1, NEW j \in 1 .. n + 1, i < j
        PROVE  slots[j].off + slots[j].cell.len <= slots[i].off
    <3>1. i \in 1 .. n  BY <2>3, <2>9
    <3>2. CASE j \in 1 .. n
      BY <2>5, <2>9, <3>1, <3>2 DEF PageOf, Layout
    <3>3. CASE j = n + 1
      <4>1. slots[j].off + slots[j].cell.len = pg.free
        BY <2>3, <2>5, <3>3
      <4> QED  BY <2>5, <2>7, <3>1, <4>1
    <3> QED  BY <2>3, <3>2, <3>3
  <2>10. DOMAIN slots = 1 .. n + 1  BY <2>5
  <2>11. Layout(new)
    <3> HIDE DEF new, slots, off
    <3>1. off <= PageSize  BY <2>3, <2>4 DEF PageSize
    <3>2. /\ HeaderSize + Len(new.slots) * SlotSize <= new.free
          /\ new.free <= PageSize
      BY <2>4, <2>5, <2>6, <3>1
    <3>3. \A i \in DOMAIN new.slots :
            /\ new.free <= new.slots[i].off
            /\ new.slots[i].off + new.slots[i].cell.len <= PageSize
      BY <2>6, <2>8, <2>10
    <3>4. \A i, j \in DOMAIN new.slots : i < j =>
            new.slots[j].off + new.slots[j].cell.len <= new.slots[i].off
      BY <2>6, <2>9, <2>10
    <3> QED  BY <3>2, <3>3, <3>4 DEF Layout
  <2> QED  BY <2>2, <2>6, <2>11
<1> QED  BY <1>1, <1>2

(* A fresh page is laid out, so that every page rebuilt by Init and Insert  *)
(* (splits, vacuum, redo) starts from the theorems above.                   *)
LEMMA InitLaidOut ==
  ASSUME NEW Cell, NEW type \in {1, 2}
  PROVE  InitPage(type) \in PageOf(Cell) /\ Layout(InitPage(type))
BY DEF InitPage, PageOf, Layout, PageSize, HeaderSize, SlotSize
=============================================================================
