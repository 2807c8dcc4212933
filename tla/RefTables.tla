----------------------------- MODULE RefTables -----------------------------
(***************************************************************************)
(* The constant tables of picture decision: which temporal layer and coded *)
(* position a mini-GOP position has (port_picstruct/mini_gop.rs), which    *)
(* DPB slots a picture references and which slot is shown after it         *)
(* (port_picstruct_ra.rs), and which pictures are references at all        *)
(* (port_picstruct/refs.rs).                                               *)
(*                                                                         *)
(* A slot is named as the source names it: B2, B1, B0 are Base2 (newest),  *)
(* Base1 and Base0; L1c, L1p are Lay1Cur and Lay1Prev; L2, L3, L4 are the  *)
(* single slots of the deeper layers.  A row lists the slots of            *)
(* LAST, LAST2, LAST3, GOLD, BWD, ALT2, ALT in this order.                 *)
(***************************************************************************)
EXTENDS Naturals, Sequences

LAST == 1
LAST2 == 2
LAST3 == 3
GOLD == 4
BWD == 5
ALT2 == 6
ALT == 7

LAY1_OFF == 3
LAY2_OFF == 5
LAY3_OFF == 6
LAY4_OFF == 7

\* Indexed by hierarchical level and pred_struct_position, both from 0.
PRED_STRUCT_TEMPORAL_LAYER == <<
  <<0>>,
  <<0, 1>>,
  <<0, 2, 1, 2>>,
  <<0, 3, 2, 3, 1, 3, 2, 3>>,
  <<0, 4, 3, 4, 2, 4, 3, 4, 1, 4, 3, 4, 2, 4, 3, 4>>,
  <<0, 5, 4, 5, 3, 5, 4, 5, 2, 5, 4, 5, 3, 5, 4, 5, 1, 5, 4, 5, 3, 5, 4, 5, 2, 5, 4, 5,
    3, 5, 4, 5>> >>

PRED_STRUCT_DECODE_ORDER == <<
  <<0>>,
  <<0, 1>>,
  <<0, 2, 1, 3>>,
  <<0, 3, 2, 4, 1, 6, 5, 7>>,
  <<0, 4, 3, 5, 2, 7, 6, 8, 1, 11, 10, 12, 9, 14, 13, 15>>,
  <<0, 5, 4, 6, 3, 8, 7, 9, 2, 12, 11, 13, 10, 15, 14, 16, 1, 20, 19, 21, 18, 23, 22, 24,
    17, 27, 26, 28, 25, 30, 29, 31>> >>

TemporalLayer(hier, position) == PRED_STRUCT_TEMPORAL_LAYER[hier + 1][position + 1]
DecodeOrder(hier, position)   == PRED_STRUCT_DECODE_ORDER[hier + 1][position + 1]

\* is_pic_used_as_ref: 0 keeps no top-layer reference, 1 all, 2 some.
IsPicUsedAsRef(hier, layer, pic_idx, scheme) ==
  \/ layer < hier
  \/ hier = 0
  \/ hier = 1 /\ scheme # 0
  \/ hier \in 2..4 /\ scheme = 1
  \/ hier \in 2..3 /\ scheme = 2 /\ pic_idx = 0
  \/ hier = 4 /\ scheme = 2 /\ pic_idx \in {0, 8}

-----------------------------------------------------------------------------
(* slot_table.  pic_idx is the display position inside the mini-GOP, and     *)
(* more stands for more_5l_refs # 0.  <<>> where the source has no row.      *)

NoRow == <<>>

BaseRow(hier, more) ==
  CASE hier = 4 -> <<"B2", "B0", IF more THEN "L1c" ELSE "B2", "B2", "B2", "B1",
                     IF more THEN "L1p" ELSE "B2">>
    [] hier = 5 -> <<"B2", "B1", "B0", "B2", "B2", "L1c", "B2">>
    [] OTHER    -> <<"B2", "B0", "B2", "B2", "B2", "B1", "B2">>

Layer1Row(hier, scheme) ==
  CASE hier = 1 -> <<"B1", IF scheme = 0 THEN "B0" ELSE "L1c", "B0", "B1", "B2",
                     IF scheme = 0 THEN "B2" ELSE "L1p", "B2">>
    [] hier \in {2, 3} -> <<"B1", "L1c", "B0", "B1", "B2", "B2", "B2">>
    [] hier = 4        -> <<"B1", "L1c", "B0", "B1", "B2", "L2", "B2">>
    [] hier = 5        -> <<"B1", "L1c", "B0", "L1p", "B2", "L2", "L3">>

Layer2Row(hier, pic_idx, more) ==
  CASE hier = 2 /\ pic_idx = 0  -> <<"B1", "L1p", "B0", "B1", "L1c", "B2", "L1c">>
    [] hier = 2 /\ pic_idx = 2  -> <<"L1c", "B1", "L2", "L1c", "B2", "B2", "B2">>
    [] hier = 3 /\ pic_idx = 1  -> <<"B1", "L2", "L1p", "B0", "L1c", "B2", "L1c">>
    [] hier = 3 /\ pic_idx = 5  -> <<"L1c", "L2", "B1", "L1p", "B2", "B2", "B2">>
    [] hier = 4 /\ pic_idx = 3  -> <<"B1", "L2", "L1p", "B0", "L1c", "B2",
                                     IF more THEN "L3" ELSE "L1c">>
    [] hier = 4 /\ pic_idx = 11 -> <<"L1c", "L2", "B1", "L3", "B2", "L4",
                                     IF more THEN "L1p" ELSE "B2">>
    [] hier = 5 /\ pic_idx = 7  -> <<"B1", "L2", "L1p", "B1", "L1c", "B2", "L3">>
    [] hier = 5 /\ pic_idx = 23 -> <<"L1c", "L2", "B1", "L1c", "B2", "L4", "L1p">>
    [] OTHER                    -> NoRow

Layer3Row(hier, pic_idx, more) ==
  CASE hier = 3 /\ pic_idx = 0  -> <<"B1", "L1p", "L3", "B1", "L2", "L1c", "B2">>
    [] hier = 3 /\ pic_idx = 2  -> <<"L2", "B1", "L3", "L2", "L1c", "B2", "L1c">>
    [] hier = 3 /\ pic_idx = 4  -> <<"L1c", "B1", "L3", "L1c", "L2", "B2", "L2">>
    [] hier = 3 /\ pic_idx = 6  -> <<"L2", "L1c", "L3", "L2", "B2", "B2", "B2">>
    [] hier = 4 /\ pic_idx = 1  -> <<"B1", "L3", "L1p", "B0", "L2", "L1c", "B2">>
    [] hier = 4 /\ pic_idx = 5  -> <<"L2", "L3", "B1", "L1p", "L1c", "B2",
                                     IF more THEN "L4" ELSE "L1c">>
    [] hier = 4 /\ pic_idx = 9  -> <<"L1c", "L3", "B1", "L1p", "L2", "B2", "L2">>
    [] hier = 4 /\ pic_idx = 13 -> <<"L2", "L3", "L1c", "B1", "B2", "L4", "B2">>
    [] hier = 5 /\ pic_idx = 3  -> <<"B1", "L3", "L1p", "B0", "L2", "L1c", "B2">>
    [] hier = 5 /\ pic_idx = 11 -> <<"L2", "L3", "B1", "L1p", "L1c", "B2", "L1c">>
    [] hier = 5 /\ pic_idx = 19 -> <<"L1c", "L3", "B1", "L1c", "L2", "B2", "L2">>
    [] hier = 5 /\ pic_idx = 27 -> <<"L2", "L3", "L1c", "B1", "B2", "B0", "B2">>
    [] OTHER                    -> NoRow

Layer4Row(hier, pic_idx, more) ==
  CASE hier = 4 /\ pic_idx = 0  -> <<"B1", "L1p", "L4", "B0", "L3", "L2", "L1c">>
    [] hier = 4 /\ pic_idx = 2  -> <<"L3", "B1", "L4", "L1p", "L2", "L1c", "B2">>
    [] hier = 4 /\ pic_idx = 4  -> <<"L2", "B1", "L4", "L1p", "L3", "L1c", "B2">>
    [] hier = 4 /\ pic_idx = 6  -> <<"L3", "L2", "L4", "B1", "L1c", "B2",
                                     IF more THEN "L1p" ELSE "L1c">>
    [] hier = 4 /\ pic_idx = 8  -> <<"L1c", "B1", "L4", "L1p", "L3", "L2", "B2">>
    [] hier = 4 /\ pic_idx = 10 -> <<"L3", "L1c", "L4", "B1", "L2", "B2", "L2">>
    [] hier = 4 /\ pic_idx = 12 -> <<"L2", "L1c", "L4", "B1", "L3", "B2", "L3">>
    [] hier = 4 /\ pic_idx = 14 -> <<"L3", "L2", "L4", "L1c", "B2", "B1", "B2">>
    [] hier = 5 /\ pic_idx = 1  -> <<"B1", "L4", "L1p", "B2", "L3", "L2", "L1c">>
    [] hier = 5 /\ pic_idx = 5  -> <<"L3", "L4", "B1", "L1p", "L2", "L1c", "B2">>
    [] hier = 5 /\ pic_idx = 9  -> <<"L2", "L4", "B1", "L1p", "L3", "L1c", "B2">>
    [] hier = 5 /\ pic_idx = 13 -> <<"L3", "L4", "L2", "B1", "L1c", "B2", "L1c">>
    [] hier = 5 /\ pic_idx = 17 -> <<"L1c", "L4", "B1", "L1p", "L3", "L2", "B2">>
    [] hier = 5 /\ pic_idx = 21 -> <<"L3", "L4", "L1c", "B1", "L2", "B2", "L2">>
    [] hier = 5 /\ pic_idx = 25 -> <<"L2", "L4", "L1c", "B1", "L3", "B2", "L3">>
    [] hier = 5 /\ pic_idx = 29 -> <<"L3", "L4", "L2", "L1c", "B2", "B1", "B0">>
    [] OTHER                    -> NoRow

Layer5Row(pic_idx) ==
  CASE pic_idx = 0  -> <<"B1", "L1p", "L1c", "B2", "L4", "L3", "L2">>
    [] pic_idx = 2  -> <<"L4", "B1", "L1p", "B2", "L3", "L2", "L1c">>
    [] pic_idx = 4  -> <<"L3", "B1", "L1p", "L3", "L4", "L2", "L1c">>
    [] pic_idx = 6  -> <<"L4", "L3", "B1", "L4", "L2", "L1c", "B2">>
    [] pic_idx = 8  -> <<"L2", "B1", "L1p", "L2", "L4", "L3", "L1c">>
    [] pic_idx = 10 -> <<"L4", "L2", "B1", "L1p", "L3", "L1c", "B2">>
    [] pic_idx = 12 -> <<"L3", "L2", "B1", "L1p", "L4", "L1c", "B2">>
    [] pic_idx = 14 -> <<"L4", "L3", "L2", "L1p", "L1c", "B2", "B1">>
    [] pic_idx = 16 -> <<"L1c", "B1", "L1p", "B2", "L4", "L3", "L2">>
    [] pic_idx = 18 -> <<"L4", "L1c", "B1", "L1p", "L3", "L2", "B2">>
    [] pic_idx = 20 -> <<"L3", "L1c", "B1", "L1p", "L4", "L2", "B2">>
    [] pic_idx = 22 -> <<"L4", "L3", "L1c", "B1", "L2", "B2", "B0">>
    [] pic_idx = 24 -> <<"L2", "L1c", "B1", "L1p", "L4", "L3", "B2">>
    [] pic_idx = 26 -> <<"L4", "L2", "L1c", "B1", "L3", "B2", "B0">>
    [] pic_idx = 28 -> <<"L3", "L2", "L1c", "B1", "L4", "B2", "B0">>
    [] pic_idx = 30 -> <<"L4", "L3", "L2", "B1", "B2", "L1c", "B0">>
    [] OTHER        -> NoRow

SlotTable(hier, layer, pic_idx, scheme, more) ==
  CASE hier \notin 1..5 \/ layer > hier -> NoRow
    [] OTHER -> CASE layer = 0 -> BaseRow(hier, more)
                  [] layer = 1 -> Layer1Row(hier, scheme)
                  [] layer = 2 -> Layer2Row(hier, pic_idx, more)
                  [] layer = 3 -> Layer3Row(hier, pic_idx, more)
                  [] layer = 4 -> Layer4Row(hier, pic_idx, more)
                  [] layer = 5 -> Layer5Row(pic_idx)

\* Mutant of ShowExistingSlot: only the base picture has a row.
ShowExistingSlotBaseOnly(hier, pic_idx) ==
  IF hier \in 1..5 /\ pic_idx = 2 ^ hier - 2 THEN "B2" ELSE ""

\* show_existing_slot: the hidden picture that follows a top-layer picture in
\* display order; "" where the source has none.
ShowExistingSlot(hier, pic_idx) ==
  CASE hier \in 1..5 /\ pic_idx = 2 ^ hier - 2 -> "B2"
    [] hier \in 2..5 /\ pic_idx = 2 ^ (hier - 1) - 2 -> "L1c"
    [] hier = 3 /\ pic_idx \in {0, 4} -> "L2"
    [] hier = 4 /\ pic_idx \in {0, 4, 8, 12} -> "L3"
    [] hier = 4 /\ pic_idx \in {2, 10} -> "L2"
    [] hier = 5 /\ pic_idx \in {0, 4, 8, 12, 16, 20, 24, 28} -> "L4"
    [] hier = 5 /\ pic_idx \in {2, 10, 18, 26} -> "L3"
    [] hier = 5 /\ pic_idx \in {6, 22} -> "L2"
    [] OTHER -> ""
=============================================================================
