------------------------------ MODULE Decoder ------------------------------
(***************************************************************************)
(* An AV1 decoder as far as this encoder's stream exercises it: eight      *)
(* reference slots, pictures shown at once or by a later show_existing     *)
(* header, one shown picture per temporal unit.  The decoder is not part   *)
(* of the repository; what it must hold is read off what the encoder       *)
(* writes (encode_ra_window, write_show_existing_obu, refresh_frame_mask). *)
(*                                                                         *)
(* An OBU is a record with field kind: "td", "frame" (with the decided     *)
(* picture) or "show" (with a slot).                                       *)
(***************************************************************************)
EXTENDS Naturals, Sequences

CONSTANT Empty  \* what a slot holds before the first key frame

TD == [kind |-> "td"]
Frame(pic) == [kind |-> "frame", pic |-> pic]
ShowExisting(slot) == [kind |-> "show", slot |-> slot]

\* slots: the display order of the picture in each slot; shown: the display
\* orders of the pictures shown so far; damaged: the pictures decoded with a
\* reference other than the one the encoder predicted from.
InitDecoder == [slots |-> [s \in 0..7 |-> Empty], shown |-> <<>>, damaged |-> {}]

RefsMatch(slots, pic) ==
  \A i \in 1..Len(pic.refs) : slots[pic.refs[i]] = pic.ref_pocs[i]

DecodeFrame(dec, pic) ==
  [slots   |-> [s \in 0..7 |-> IF s \in pic.refresh THEN pic.poc ELSE dec.slots[s]],
   shown   |-> IF pic.show THEN Append(dec.shown, pic.poc) ELSE dec.shown,
   damaged |-> IF RefsMatch(dec.slots, pic) THEN dec.damaged ELSE dec.damaged \cup {pic.poc}]

DecodeObu(dec, obu) ==
  CASE obu.kind = "td"    -> dec
    [] obu.kind = "frame" -> DecodeFrame(dec, obu.pic)
    [] obu.kind = "show"  -> [dec EXCEPT !.shown = Append(@, dec.slots[obu.slot])]

\* The decoder after each of the OBUs, and after all of them.
DecodeWalk(dec, obus) ==
  LET walk[i \in 0..Len(obus)] == IF i = 0 THEN dec ELSE DecodeObu(walk[i - 1], obus[i])
  IN  walk

Decode(dec, obus) == DecodeWalk(dec, obus)[Len(obus)]

\* The OBU puts a picture on the screen.
Shows(obu) == obu.kind = "show" \/ (obu.kind = "frame" /\ obu.pic.show)

\* Every temporal unit opens with a delimiter and ends with its one shown picture.
WellFramed(obus) ==
  /\ obus # <<>> => obus[1].kind = "td"
  /\ \A i \in 1..Len(obus) :
        Shows(obus[i]) <=> (i = Len(obus) \/ obus[i + 1].kind = "td")
=============================================================================
