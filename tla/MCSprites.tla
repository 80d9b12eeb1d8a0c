------------------------------ MODULE MCSprites ------------------------------
(***************************************************************************)
(* Instance of Sprites for TLC: four sprites and two slots on lines of 47  *)
(* dots, which leave the same remainder modulo three as 341, so that the   *)
(* CPU's slots fall on the dots in the same succession as in the code.     *)
(***************************************************************************)
EXTENDS Sprites, Sequences

MCBlank == 60

MCColumns(tile) == IF tile = 0 THEN {} ELSE IF tile = 1 THEN {0, 2} ELSE {0, 1}

Sprite(y, tile, x) == <<y, tile, 1, x>>

OamOf(a, b, c, d) == [i \in 0..15 |-> (a \o b \o c \o d)[i + 1]]

Far == Sprite(40, 1, 9)

Setup(oam, addr, tall, mask) == [oam |-> oam, addr |-> addr, tall |-> tall, mask |-> mask]

\* Sprites to fill the slots and one more, behind one off the line, that only a diagonal
\* search could miss; and a search from the middle of OAM, which is overwritten, with
\* tall sprites, all on the line, one over the last column.
MCPrograms ==
  {Setup(OamOf(Sprite(0, 1, 4), Sprite(0, 2, 4), Far, Sprite(0, 1, 5)), 0, FALSE, Shown),
   Setup(OamOf(Far, Sprite(1, 1, 1), Sprite(0, 2, 38), Sprite(1, 1, 0)), 9, TRUE, Shown)}

MCAccesses ==
  {<<"2000", TRUE>>, <<"2001", {}>>, <<"2001", Shown>>, <<"2003", 6>>, <<"2004", MCBlank>>}

=============================================================================
