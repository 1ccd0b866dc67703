------------------------------ MODULE MCSorties ------------------------------
(* A chapter of two enemy positions, a boss that comes after two kills, a   *)
(* box and a free position.                                                *)
EXTENDS Sorties, TLC

TwoWaves == <<1, 2>>
ThreeStars == <<<<"boss", 1>>, <<"enemy", 2>>, <<"clear", 1>>>>
AnyPlace == Permutations(EnemyPos)
=============================================================================
