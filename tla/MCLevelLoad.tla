----------------------------- MODULE MCLevelLoad ----------------------------
(* Instances of LevelLoad for TLC.  Each level has code whose link takes   *)
(* several frames, a texture page that is moved later, which is larger     *)
(* than the linker copies in one call, one more object and the bsp.        *)
EXTENDS LevelLoad

CONSTANTS a, b, lost

NumObjsValue == [l \in Levels |-> 4]
WorkValue == [l \in Levels |-> <<2, 1, 0, 1>>]
TexValue == [l \in Levels |-> 2]

Pairs == {<<a, b>>, <<b, NoLevel>>, <<a, lost>>}
=============================================================================
