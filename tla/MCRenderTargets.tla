--------------------------- MODULE MCRenderTargets ---------------------------
(***************************************************************************)
(* Values of RenderTargets's constants for TLC: a multisampled layer and   *)
(* another one, the first with up to two channels.  And of GLObjects's: an *)
(* object of every kind, two of those that can be moved, and the window's  *)
(* rectangle.                                                              *)
(*                                                                         *)
(* The run checks what is drawn where and who owns the names beside each   *)
(* other: one of the two moves only while the other is where it began.     *)
(***************************************************************************)
EXTENDS RenderTargets, GLObjects, FiniteSetsExt

MCLayers == {"ms", "plain"}
MCMultisampled == {"ms"}
MCMaxChannels == [l \in MCLayers |-> IF l = "ms" THEN 2 ELSE 1]

MCMembers == {"full_rect"}
MCObjects == MCMembers \cup {"t1", "t2", "g1", "g2", "s1", "s2", "l1", "l2", "stage", "ubo"}
MCKind ==
    [o \in MCObjects |->
        CASE o \in {"t1", "t2"} -> "texture"
          [] o \in MCMembers \cup {"g1", "g2"} -> "geometry"
          [] o \in {"s1", "s2"} -> "shader"
          [] o \in {"l1", "l2"} -> "layer"
          [] o = "stage" -> "stage"
          [] o = "ubo" -> "buffer"]

(* any name that is free would do; the smallest *)
MCFree(used) == IF used = Names THEN {} ELSE {Min(Names \ used)}

MCInit == Init /\ ObjectsInit
TargetStep == ObjectsInit /\ Next /\ UNCHANGED object_vars
ObjectStep == Init /\ ~gl.cleared["window"] /\ ObjectsNext /\ UNCHANGED vars
MCSpec == MCInit /\ [][TargetStep \/ ObjectStep]_<<vars, object_vars>>
===============================================================================
