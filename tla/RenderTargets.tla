---------------------------- MODULE RenderTargets ----------------------------
(***************************************************************************)
(* What is drawn where in graphics/graphics.cpp: one Window, whose         *)
(* framebuffer is shown by swap(), and Layers, which draw into channels    *)
(* that can be drawn again as textures.  All of them share the OpenGL      *)
(* context: one framebuffer is bound, Window::in_use remembers for whom,   *)
(* and each target has one bit, cleared, that is compared with a bit of    *)
(* the window to find out whether it was cleared in this frame.            *)
(*                                                                         *)
(* A drawing is known by its age in frames; of a picture only the ages of  *)
(* its drawings are kept.  OpenGL is external.  A drawing is taken to      *)
(* reach every colour channel of its target, and depth channels are left   *)
(* out.                                                                    *)
(***************************************************************************)
EXTENDS Integers, Sequences

CONSTANTS
    Layers,         \* the layers that the program may make
    Multisampled,   \* those with multisample set
    MaxChannels     \* bound: the channels that each layer is given

ASSUME RenderAssumption ==
    /\ Multisampled \subseteq Layers
    /\ {"window", "texture"} \cap Layers = {}
    /\ MaxChannels \in [Layers -> Nat]

VARIABLES
    gl,       \* in_use, the framebuffer bound, swapped, every target's cleared,
              \* the window's picture and the layers' channels
    made,     \* the layers that exist
    strayed   \* history: the binding was changed behind in_use's back in this frame

vars == <<gl, made, strayed>>

Targets == Layers \cup {"window"}

(* The ages of drawings: of this frame, of the last or an odd number of    *)
(* frames ago, of an even number.  A picture nothing was drawn into or     *)
(* cleared yet is undefined.                                               *)
Ages == {"undefined", "fresh", "odd", "even"}
Older(a) == CASE a \in {"fresh", "even"} -> "odd" [] a = "odd" -> "even" [] OTHER -> a
Aged(picture) == {Older(a) : a \in picture}

(* A channel: what was drawn into it, what its texture shows (the same if  *)
(* the layer is not multisampled), and whether that texture is the one     *)
(* attached to the layer's framebuffer                                     *)
Channel == [drawn : SUBSET Ages, shown : SUBSET Ages, attached : BOOLEAN]

-------------------------------------------------------------------------------
(* OpenGL: clearing and drawing change the framebuffer that is bound *)

Painted(c, l, picture) ==
    [c EXCEPT !.drawn = picture,
              !.shown = IF l \notin Multisampled /\ c.attached THEN picture ELSE @]

glClear(s) ==
    CASE s.bound \in Layers ->
            [s EXCEPT !.channels[s.bound] =
                [i \in DOMAIN @ |-> Painted(@[i], s.bound, {})]]
      [] s.bound = "window" -> [s EXCEPT !.picture = {}]
      [] OTHER -> s

glDraw(s) ==
    CASE s.bound \in Layers ->
            [s EXCEPT !.channels[s.bound] =
                [i \in DOMAIN @ |-> Painted(@[i], s.bound, @[i].drawn \cup {"fresh"})]]
      [] s.bound = "window" -> [s EXCEPT !.picture = @ \cup {"fresh"}]
      [] OTHER -> s

-------------------------------------------------------------------------------
(* Switching targets *)

(* Layer::finish: what was rendered with multisampling is blitted to the   *)
(* textures                                                                *)
Blitted(c) == [c EXCEPT !.shown = IF c.attached THEN c.drawn ELSE @]

finish(s) ==
    IF s.in_use \in Multisampled
    THEN [s EXCEPT !.channels[s.in_use] = [i \in DOMAIN @ |-> Blitted(@[i])]]
    ELSE s

(* the first half of Layer::use; its mutant leaves the other layer as it is *)
SwitchTo_Unfinished(s, l) == [s EXCEPT !.in_use = l, !.bound = l]

SwitchTo(s, l) == [finish(s) EXCEPT !.in_use = l, !.bound = l]

(* the first half of Window::use; its mutant leaves the framebuffer bound *)
Release_StillBound(s) ==
    IF s.in_use = "window" THEN s ELSE [finish(s) EXCEPT !.in_use = "window"]

Release(s) ==
    IF s.in_use = "window" THEN s
    ELSE [finish(s) EXCEPT !.in_use = "window", !.bound = "window"]

(* clear() marks the target cleared first, so that the use() it calls does *)
(* not clear in turn                                                       *)
clear(s, t) ==
    LET marked == [s EXCEPT !.cleared[t] = s.swapped]
    IN glClear(IF s.in_use = t THEN marked
               ELSE IF t = "window" THEN Release(marked) ELSE SwitchTo(marked, t))

ClearedOnce(s, t) == IF s.cleared[t] = s.swapped THEN s ELSE clear(s, t)

(* mutant of use: a window that is in use is not cleared either *)
use_IfSwitched(s, t) ==
    IF s.in_use = t THEN s
    ELSE ClearedOnce(IF t = "window" THEN Release(s) ELSE SwitchTo(s, t), t)

use(s, t) ==
    CASE t = "window" -> ClearedOnce(Release(s), t)
      [] t # "window" /\ s.in_use # t -> ClearedOnce(SwitchTo(s, t), t)
      [] OTHER -> s

-------------------------------------------------------------------------------
(* Window::Window does not set cleared *)
Init ==
    /\ gl \in [in_use : {"window"}, bound : {"window"}, swapped : {FALSE},
               cleared : {[t \in Targets |-> t = "window" /\ b] : b \in BOOLEAN},
               picture : {{}}, channels : {[l \in Layers |-> <<>>]}]
    /\ made = {}
    /\ strayed = FALSE

(* Layer::Layer: as if it had been cleared one frame ago *)
NewLayer(l) ==
    /\ l \in Layers \ made
    /\ made' = made \cup {l}
    /\ gl' = [gl EXCEPT !.cleared[l] = ~gl.swapped, !.bound = "window"]
    /\ strayed' = (strayed \/ gl.in_use # "window")

(* A std::vector with n elements that was filled one by one has no room    *)
(* for another.                                                            *)
Full(n) == n = 0 \/ \E k \in 0..n : n = 2^k

(* Layer::add_channel: a Texture's move constructor may throw, so a vector *)
(* that grows copies its textures and destroys the old ones, the ones that *)
(* are attached                                                            *)
AddChannel(l) ==
    /\ l \in made /\ Len(gl.channels[l]) < MaxChannels[l]
    /\ LET old == gl.channels[l]
           kept == [i \in DOMAIN old |->
                        [old[i] EXCEPT !.attached = @ /\ ~Full(Len(old))]]
           new == [drawn |-> {"undefined"}, shown |-> {"undefined"}, attached |-> TRUE]
       IN gl' = [gl EXCEPT !.channels[l] = Append(kept, new), !.bound = "window"]
    /\ strayed' = (strayed \/ gl.in_use # "window")
    /\ UNCHANGED made

(* Object::render, SVGObject::render *)
Draw(t) ==
    /\ t \in made \cup {"window"}
    /\ gl' = glDraw(use(gl, t))
    /\ UNCHANGED <<made, strayed>>

(* Window::clear, Layer::clear *)
Clear(t) ==
    /\ t \in made \cup {"window"}
    /\ gl' = clear(gl, t)
    /\ UNCHANGED <<made, strayed>>

(* Layer::channel, also as RenderToFile::render_channel *)
channel(s, l) == IF s.in_use = l THEN use(s, "window") ELSE s

ReadChannel(l) ==
    /\ l \in made
    /\ gl' = channel(gl, l)
    /\ UNCHANGED <<made, strayed>>

(* Texture::render: a channel of l is drawn on another target *)
DrawChannel(l, t) ==
    /\ l \in made /\ t \in (made \cup {"window"}) \ {l}
    /\ gl' = glDraw(use(channel(gl, l), t))
    /\ UNCHANGED <<made, strayed>>

(* Texture::proc, also in Texture's copy constructor: draws on another     *)
(* texture, whose framebuffer stays bound                                  *)
Proc ==
    /\ gl' = [gl EXCEPT !.bound = "texture"]
    /\ strayed' = TRUE
    /\ UNCHANGED made

AgedChannel(c) == [c EXCEPT !.drawn = Aged(@), !.shown = Aged(@)]

(* the frame is shown and all that was drawn grows older *)
NextFrame(s) ==
    [s EXCEPT !.swapped = ~@,
              !.picture = Aged(@),
              !.channels = [l \in Layers |->
                  [i \in DOMAIN s.channels[l] |-> AgedChannel(s.channels[l][i])]]]

(* a binding that was changed is back when use() had a layer to release    *)
Restored == strayed' = (strayed /\ gl.in_use = "window")

(* Window::swap; its mutant does not take the window into use *)
Swap_NoUse ==
    /\ gl' = NextFrame(gl)
    /\ Restored
    /\ UNCHANGED made

Swap ==
    /\ gl' = NextFrame(use(gl, "window"))
    /\ Restored
    /\ UNCHANGED made

Next ==
    \/ \E l \in Layers : NewLayer(l) \/ AddChannel(l) \/ ReadChannel(l)
    \/ \E t \in Targets : Draw(t) \/ Clear(t)
    \/ \E l \in Layers, t \in Targets : DrawChannel(l, t)
    \/ Proc \/ Swap

Spec == Init /\ [][Next]_vars

-------------------------------------------------------------------------------
(* Properties *)

(* Types; and that a layer's framebuffer is bound only for the layer in    *)
(* use, where Layer::use and Window::use look for it.                      *)
TypeOK ==
    /\ gl \in [in_use : made \cup {"window"}, bound : Targets \cup {"texture"},
               swapped : BOOLEAN, cleared : [Targets -> BOOLEAN],
               picture : SUBSET Ages, channels : [Layers -> Seq(Channel)]]
    /\ made \subseteq Layers
    /\ strayed \in BOOLEAN
    /\ gl.bound \in Layers => gl.bound = gl.in_use

(* However uses, clears and swaps were mixed: while a layer is not in use, *)
(* the textures that are attached to it show all that was drawn into it.   *)
AttachedShown ==
    \A l \in Layers \ {gl.in_use} : \A i \in DOMAIN gl.channels[l] :
        gl.channels[l][i].attached => gl.channels[l][i].shown = gl.channels[l][i].drawn

(* Both: use() of another target has to unbind what it leaves and to copy  *)
(* it to its textures (graphics.cpp:150).                                  *)
TargetsSound == TypeOK /\ AttachedShown

(* A drawing lands where it was asked for; unless that target was in use   *)
(* already, and Proc, or the making of a layer or a channel, has changed   *)
(* the binding since.                                                      *)
DrawsLand ==
    [][\A t \in Targets : Draw(t) /\ (~strayed \/ gl.in_use # t) => gl'.bound = t]_vars

(* What a swap shows was drawn in its frame, with whatever value           *)
(* Window::cleared began and whatever was drawn on layers in between,      *)
(* unless the binding was changed in that frame.                           *)
FrameShown == [][Swap /\ ~strayed => use(gl, "window").picture \subseteq {"fresh"}]_vars

(* The bit tells a frame from the one before it: what was drawn one frame  *)
(* ago, or any odd number, is gone from a layer that is in use.            *)
PreviousFrameGone ==
    gl.in_use \in Layers =>
        \A i \in DOMAIN gl.channels[gl.in_use] :
            "odd" \notin gl.channels[gl.in_use][i].drawn

(* graphics.hpp:549 "clear on every swap": nothing but the drawings of     *)
(* this frame is in a layer that is in use.                                *)
ClearedEverySwap ==
    gl.in_use \in Layers =>
        \A i \in DOMAIN gl.channels[gl.in_use] :
            gl.channels[gl.in_use][i].drawn \cap {"odd", "even"} = {}
===============================================================================
