---------------------------- MODULE GraphicsProofs ----------------------------
(***************************************************************************)
(* Proofs about RenderTargets, for every set of layers and any number of   *)
(* channels, and about GLObjects, for any number of objects of any kinds,  *)
(* any names and any choice OpenGL makes among them.                       *)
(***************************************************************************)
EXTENDS RenderTargets, GLObjects, TLAPS, SequenceTheorems

-------------------------------------------------------------------------------
(* The targets of drawings *)

State == [in_use : Layers \cup {"window"}, bound : Targets \cup {"texture"},
          swapped : BOOLEAN, cleared : [Targets -> BOOLEAN],
          picture : SUBSET Ages, channels : [Layers -> Seq(Channel)]]

(* The attached textures of l are up to date: a layer that is not          *)
(* multisampled draws on them directly, another one until it is released.  *)
UpToDate(s, l) ==
    l \notin Multisampled \/ l # s.in_use =>
        \A i \in DOMAIN s.channels[l] :
            s.channels[l][i].attached => s.channels[l][i].shown = s.channels[l][i].drawn

(* The bit of l agrees with the ages of the drawings in it.                *)
Dated(s, l) ==
    /\ s.in_use = l => s.cleared[l] = s.swapped
    /\ \A i \in DOMAIN s.channels[l] :
        /\ "odd" \in s.channels[l][i].drawn => s.cleared[l] # s.swapped
        /\ {"fresh", "even"} \cap s.channels[l][i].drawn # {} => s.cleared[l] = s.swapped

(* What holds of the context whenever no more than the layers in X have    *)
(* been marked cleared without having been cleared.                        *)
Sound(s, X) ==
    /\ s \in State
    /\ s.bound \in Layers => s.bound = s.in_use
    /\ \A l \in Layers : UpToDate(s, l)
    /\ \A l \in Layers \ X : Dated(s, l)
    /\ \A l \in Layers \ made : DOMAIN s.channels[l] = {}

(* The inductive invariant.                                                *)
Inv ==
    /\ Sound(gl, {})
    /\ made \subseteq Layers /\ gl.in_use \in made \cup {"window"}
    /\ strayed \in BOOLEAN

-------------------------------------------------------------------------------
(* Channels *)

LEMMA ChannelsMapped ==
    ASSUME NEW q \in Seq(Channel), NEW r,
           r = [i \in DOMAIN q |-> r[i]],
           \A i \in DOMAIN q : r[i] \in Channel
    PROVE  r \in Seq(Channel)
<1>1. Len(q) \in Nat /\ DOMAIN q = 1..Len(q)
    BY LenProperties
<1>2. r \in [1..Len(q) -> Channel]
    BY <1>1
<1>. QED BY <1>1, <1>2

LEMMA OneChannel ==
    ASSUME NEW q \in Seq(Channel), NEW i \in DOMAIN q
    PROVE  q[i] \in Channel
<1>1. DOMAIN q = 1..Len(q)
    BY LenProperties
<1>. QED BY <1>1, ElementOfSeq

(* Replacing the channels of one layer.                                    *)
LEMMA OneLayerReplaced ==
    ASSUME NEW s \in State, NEW l \in Layers, NEW r \in Seq(Channel),
           NEW f, f = [s EXCEPT !.channels[l] = r]
    PROVE  /\ f \in State
           /\ f.in_use = s.in_use /\ f.bound = s.bound /\ f.swapped = s.swapped
           /\ f.cleared = s.cleared /\ f.picture = s.picture
           /\ \A k \in Layers : f.channels[k] = IF k = l THEN r ELSE s.channels[k]
<1> DEFINE c == [s.channels EXCEPT ![l] = r]
<1>1. s.channels \in [Layers -> Seq(Channel)]
    BY DEF State
<1>2. c \in [Layers -> Seq(Channel)]
    BY <1>1
<1>3. \A k \in Layers : c[k] = IF k = l THEN r ELSE s.channels[k]
    BY <1>1
<1>4. f = [s EXCEPT !.channels = c]
    OBVIOUS
<1> HIDE DEF c
<1>5. /\ f \in State /\ f.channels = c
      /\ f.in_use = s.in_use /\ f.bound = s.bound /\ f.swapped = s.swapped
      /\ f.cleared = s.cleared /\ f.picture = s.picture
    BY <1>2, <1>4 DEF State
<1>. QED BY <1>3, <1>5

(* What finish() does: a blit of the layer in use, if it is multisampled.  *)
LEMMA Finished ==
    ASSUME NEW s \in State, NEW f, f = finish(s)
    PROVE  /\ f \in State
           /\ f.in_use = s.in_use /\ f.bound = s.bound /\ f.swapped = s.swapped
           /\ f.cleared = s.cleared /\ f.picture = s.picture
           /\ \A l \in Layers :
               /\ DOMAIN f.channels[l] = DOMAIN s.channels[l]
               /\ \A i \in DOMAIN s.channels[l] :
                   f.channels[l][i] = IF l = s.in_use /\ l \in Multisampled
                                      THEN Blitted(s.channels[l][i]) ELSE s.channels[l][i]
<1> DEFINE l == s.in_use
           q == s.channels[l]
           r == [i \in DOMAIN q |-> Blitted(q[i])]
<1>1. CASE l \notin Multisampled
    BY <1>1 DEF finish
<1>2. CASE l \in Multisampled
    <2>1. l \in Layers /\ q \in Seq(Channel)
        BY <1>2, RenderAssumption DEF State
    <2>2. \A i \in DOMAIN q : Blitted(q[i]) \in Channel
        BY <2>1, OneChannel DEF Blitted, Channel
    <2>3. r \in Seq(Channel)
        BY <2>1, <2>2, ChannelsMapped
    <2>4. f = [s EXCEPT !.channels[l] = r]
        BY <1>2 DEF finish
    <2> HIDE DEF r
    <2>5. /\ f \in State
          /\ f.in_use = s.in_use /\ f.bound = s.bound /\ f.swapped = s.swapped
          /\ f.cleared = s.cleared /\ f.picture = s.picture
          /\ \A k \in Layers : f.channels[k] = IF k = l THEN r ELSE s.channels[k]
        BY <2>1, <2>3, <2>4, OneLayerReplaced
    <2>6. ASSUME NEW k \in Layers, k # l
          PROVE  f.channels[k] = s.channels[k]
        BY <2>5, <2>6
    <2>7. f.channels[l] = r
        BY <2>1, <2>5
    <2> USE DEF r
    <2>8. DOMAIN r = DOMAIN q /\ \A i \in DOMAIN q : r[i] = Blitted(q[i])
        OBVIOUS
    <2> HIDE DEF r
    <2>. QED BY <2>1, <2>5, <2>6, <2>7, <2>8, <1>2
<1>. QED BY <1>1, <1>2

(* A channel after a drawing.                                              *)
Drawn(c, l) == Painted(c, l, c.drawn \cup {"fresh"})

LEMMA PaintedChannel ==
    ASSUME NEW c \in Channel, NEW l, NEW p \in SUBSET Ages
    PROVE  /\ Painted(c, l, p) \in Channel
           /\ Painted(c, l, p).drawn = p
           /\ Painted(c, l, p).attached = c.attached
           /\ Painted(c, l, p).shown = IF l \notin Multisampled /\ c.attached
                                       THEN p ELSE c.shown
BY DEF Painted, Channel

(* What glClear does when the framebuffer of a layer is bound.             *)
LEMMA ClearedLayer ==
    ASSUME NEW s \in State, s.bound \in Layers, NEW f, f = glClear(s)
    PROVE  /\ f \in State
           /\ f.in_use = s.in_use /\ f.bound = s.bound /\ f.swapped = s.swapped
           /\ f.cleared = s.cleared /\ f.picture = s.picture
           /\ \A k \in Layers : /\ DOMAIN f.channels[k] = DOMAIN s.channels[k]
                                /\ k # s.bound => f.channels[k] = s.channels[k]
           /\ \A i \in DOMAIN s.channels[s.bound] :
               f.channels[s.bound][i] =
                   Painted(s.channels[s.bound][i], s.bound, {})
<1> DEFINE l == s.bound
           q == s.channels[l]
           r == [i \in DOMAIN q |-> Painted(q[i], l, {})]
<1>0. l \in Layers
    OBVIOUS
<1>1. q \in Seq(Channel)
    BY DEF State
<1>2. \A i \in DOMAIN q : Painted(q[i], l, {}) \in Channel
    BY <1>1, OneChannel, PaintedChannel DEF Channel, Ages
<1>3. r \in Seq(Channel)
    BY <1>1, <1>2, ChannelsMapped
<1>4. f = [s EXCEPT !.channels[l] = r]
    BY RenderAssumption DEF glClear
<1>5. DOMAIN r = DOMAIN q
      /\ \A i \in DOMAIN q : r[i] = Painted(q[i], l, {})
    OBVIOUS
<1> HIDE DEF r
<1>6. /\ f \in State
      /\ f.in_use = s.in_use /\ f.bound = s.bound /\ f.swapped = s.swapped
      /\ f.cleared = s.cleared /\ f.picture = s.picture
      /\ \A k \in Layers : f.channels[k] = IF k = l THEN r ELSE s.channels[k]
    BY <1>0, <1>1, <1>3, <1>4, OneLayerReplaced
<1>7. ASSUME NEW k \in Layers, k # l
      PROVE  f.channels[k] = s.channels[k]
    BY <1>6, <1>7
<1>8. f.channels[l] = r
    BY <1>6
<1>. QED BY <1>5, <1>6, <1>7, <1>8

(* And a drawing.                                                          *)
LEMMA DrawnLayer ==
    ASSUME NEW s \in State, s.bound \in Layers, NEW f, f = glDraw(s)
    PROVE  /\ f \in State
           /\ f.in_use = s.in_use /\ f.bound = s.bound /\ f.swapped = s.swapped
           /\ f.cleared = s.cleared /\ f.picture = s.picture
           /\ \A k \in Layers : /\ DOMAIN f.channels[k] = DOMAIN s.channels[k]
                                /\ k # s.bound => f.channels[k] = s.channels[k]
           /\ \A i \in DOMAIN s.channels[s.bound] :
               f.channels[s.bound][i] =
                   Drawn(s.channels[s.bound][i], s.bound)
<1> DEFINE l == s.bound
           q == s.channels[l]
           r == [i \in DOMAIN q |-> Drawn(q[i], l)]
<1>0. l \in Layers
    OBVIOUS
<1>1. q \in Seq(Channel)
    BY DEF State
<1>2. \A i \in DOMAIN q : Drawn(q[i], l) \in Channel
    BY <1>1, OneChannel, PaintedChannel DEF Drawn, Channel, Ages
<1>3. r \in Seq(Channel)
    BY <1>1, <1>2, ChannelsMapped
<1>4. f = [s EXCEPT !.channels[l] = r]
    BY RenderAssumption DEF glDraw, Drawn
<1>5. DOMAIN r = DOMAIN q
      /\ \A i \in DOMAIN q : r[i] = Drawn(q[i], l)
    OBVIOUS
<1> HIDE DEF r
<1>6. /\ f \in State
      /\ f.in_use = s.in_use /\ f.bound = s.bound /\ f.swapped = s.swapped
      /\ f.cleared = s.cleared /\ f.picture = s.picture
      /\ \A k \in Layers : f.channels[k] = IF k = l THEN r ELSE s.channels[k]
    BY <1>0, <1>1, <1>3, <1>4, OneLayerReplaced
<1>7. ASSUME NEW k \in Layers, k # l
      PROVE  f.channels[k] = s.channels[k]
    BY <1>6, <1>7
<1>8. f.channels[l] = r
    BY <1>6
<1>. QED BY <1>5, <1>6, <1>7, <1>8

-------------------------------------------------------------------------------
(* Switching targets *)

(* A blit brings the layer in use up to date.                              *)
LEMMA FinishSound ==
    ASSUME NEW s, NEW X, Sound(s, X), NEW f, f = finish(s)
    PROVE  /\ Sound(f, X)
           /\ f.in_use = s.in_use /\ f.bound = s.bound /\ f.swapped = s.swapped
           /\ f.cleared = s.cleared
           /\ \A l \in Layers : \A i \in DOMAIN f.channels[l] :
               f.channels[l][i].attached => f.channels[l][i].shown = f.channels[l][i].drawn
<1>1. s \in State
    BY DEF Sound
<1>2. /\ f \in State
      /\ f.in_use = s.in_use /\ f.bound = s.bound /\ f.swapped = s.swapped
      /\ f.cleared = s.cleared
      /\ \A l \in Layers :
          /\ DOMAIN f.channels[l] = DOMAIN s.channels[l]
          /\ \A i \in DOMAIN s.channels[l] :
              f.channels[l][i] = IF l = s.in_use /\ l \in Multisampled
                                 THEN Blitted(s.channels[l][i]) ELSE s.channels[l][i]
    BY <1>1, Finished
<1>3. ASSUME NEW l \in Layers, NEW i \in DOMAIN s.channels[l]
      PROVE  /\ f.channels[l][i].drawn = s.channels[l][i].drawn
             /\ f.channels[l][i].attached = s.channels[l][i].attached
             /\ f.channels[l][i].attached =>
                  f.channels[l][i].shown = f.channels[l][i].drawn
    <2> DEFINE c == s.channels[l][i]
    <2>1. c \in Channel
        BY <1>1, OneChannel DEF State
    <2>2. UpToDate(s, l)
        BY DEF Sound
    <2>3. CASE l = s.in_use /\ l \in Multisampled
        <3>1. f.channels[l][i] = Blitted(c)
            BY <1>2, <2>3
        <3>2. /\ Blitted(c).drawn = c.drawn /\ Blitted(c).attached = c.attached
              /\ c.attached => Blitted(c).shown = c.drawn
            BY <2>1 DEF Blitted, Channel
        <3>. QED BY <3>1, <3>2
    <2>4. CASE ~(l = s.in_use /\ l \in Multisampled)
        <3>1. f.channels[l][i] = c
            BY <1>2, <2>4
        <3>2. c.attached => c.shown = c.drawn
            BY <2>2, <2>4 DEF UpToDate
        <3>. QED BY <3>1, <3>2
    <2>. QED BY <2>3, <2>4
<1>4. \A l \in Layers : UpToDate(f, l)
    BY <1>2, <1>3 DEF UpToDate
<1>5. \A l \in Layers \ X : Dated(f, l)
    <2> SUFFICES ASSUME NEW l \in Layers, l \notin X PROVE Dated(f, l)
        OBVIOUS
    <2>1. Dated(s, l)
        BY DEF Sound
    <2>. QED BY <1>2, <1>3, <2>1 DEF Dated
<1>6. Sound(f, X)
    BY <1>2, <1>4, <1>5 DEF Sound
<1>. QED BY <1>2, <1>3, <1>6

(* Taking a layer into use leaves it to be cleared, unless it was.         *)
LEMMA SwitchToSound ==
    ASSUME NEW s, NEW X, Sound(s, X), NEW l \in Layers, NEW g, g = SwitchTo(s, l)
    PROVE  /\ Sound(g, X \cup {l})
           /\ l \notin X /\ s.cleared[l] = s.swapped => Sound(g, X)
           /\ g.in_use = l /\ g.bound = l /\ g.swapped = s.swapped /\ g.cleared = s.cleared
<1> DEFINE f == finish(s)
<1>0. f = finish(s)
    OBVIOUS
<1>2. g = [f EXCEPT !.in_use = l, !.bound = l]
    BY DEF SwitchTo
<1> HIDE DEF f
<1>1. /\ Sound(f, X)
      /\ f.swapped = s.swapped /\ f.cleared = s.cleared
      /\ \A k \in Layers : \A i \in DOMAIN f.channels[k] :
          f.channels[k][i].attached => f.channels[k][i].shown = f.channels[k][i].drawn
    BY <1>0, FinishSound
<1>3. /\ g \in State
      /\ g.in_use = l /\ g.bound = l /\ g.swapped = f.swapped
      /\ g.cleared = f.cleared /\ g.channels = f.channels
    BY <1>1, <1>2 DEF Sound, State, Targets
<1>4. \A k \in Layers : UpToDate(g, k)
    BY <1>1, <1>3 DEF UpToDate
<1>5. \A k \in Layers \ (X \cup {l}) : Dated(g, k)
    <2> SUFFICES ASSUME NEW k \in Layers, k \notin X, k # l PROVE Dated(g, k)
        OBVIOUS
    <2>1. Dated(f, k)
        BY <1>1 DEF Sound
    <2>. QED BY <1>3, <2>1 DEF Dated
<1>6. l \notin X /\ s.cleared[l] = s.swapped => Dated(g, l)
    BY <1>1, <1>3 DEF Dated, Sound
<1>. QED BY <1>1, <1>3, <1>4, <1>5, <1>6 DEF Sound

(* Taking the window into use leaves nothing to be done for layers.        *)
LEMMA ReleaseSound ==
    ASSUME NEW s, NEW X, Sound(s, X), NEW g, g = Release(s)
    PROVE  /\ Sound(g, X)
           /\ g.in_use = "window" /\ g.swapped = s.swapped /\ g.cleared = s.cleared
<1>1. CASE s.in_use = "window"
    BY <1>1 DEF Release
<1>2. CASE s.in_use # "window"
    <2> DEFINE f == finish(s)
    <2>0. f = finish(s)
        OBVIOUS
    <2>2. g = [f EXCEPT !.in_use = "window", !.bound = "window"]
        BY <1>2 DEF Release
    <2> HIDE DEF f
    <2>1. /\ Sound(f, X)
          /\ f.swapped = s.swapped /\ f.cleared = s.cleared
          /\ \A k \in Layers : \A i \in DOMAIN f.channels[k] :
              f.channels[k][i].attached => f.channels[k][i].shown = f.channels[k][i].drawn
        BY <2>0, FinishSound
    <2>3. /\ g \in State
          /\ g.in_use = "window" /\ g.bound = "window" /\ g.swapped = f.swapped
          /\ g.cleared = f.cleared /\ g.channels = f.channels
        BY <2>1, <2>2 DEF Sound, State, Targets
    <2>4. \A k \in Layers : UpToDate(g, k)
        BY <2>1, <2>3 DEF UpToDate
    <2>5. ASSUME NEW k \in Layers, k \notin X PROVE Dated(g, k)
        <3>1. Dated(f, k)
            BY <2>1, <2>5 DEF Sound
        <3>. QED BY <2>3, <3>1, RenderAssumption DEF Dated
    <2>. QED BY <2>1, <2>3, <2>4, <2>5, RenderAssumption DEF Sound
<1>. QED BY <1>1, <1>2

(* Clearing the framebuffer that is bound makes up for the layers that     *)
(* were marked before.                                                     *)
LEMMA GlClearSound ==
    ASSUME NEW s, NEW X, Sound(s, X),
           \A l \in X : l \in Layers => l = s.bound /\ s.cleared[l] = s.swapped,
           NEW f, f = glClear(s)
    PROVE  Sound(f, {}) /\ f.in_use = s.in_use
<1>1. s \in State
    BY DEF Sound
<1>2. CASE s.bound \in Layers
    <2>1. /\ f \in State
          /\ f.in_use = s.in_use /\ f.bound = s.bound /\ f.swapped = s.swapped
          /\ f.cleared = s.cleared
          /\ \A k \in Layers : /\ DOMAIN f.channels[k] = DOMAIN s.channels[k]
                               /\ k # s.bound => f.channels[k] = s.channels[k]
          /\ \A i \in DOMAIN s.channels[s.bound] :
              f.channels[s.bound][i] = Painted(s.channels[s.bound][i], s.bound, {})
        <3>1. /\ f \in State
              /\ f.in_use = s.in_use /\ f.bound = s.bound /\ f.swapped = s.swapped
              /\ f.cleared = s.cleared
            BY <1>1, <1>2, ClearedLayer
        <3>2. \A k \in Layers : /\ DOMAIN f.channels[k] = DOMAIN s.channels[k]
                                /\ k # s.bound => f.channels[k] = s.channels[k]
            BY <1>1, <1>2, ClearedLayer
        <3>3. \A i \in DOMAIN s.channels[s.bound] :
               f.channels[s.bound][i] = Painted(s.channels[s.bound][i], s.bound, {})
            BY <1>1, <1>2, ClearedLayer
        <3>. QED BY <3>1, <3>2, <3>3
    <2>2. ASSUME NEW l \in Layers
          PROVE  UpToDate(f, l) /\ Dated(f, l)
        <3>1. UpToDate(s, l) /\ (l # s.bound => Dated(s, l))
            BY DEF Sound
        <3>2. CASE l # s.bound
            <4>1. /\ f.channels[l] = s.channels[l] /\ f.in_use = s.in_use
                  /\ f.swapped = s.swapped /\ f.cleared = s.cleared
                BY <3>2, <2>1
            <4>. QED BY <4>1, <3>1, <3>2 DEF UpToDate, Dated
        <3>3. CASE l = s.bound
            <4>0. /\ DOMAIN f.channels[l] = DOMAIN s.channels[l] /\ f.in_use = s.in_use
                  /\ f.swapped = s.swapped /\ f.cleared = s.cleared
                BY <2>1
            <4>1. ASSUME NEW i \in DOMAIN s.channels[l]
                  PROVE  /\ f.channels[l][i].drawn = {}
                         /\ l \notin Multisampled =>
                              (f.channels[l][i].attached =>
                                f.channels[l][i].shown = f.channels[l][i].drawn)
                <5>1. s.channels[l][i] \in Channel
                    BY <1>1, OneChannel DEF State
                <5>2. f.channels[l][i] = Painted(s.channels[l][i], l, {})
                    BY <3>3, <2>1
                <5>. QED BY <5>1, <5>2, PaintedChannel
            <4>2. s.bound = s.in_use
                BY <1>2 DEF Sound
            <4>3. s.cleared[l] = s.swapped
                <5>1. CASE l \in X
                    BY <5>1
                <5>2. CASE l \notin X
                    BY <5>2, <4>2, <3>3 DEF Sound, Dated
                <5>. QED BY <5>1, <5>2
            <4>4. UpToDate(f, l)
                BY <4>0, <4>1, <4>2, <3>3 DEF UpToDate
            <4>5. Dated(f, l)
                BY <4>0, <4>1, <4>3 DEF Dated
            <4>. QED BY <4>4, <4>5
        <3>. QED BY <3>2, <3>3
    <2>3. /\ f \in State /\ f.in_use = s.in_use /\ f.bound = s.bound
          /\ \A l \in Layers \ made : DOMAIN f.channels[l] = {}
        BY <2>1 DEF Sound
    <2>. QED BY <2>2, <2>3 DEF Sound
<1>3. CASE s.bound \notin Layers
    <2>1. X \cap Layers = {}
        BY <1>3
    <2>2. /\ f \in State
          /\ f.in_use = s.in_use /\ f.bound = s.bound /\ f.swapped = s.swapped
          /\ f.cleared = s.cleared /\ f.channels = s.channels
        BY <1>1, <1>3 DEF glClear, State
    <2>3. ASSUME NEW l \in Layers
          PROVE  UpToDate(f, l) /\ Dated(f, l)
        <3>1. UpToDate(s, l) /\ Dated(s, l)
            BY <2>1 DEF Sound
        <3>. QED BY <3>1, <2>2 DEF UpToDate, Dated
    <2>. QED BY <2>2, <2>3 DEF Sound
<1>. QED BY <1>2, <1>3

(* A drawing goes to a layer only while it is in use, and cleared.         *)
LEMMA GlDrawSound ==
    ASSUME NEW s, Sound(s, {}), NEW f, f = glDraw(s)
    PROVE  Sound(f, {}) /\ f.in_use = s.in_use
<1>1. s \in State
    BY DEF Sound
<1>2. CASE s.bound \in Layers
    <2>1. /\ f \in State
          /\ f.in_use = s.in_use /\ f.bound = s.bound /\ f.swapped = s.swapped
          /\ f.cleared = s.cleared
          /\ \A k \in Layers : /\ DOMAIN f.channels[k] = DOMAIN s.channels[k]
                               /\ k # s.bound => f.channels[k] = s.channels[k]
          /\ \A i \in DOMAIN s.channels[s.bound] :
              f.channels[s.bound][i] =
                  Drawn(s.channels[s.bound][i], s.bound)
        <3>1. /\ f \in State
              /\ f.in_use = s.in_use /\ f.bound = s.bound /\ f.swapped = s.swapped
              /\ f.cleared = s.cleared
            BY <1>1, <1>2, DrawnLayer
        <3>2. \A k \in Layers : /\ DOMAIN f.channels[k] = DOMAIN s.channels[k]
                                /\ k # s.bound => f.channels[k] = s.channels[k]
            BY <1>1, <1>2, DrawnLayer
        <3>3. \A i \in DOMAIN s.channels[s.bound] :
               f.channels[s.bound][i] =
                   Drawn(s.channels[s.bound][i], s.bound)
            BY <1>1, <1>2, DrawnLayer
        <3>. QED BY <3>1, <3>2, <3>3
    <2>2. ASSUME NEW l \in Layers
          PROVE  UpToDate(f, l) /\ Dated(f, l)
        <3>1. UpToDate(s, l) /\ Dated(s, l)
            BY DEF Sound
        <3>2. CASE l # s.bound
            <4>1. /\ f.channels[l] = s.channels[l] /\ f.in_use = s.in_use
                  /\ f.swapped = s.swapped /\ f.cleared = s.cleared
                BY <3>2, <2>1
            <4>. QED BY <4>1, <3>1, <3>2 DEF UpToDate, Dated
        <3>3. CASE l = s.bound
            <4>0. /\ DOMAIN f.channels[l] = DOMAIN s.channels[l] /\ f.in_use = s.in_use
                  /\ f.swapped = s.swapped /\ f.cleared = s.cleared
                BY <2>1
            <4>1. ASSUME NEW i \in DOMAIN s.channels[l]
                  PROVE  /\ f.channels[l][i].drawn = s.channels[l][i].drawn \cup {"fresh"}
                         /\ l \notin Multisampled =>
                              (f.channels[l][i].attached =>
                                f.channels[l][i].shown = f.channels[l][i].drawn)
                <5>1. s.channels[l][i] \in Channel
                    BY <1>1, OneChannel DEF State
                <5>2. s.channels[l][i].drawn \cup {"fresh"} \in SUBSET Ages
                    BY <5>1 DEF Channel, Ages
                <5>3. f.channels[l][i] = Drawn(s.channels[l][i], l)
                    BY <3>3, <2>1
                <5>. QED BY <5>1, <5>2, <5>3, PaintedChannel DEF Drawn
            <4>2. s.bound = s.in_use
                BY <1>2 DEF Sound
            <4>3. s.cleared[l] = s.swapped
                BY <3>1, <3>3, <4>2 DEF Dated
            <4>4. UpToDate(f, l)
                BY <4>0, <4>1, <4>2, <3>3 DEF UpToDate
            <4>5. ASSUME NEW i \in DOMAIN f.channels[l]
                  PROVE  /\ "odd" \notin f.channels[l][i].drawn
                         /\ f.cleared[l] = f.swapped
                <5>1. i \in DOMAIN s.channels[l]
                    BY <4>0
                <5>2. "odd" \notin s.channels[l][i].drawn
                    BY <5>1, <4>3, <3>1 DEF Dated
                <5>. QED BY <5>1, <5>2, <4>0, <4>1, <4>3
            <4>6. Dated(f, l)
                BY <4>0, <4>3, <4>5 DEF Dated
            <4>. QED BY <4>4, <4>6
        <3>. QED BY <3>2, <3>3
    <2>3. /\ f \in State /\ f.in_use = s.in_use /\ f.bound = s.bound
          /\ \A l \in Layers \ made : DOMAIN f.channels[l] = {}
        BY <2>1 DEF Sound
    <2>. QED BY <2>2, <2>3 DEF Sound
<1>3. CASE s.bound \notin Layers
    <2>2. /\ f \in State
          /\ f.in_use = s.in_use /\ f.bound = s.bound /\ f.swapped = s.swapped
          /\ f.cleared = s.cleared /\ f.channels = s.channels
        BY <1>1, <1>3 DEF glDraw, State, Ages
    <2>3. ASSUME NEW l \in Layers
          PROVE  UpToDate(f, l) /\ Dated(f, l)
        <3>1. UpToDate(s, l) /\ Dated(s, l)
            BY DEF Sound
        <3>. QED BY <3>1, <2>2 DEF UpToDate, Dated
    <2>. QED BY <2>2, <2>3 DEF Sound
<1>. QED BY <1>2, <1>3

(* clear() as the program calls it, and as use() does for a target that it *)
(* has just bound.                                                         *)
LEMMA ClearSound ==
    ASSUME NEW s, NEW t \in Targets, NEW X,
           Sound(s, X),
           X # {} => X = {t} /\ t \in Layers /\ s.in_use = t /\ s.bound = t,
           NEW f, f = clear(s, t)
    PROVE  Sound(f, {}) /\ f.in_use = t
<1> DEFINE m == [s EXCEPT !.cleared[t] = s.swapped]
           g == IF s.in_use = t THEN m
                ELSE IF t = "window" THEN Release(m) ELSE SwitchTo(m, t)
<1>0. s \in State
    BY DEF Sound
<1>1. f = glClear(g)
    BY DEF clear
<1>2. /\ m \in State
      /\ m.in_use = s.in_use /\ m.bound = s.bound /\ m.swapped = s.swapped
      /\ m.channels = s.channels
      /\ m.cleared = [s.cleared EXCEPT ![t] = s.swapped]
    BY <1>0 DEF State
<1> HIDE DEF m
<1>3. m.cleared[t] = m.swapped /\ \A l \in Layers \ {t} : m.cleared[l] = s.cleared[l]
    BY <1>0, <1>2 DEF State, Targets
<1>4. Sound(m, {t})
    <2>1. ASSUME NEW l \in Layers
          PROVE  UpToDate(m, l) /\ (l # t => Dated(m, l))
        <3>1. UpToDate(s, l) /\ (l # t => Dated(s, l))
            BY DEF Sound
        <3>. QED BY <3>1, <1>2, <1>3 DEF UpToDate, Dated
    <2>. QED BY <2>1, <1>2 DEF Sound
<1>5. CASE s.in_use = t
    <2>1. f = glClear(m)
        BY <1>1, <1>5
    <2> DEFINE Y == IF t \in Layers /\ s.bound # t THEN {} ELSE {t}
    <2>2. Sound(m, Y)
        <3>1. CASE t \in Layers /\ s.bound # t
            <4>1. X = {}
                BY <3>1
            <4>2. Dated(s, t)
                BY <3>1, <4>1 DEF Sound
            <4>3. Dated(m, t)
                BY <4>2, <1>2, <1>3, <1>5 DEF Dated
            <4>4. Sound(m, {})
                BY <4>3, <1>4 DEF Sound
            <4>. QED BY <3>1, <4>4
        <3>2. CASE ~(t \in Layers /\ s.bound # t)
            BY <3>2, <1>4
        <3>. QED BY <3>1, <3>2
    <2>3. \A l \in Y : l \in Layers => l = m.bound /\ m.cleared[l] = m.swapped
        BY <1>2, <1>3
    <2> HIDE DEF Y
    <2>. QED BY <2>1, <2>2, <2>3, <1>2, <1>5, GlClearSound
<1>6. CASE s.in_use # t /\ t = "window"
    <2>1. g = Release(m)
        BY <1>6
    <2> HIDE DEF g
    <2>2. Sound(g, {t}) /\ g.in_use = t
        BY <2>1, <1>4, <1>6, ReleaseSound
    <2>3. \A l \in {t} : l \in Layers => l = g.bound /\ g.cleared[l] = g.swapped
        BY <1>6, RenderAssumption
    <2>. QED BY <2>2, <2>3, <1>1, GlClearSound
<1>7. CASE s.in_use # t /\ t # "window"
    <2>1. g = SwitchTo(m, t) /\ t \in Layers
        BY <1>7 DEF Targets
    <2> HIDE DEF g
    <2> DEFINE Z == {t}
    <2>0. Sound(m, Z)
        BY <1>4
    <2> HIDE DEF Z
    <2>2. /\ Sound(g, Z \cup {t})
          /\ g.in_use = t /\ g.bound = t /\ g.swapped = m.swapped /\ g.cleared = m.cleared
        BY <2>0, <2>1, SwitchToSound
    <2>3. Z \cup {t} = {t}
        BY DEF Z
    <2>4. \A l \in {t} : l \in Layers => l = g.bound /\ g.cleared[l] = g.swapped
        BY <2>2, <1>3
    <2>. QED BY <2>2, <2>3, <2>4, <1>1, GlClearSound
<1>. QED BY <1>5, <1>6, <1>7

LEMMA UseSound ==
    ASSUME NEW s, Sound(s, {}), NEW t \in Targets, NEW f, f = use(s, t)
    PROVE  Sound(f, {}) /\ f.in_use = t
<1>1. CASE t = "window"
    <2> DEFINE g == Release(s)
    <2>0. g = Release(s)
        OBVIOUS
    <2>1. f = ClearedOnce(g, t)
        BY <1>1 DEF use
    <2> HIDE DEF g
    <2>2. Sound(g, {}) /\ g.in_use = t
        BY <2>0, <1>1, ReleaseSound
    <2>3. CASE g.cleared[t] = g.swapped
        BY <2>1, <2>2, <2>3 DEF ClearedOnce
    <2>4. CASE g.cleared[t] # g.swapped
        <3>1. f = clear(g, t)
            BY <2>1, <2>4 DEF ClearedOnce
        <3> DEFINE X == {}
        <3>2. Sound(g, X) /\ ~(X # {})
            BY <2>2
        <3> HIDE DEF X
        <3>. QED BY <3>1, <3>2, ClearSound
    <2>. QED BY <2>3, <2>4
<1>2. CASE t # "window" /\ s.in_use # t
    <2> DEFINE g == SwitchTo(s, t)
    <2>0. g = SwitchTo(s, t) /\ t \in Layers
        BY <1>2 DEF Targets
    <2>1. f = ClearedOnce(g, t)
        BY <1>2 DEF use
    <2> HIDE DEF g
    <2>2. /\ Sound(g, {} \cup {t})
          /\ t \notin {} /\ s.cleared[t] = s.swapped => Sound(g, {})
          /\ g.in_use = t /\ g.bound = t /\ g.swapped = s.swapped /\ g.cleared = s.cleared
        BY <2>0, SwitchToSound
    <2>3. {} \cup {t} = {t}
        OBVIOUS
    <2>4. CASE g.cleared[t] = g.swapped
        BY <2>1, <2>2, <2>4 DEF ClearedOnce
    <2>5. CASE g.cleared[t] # g.swapped
        <3>1. f = clear(g, t)
            BY <2>1, <2>5 DEF ClearedOnce
        <3> DEFINE X == {t}
        <3>2. Sound(g, X) /\ X = {t}
            BY <2>2, <2>3
        <3> HIDE DEF X
        <3>. QED BY <3>1, <3>2, <2>0, <2>2, ClearSound
    <2>. QED BY <2>4, <2>5
<1>3. CASE t # "window" /\ s.in_use = t
    BY <1>3 DEF use
<1>. QED BY <1>1, <1>2, <1>3

-------------------------------------------------------------------------------
(* Actions *)

LEMMA OlderAges == \A p \in SUBSET Ages :
    /\ Aged(p) \in SUBSET Ages
    /\ "odd" \in Aged(p) => {"fresh", "even"} \cap p # {}
    /\ {"fresh", "even"} \cap Aged(p) # {} => "odd" \in p
BY DEF Aged, Older, Ages

(* The bits of all layers change their meaning as their drawings grow      *)
(* older.                                                                  *)
LEMMA NextFrameSound ==
    ASSUME NEW s, Sound(s, {}), s.in_use = "window", NEW f, f = NextFrame(s)
    PROVE  Sound(f, {}) /\ f.in_use = "window"
<1> DEFINE row(l) == [i \in DOMAIN s.channels[l] |-> AgedChannel(s.channels[l][i])]
           r == [l \in Layers |-> row(l)]
<1>1. s \in State
    BY DEF Sound
<1>2. ASSUME NEW l \in Layers, NEW i \in DOMAIN s.channels[l]
      PROVE  /\ s.channels[l][i] \in Channel
             /\ AgedChannel(s.channels[l][i]) \in Channel
             /\ AgedChannel(s.channels[l][i]).drawn = Aged(s.channels[l][i].drawn)
             /\ AgedChannel(s.channels[l][i]).shown = Aged(s.channels[l][i].shown)
             /\ AgedChannel(s.channels[l][i]).attached = s.channels[l][i].attached
    <2>1. s.channels[l] \in Seq(Channel)
        BY <1>1 DEF State
    <2>2. s.channels[l][i] \in Channel
        BY <2>1, OneChannel
    <2>. QED BY <2>2, OlderAges DEF AgedChannel, Channel
<1>3. ASSUME NEW l \in Layers
      PROVE  row(l) \in Seq(Channel)
    <2> DEFINE q == s.channels[l]
               t == row(l)
    <2>1. q \in Seq(Channel)
        BY <1>1 DEF State
    <2>2. t = [i \in DOMAIN q |-> t[i]] /\ \A i \in DOMAIN q : t[i] \in Channel
        BY <1>2
    <2> HIDE DEF t
    <2>3. t \in Seq(Channel)
        BY <2>1, <2>2, ChannelsMapped
    <2>. QED BY <2>3 DEF t
<1>4. r \in [Layers -> Seq(Channel)]
    BY <1>3
<1>5. f = [s EXCEPT !.swapped = ~@, !.picture = Aged(@), !.channels = r]
    BY DEF NextFrame
<1>6. /\ \A l \in Layers : DOMAIN r[l] = DOMAIN s.channels[l]
      /\ \A l \in Layers : \A i \in DOMAIN s.channels[l] :
            /\ r[l][i].drawn = Aged(s.channels[l][i].drawn)
            /\ r[l][i].shown = Aged(s.channels[l][i].shown)
            /\ r[l][i].attached = s.channels[l][i].attached
    BY <1>2
<1> HIDE DEF r
<1> DEFINE b == ~s.swapped
           p == Aged(s.picture)
<1>b. b \in BOOLEAN /\ f = [s EXCEPT !.swapped = b, !.picture = p, !.channels = r]
    BY <1>5
<1>p. p \in SUBSET Ages
    BY <1>1, OlderAges DEF State
<1> HIDE DEF b, p
<1>7. /\ f \in State
      /\ f.in_use = s.in_use /\ f.bound = s.bound /\ f.swapped = b
      /\ f.cleared = s.cleared /\ f.channels = r
    BY <1>1, <1>4, <1>b, <1>p DEF State
<1>8. ASSUME NEW l \in Layers
      PROVE  UpToDate(f, l) /\ Dated(f, l)
    <2>1. l # s.in_use /\ UpToDate(s, l) /\ Dated(s, l)
        BY RenderAssumption DEF Sound
    <2>2. UpToDate(f, l)
        BY <2>1, <1>6, <1>7 DEF UpToDate
    <2>3. s.swapped \in BOOLEAN /\ s.cleared[l] \in BOOLEAN
        BY <1>1 DEF State, Targets
    <2>4. ASSUME NEW i \in DOMAIN s.channels[l]
          PROVE  /\ "odd" \in r[l][i].drawn => s.cleared[l] = s.swapped
                 /\ {"fresh", "even"} \cap r[l][i].drawn # {} => s.cleared[l] # s.swapped
        <3>1. s.channels[l][i].drawn \in SUBSET Ages
            BY <1>2 DEF Channel
        <3>. QED BY <3>1, <2>1, <1>6, OlderAges DEF Dated
    <2>5. Dated(f, l)
        BY <2>1, <2>3, <2>4, <1>6, <1>7 DEF Dated, b
    <2>. QED BY <2>2, <2>5
<1>. QED BY <1>6, <1>7, <1>8 DEF Sound

LEMMA NewLayerSound ==
    ASSUME Inv, NEW l \in Layers, NewLayer(l)
    PROVE  Inv'
<1>1. /\ gl \in State /\ l \notin made /\ gl.in_use # l
      /\ DOMAIN gl.channels[l] = {}
    BY RenderAssumption DEF Inv, Sound, NewLayer
<1>2. /\ gl' \in State
      /\ gl'.in_use = gl.in_use /\ gl'.bound = "window" /\ gl'.swapped = gl.swapped
      /\ gl'.cleared = [gl.cleared EXCEPT ![l] = ~gl.swapped]
      /\ gl'.channels = gl.channels
    BY <1>1 DEF NewLayer, State, Targets
<1>3. \A k \in Layers \ {l} : gl'.cleared[k] = gl.cleared[k]
    BY <1>1, <1>2 DEF State, Targets
<1>4. ASSUME NEW k \in Layers
      PROVE  UpToDate(gl', k) /\ Dated(gl', k)
    <2>1. UpToDate(gl, k) /\ Dated(gl, k)
        BY DEF Inv, Sound
    <2>2. CASE k = l
        BY <2>2, <1>1, <1>2 DEF UpToDate, Dated
    <2>3. CASE k # l
        BY <2>1, <2>3, <1>2, <1>3 DEF UpToDate, Dated
    <2>. QED BY <2>2, <2>3
<1>5. /\ made' = made \cup {l} /\ made' \subseteq Layers
      /\ gl'.in_use \in made' \cup {"window"}
      /\ \A k \in Layers \ made' : DOMAIN gl'.channels[k] = {}
      /\ strayed' \in BOOLEAN
    BY <1>2 DEF Inv, Sound, NewLayer
<1>. QED BY <1>2, <1>4, <1>5, RenderAssumption DEF Inv, Sound

(* A new channel was not drawn into, and the textures that lose their      *)
(* place in the framebuffer are no longer promised anything.               *)
LEMMA AddChannelSound ==
    ASSUME Inv, NEW l \in Layers, AddChannel(l)
    PROVE  Inv'
<1> DEFINE old == gl.channels[l]
           kept == [i \in DOMAIN old |-> [old[i] EXCEPT !.attached = @ /\ ~Full(Len(old))]]
           new == [drawn |-> {"undefined"}, shown |-> {"undefined"}, attached |-> TRUE]
           r == Append(kept, new)
<1>1. gl \in State /\ old \in Seq(Channel) /\ l \in made
    BY DEF Inv, Sound, State, AddChannel
<1>o. gl \in State /\ gl.channels[l] \in Seq(Channel)
    BY <1>1
<1>2. \A i \in DOMAIN old :
        /\ kept[i] \in Channel
        /\ kept[i].drawn = old[i].drawn /\ kept[i].shown = old[i].shown
        /\ kept[i].attached => old[i].attached
    <2> DEFINE room == ~Full(Len(old))
    <2>1. ASSUME NEW c \in Channel, NEW b \in BOOLEAN,
                 NEW d, d = [c EXCEPT !.attached = @ /\ b]
          PROVE  /\ d \in Channel /\ d.drawn = c.drawn /\ d.shown = c.shown
                 /\ d.attached => c.attached
        BY <2>1 DEF Channel
    <2>2. room \in BOOLEAN
        BY DEF Full
    <2>3. \A i \in DOMAIN old : kept[i] = [old[i] EXCEPT !.attached = @ /\ room]
        OBVIOUS
    <2> HIDE DEF old, room, kept
    <2>4. \A i \in DOMAIN old : old[i] \in Channel
        BY <1>1, OneChannel
    <2>5. ASSUME NEW i \in DOMAIN old
          PROVE  /\ kept[i] \in Channel
                 /\ kept[i].drawn = old[i].drawn /\ kept[i].shown = old[i].shown
                 /\ kept[i].attached => old[i].attached
        <3>1. old[i] \in Channel /\ kept[i] = [old[i] EXCEPT !.attached = @ /\ room]
            BY <2>3, <2>4
        <3>. QED BY <3>1, <2>1, <2>2
    <2>. QED BY <2>5
<1>3. kept = [i \in DOMAIN old |-> kept[i]]
    OBVIOUS
<1>4. new \in Channel
    BY DEF Channel, Ages
<1>5. gl' = [gl EXCEPT !.channels[l] = r, !.bound = "window"]
    BY DEF AddChannel
<1> HIDE DEF old, kept, new
<1>6. kept \in Seq(Channel) /\ DOMAIN kept = DOMAIN old
    BY <1>1, <1>2, <1>3, ChannelsMapped
<1>7. /\ r \in Seq(Channel) /\ DOMAIN r = 1..(Len(kept) + 1) /\ DOMAIN kept = 1..Len(kept)
      /\ r[Len(kept) + 1] = new /\ \A i \in DOMAIN kept : r[i] = kept[i]
    BY <1>4, <1>6, AppendProperties, LenProperties
<1> HIDE DEF r
<1> DEFINE f == [gl EXCEPT !.channels[l] = r]
<1>8. gl' = [f EXCEPT !.bound = "window"]
    BY <1>5, <1>1 DEF State
<1>f. f = [gl EXCEPT !.channels[l] = r] /\ r \in Seq(Channel)
    BY <1>7
<1> HIDE DEF f
<1>9. /\ f \in State
      /\ f.in_use = gl.in_use /\ f.swapped = gl.swapped /\ f.cleared = gl.cleared
      /\ \A k \in Layers : f.channels[k] = IF k = l THEN r ELSE gl.channels[k]
    BY <1>o, <1>f, OneLayerReplaced
<1>10. /\ gl' \in State
       /\ gl'.in_use = gl.in_use /\ gl'.bound = "window" /\ gl'.swapped = gl.swapped
       /\ gl'.cleared = gl.cleared /\ gl'.channels = f.channels
    BY <1>8, <1>9 DEF State, Targets
<1>11. ASSUME NEW k \in Layers
       PROVE  UpToDate(gl', k) /\ Dated(gl', k)
    <2>1. UpToDate(gl, k) /\ Dated(gl, k)
        BY DEF Inv, Sound
    <2>2. CASE k # l
        <3>1. gl'.channels[k] = gl.channels[k]
            BY <2>2, <1>9, <1>10
        <3>. QED BY <3>1, <2>1, <1>10 DEF UpToDate, Dated
    <2>3. CASE k = l
        <3>1. gl'.channels[k] = r
            BY <2>3, <1>9, <1>10
        <3>2. ASSUME NEW i \in DOMAIN r
              PROVE  \/ /\ i \in DOMAIN old
                        /\ r[i].drawn = old[i].drawn /\ r[i].shown = old[i].shown
                        /\ r[i].attached => old[i].attached
                     \/ r[i].drawn = {"undefined"} /\ r[i].shown = {"undefined"}
            <4>1. Len(kept) \in Nat
                BY <1>6, LenProperties
            <4>2. CASE i = Len(kept) + 1
                BY <4>2, <1>7 DEF new
            <4>3. CASE i # Len(kept) + 1
                <5>1. i \in DOMAIN kept
                    BY <4>1, <4>3, <1>7
                <5>. QED BY <5>1, <1>2, <1>6, <1>7
            <4>. QED BY <4>2, <4>3
        <3>3. UpToDate(gl', k)
            <4>1. SUFFICES ASSUME l \notin Multisampled \/ l # gl.in_use,
                                  NEW i \in DOMAIN r, r[i].attached
                           PROVE  r[i].shown = r[i].drawn
                BY <3>1, <2>3, <1>10 DEF UpToDate
            <4>2. ASSUME i \in DOMAIN old, old[i].attached
                  PROVE  old[i].shown = old[i].drawn
                BY <4>1, <4>2, <2>1, <2>3 DEF UpToDate, old
            <4>. QED BY <4>1, <4>2, <3>2
        <3>4. Dated(gl', k)
            BY <3>1, <3>2, <2>1, <2>3, <1>10 DEF Dated, old
        <3>. QED BY <3>3, <3>4
    <2>. QED BY <2>2, <2>3
<1>12. /\ made' = made /\ strayed' \in BOOLEAN
       /\ \A k \in Layers \ made : DOMAIN gl'.channels[k] = {}
    BY <1>1, <1>9, <1>10 DEF Inv, Sound, AddChannel
<1>. QED BY <1>10, <1>11, <1>12, RenderAssumption DEF Inv, Sound

LEMMA InitInv ==
    ASSUME Init
    PROVE  Inv
<1>1. PICK b \in BOOLEAN :
        gl = [in_use |-> "window", bound |-> "window", swapped |-> FALSE,
              cleared |-> [t \in Targets |-> t = "window" /\ b],
              picture |-> {}, channels |-> [l \in Layers |-> <<>>]]
    BY DEF Init
<1>2. \A l \in Layers : gl.channels[l] = <<>> /\ gl.channels[l] \in Seq(Channel)
    BY <1>1, EmptySeq
<1>3. gl.cleared \in [Targets -> BOOLEAN]
    BY <1>1
<1>4. /\ gl \in State
      /\ gl.in_use = "window" /\ gl.bound = "window"
      /\ \A l \in Layers : DOMAIN gl.channels[l] = {}
    BY <1>1, <1>2, <1>3 DEF State, Targets
<1>5. ASSUME NEW l \in Layers
      PROVE  UpToDate(gl, l) /\ Dated(gl, l)
    BY <1>4, RenderAssumption DEF UpToDate, Dated
<1>. QED BY <1>4, <1>5, RenderAssumption DEF Inv, Sound, Init

(* What the actions that take a target into use have in common.            *)
LEMMA UsedSound ==
    ASSUME Inv, Sound(gl', {}), UNCHANGED <<made, strayed>>,
           gl'.in_use \in made \cup {"window"}
    PROVE  Inv'
BY DEF Inv, Sound

LEMMA ChannelSound ==
    ASSUME NEW s, Sound(s, {}), NEW l \in Layers, NEW f, f = channel(s, l)
    PROVE  Sound(f, {}) /\ f.in_use \in {s.in_use, "window"}
BY UseSound DEF channel, Targets

LEMMA NextInv ==
    ASSUME Inv, [Next]_vars
    PROVE  Inv'
<1>0. Sound(gl, {}) /\ made \subseteq Layers
    BY DEF Inv
<1>1. ASSUME NEW l \in Layers, NewLayer(l) PROVE Inv'
    BY <1>1, NewLayerSound
<1>2. ASSUME NEW l \in Layers, AddChannel(l) PROVE Inv'
    BY <1>2, AddChannelSound
<1>3. ASSUME NEW l \in Layers, ReadChannel(l) PROVE Inv'
    <2>1. gl' = channel(gl, l) /\ UNCHANGED <<made, strayed>>
        BY <1>3 DEF ReadChannel
    <2>2. Sound(gl', {}) /\ gl'.in_use \in {gl.in_use, "window"}
        BY <2>1, <1>0, ChannelSound
    <2>. QED BY <2>1, <2>2, UsedSound DEF Inv
<1>4. ASSUME NEW t \in Targets, Draw(t) PROVE Inv'
    <2> DEFINE g == use(gl, t)
    <2>1. gl' = glDraw(g) /\ t \in made \cup {"window"} /\ UNCHANGED <<made, strayed>>
        BY <1>4 DEF Draw
    <2>2. Sound(g, {}) /\ g.in_use = t
        BY <1>0, UseSound
    <2> HIDE DEF g
    <2>3. Sound(gl', {}) /\ gl'.in_use = t
        BY <2>1, <2>2, GlDrawSound
    <2>. QED BY <2>1, <2>3, UsedSound
<1>5. ASSUME NEW t \in Targets, Clear(t) PROVE Inv'
    <2>1. gl' = clear(gl, t) /\ t \in made \cup {"window"} /\ UNCHANGED <<made, strayed>>
        BY <1>5 DEF Clear
    <2> DEFINE X == {}
    <2>2. Sound(gl, X) /\ ~(X # {})
        BY <1>0
    <2> HIDE DEF X
    <2>3. Sound(gl', {}) /\ gl'.in_use = t
        BY <2>1, <2>2, ClearSound
    <2>. QED BY <2>1, <2>3, UsedSound
<1>6. ASSUME NEW l \in Layers, NEW t \in Targets, DrawChannel(l, t) PROVE Inv'
    <2> DEFINE c == channel(gl, l)
               g == use(c, t)
    <2>1. gl' = glDraw(g) /\ t \in made \cup {"window"} /\ UNCHANGED <<made, strayed>>
        BY <1>6 DEF DrawChannel
    <2>2. Sound(c, {})
        BY <1>0, ChannelSound
    <2> HIDE DEF c
    <2>3. Sound(g, {}) /\ g.in_use = t
        BY <2>2, UseSound
    <2> HIDE DEF g
    <2>4. Sound(gl', {}) /\ gl'.in_use = t
        BY <2>1, <2>3, GlDrawSound
    <2>. QED BY <2>1, <2>4, UsedSound
<1>7. ASSUME Proc PROVE Inv'
    <2>1. /\ gl' = [gl EXCEPT !.bound = "texture"] /\ gl \in State
          /\ made' = made /\ strayed' = TRUE
        BY <1>7, <1>0 DEF Proc, Sound
    <2>2. /\ gl' \in State
          /\ gl'.in_use = gl.in_use /\ gl'.bound = "texture" /\ gl'.swapped = gl.swapped
          /\ gl'.cleared = gl.cleared /\ gl'.channels = gl.channels
        BY <2>1 DEF State
    <2>3. ASSUME NEW k \in Layers
          PROVE  UpToDate(gl', k) /\ Dated(gl', k)
        <3>1. UpToDate(gl, k) /\ Dated(gl, k)
            BY <1>0 DEF Sound
        <3>. QED BY <3>1, <2>2 DEF UpToDate, Dated
    <2>. QED BY <2>1, <2>2, <2>3, RenderAssumption DEF Inv, Sound
<1>8. ASSUME Swap PROVE Inv'
    <2> DEFINE g == use(gl, "window")
    <2>1. gl' = NextFrame(g) /\ made' = made /\ Restored
        BY <1>8 DEF Swap
    <2>2. "window" \in Targets
        BY DEF Targets
    <2>3. Sound(g, {}) /\ g.in_use = "window"
        BY <1>0, <2>2, UseSound
    <2> HIDE DEF g
    <2>4. Sound(gl', {}) /\ gl'.in_use = "window"
        BY <2>1, <2>3, NextFrameSound
    <2>5. strayed' \in BOOLEAN
        BY <2>1 DEF Restored, Inv
    <2>. QED BY <2>1, <2>4, <2>5 DEF Inv, Sound
<1>9. CASE UNCHANGED vars
    BY <1>9 DEF vars, Inv, Sound, State, UpToDate, Dated
<1>. QED BY <1>1, <1>2, <1>3, <1>4, <1>5, <1>6, <1>7, <1>8, <1>9 DEF Next

-------------------------------------------------------------------------------
(* Theorems *)

THEOREM InvAlways == Spec => []Inv
<1>1. Init => Inv
    BY InitInv
<1>2. Inv /\ [Next]_vars => Inv'
    BY NextInv
<1>. QED BY <1>1, <1>2, PTL DEF Spec

(* The types; a layer's framebuffer is bound only while in_use names it.   *)
THEOREM TypeCorrect == Spec => []TypeOK
<1>1. Inv => TypeOK
    BY DEF Inv, Sound, State, TypeOK
<1>. QED BY <1>1, InvAlways, PTL

(* channel() never returns an attached texture that lacks what was drawn   *)
(* into its layer.                                                         *)
THEOREM AttachedAlwaysShown == Spec => []AttachedShown
<1>1. Inv => AttachedShown
    BY DEF Inv, Sound, UpToDate, AttachedShown
<1>. QED BY <1>1, InvAlways, PTL

(* What is bound, and what the textures show, in every reachable state.    *)
THEOREM TargetsAlwaysSound == Spec => []TargetsSound
<1>1. TypeOK /\ AttachedShown => TargetsSound
    BY DEF TargetsSound
<1>. QED BY <1>1, TypeCorrect, AttachedAlwaysShown, PTL

(* No use() of a layer leaves drawings of the frame before in it.          *)
THEOREM PreviousFrameAlwaysGone == Spec => []PreviousFrameGone
<1>1. Inv => PreviousFrameGone
    BY DEF Inv, Sound, Dated, PreviousFrameGone
<1>. QED BY <1>1, InvAlways, PTL

-------------------------------------------------------------------------------
(* Where drawings land, and what the window shows *)

(* A window that counts as cleared shows drawings of this frame only.      *)
WindowDated(s) == s.cleared["window"] = s.swapped => s.picture \subseteq {"fresh"}

(* What holds until something changes the binding behind in_use's back.    *)
Unstrayed == ~strayed => gl.bound = gl.in_use /\ WindowDated(gl)

(* OpenGL leaves the bits alone, and changes the picture that is bound.    *)
LEMMA GlKeeps ==
    ASSUME NEW s \in State, NEW f, f = glClear(s) \/ f = glDraw(s)
    PROVE  /\ f \in State
           /\ f.in_use = s.in_use /\ f.bound = s.bound /\ f.swapped = s.swapped
           /\ f.cleared = s.cleared
           /\ s.bound # "window" => f.picture = s.picture
<1>1. CASE s.bound \in Layers
    <2>1. s.bound # "window"
        BY <1>1, RenderAssumption
    <2>2. CASE f = glClear(s)
        BY <1>1, <2>1, <2>2, ClearedLayer
    <2>3. CASE f = glDraw(s)
        BY <1>1, <2>1, <2>3, DrawnLayer
    <2>. QED BY <2>2, <2>3
<1>2. CASE s.bound \notin Layers
    <2>1. PICK p \in SUBSET Ages : f = s \/ (s.bound = "window" /\ f = [s EXCEPT !.picture = p])
        <3>1. CASE f = glClear(s)
            BY <1>2, <3>1 DEF glClear
        <3>2. CASE f = glDraw(s)
            BY <1>2, <3>2 DEF glDraw, State, Ages
        <3>. QED BY <3>1, <3>2
    <2>. QED BY <2>1 DEF State
<1>. QED BY <1>1, <1>2

LEMMA WindowPainted ==
    ASSUME NEW s \in State, s.bound = "window"
    PROVE  glClear(s).picture = {} /\ glDraw(s).picture = s.picture \cup {"fresh"}
BY RenderAssumption DEF glClear, glDraw, State

(* clear() reaches its target, unless that was in use with another         *)
(* framebuffer bound.                                                      *)
LEMMA ClearReaches ==
    ASSUME NEW s \in State, NEW t \in Targets, s.in_use # t \/ s.bound = t,
           NEW f, f = clear(s, t)
    PROVE  /\ f \in State
           /\ f.in_use = t /\ f.bound = t /\ f.swapped = s.swapped
           /\ f.cleared[t] = f.swapped
           /\ t = "window" => f.picture = {}
           /\ t # "window" => /\ f.picture = s.picture
                              /\ f.cleared["window"] = s.cleared["window"]
<1> DEFINE m == [s EXCEPT !.cleared[t] = s.swapped]
           g == IF s.in_use = t THEN m
                ELSE IF t = "window" THEN Release(m) ELSE SwitchTo(m, t)
<1>1. f = glClear(g)
    BY DEF clear
<1>2. /\ m \in State
      /\ m.in_use = s.in_use /\ m.bound = s.bound /\ m.swapped = s.swapped
      /\ m.picture = s.picture
      /\ m.cleared = [s.cleared EXCEPT ![t] = s.swapped]
    BY DEF State
<1>3. m.cleared[t] = s.swapped /\ (t # "window" => m.cleared["window"] = s.cleared["window"])
    BY <1>2 DEF State, Targets
<1> HIDE DEF m
<1>4. /\ g \in State
      /\ g.in_use = t /\ g.bound = t /\ g.swapped = m.swapped
      /\ g.picture = m.picture /\ g.cleared = m.cleared
    <2>1. CASE s.in_use = t
        BY <2>1, <1>2
    <2>2. CASE s.in_use # t
        <3> DEFINE e == finish(m)
        <3>1. e = finish(m)
            OBVIOUS
        <3>2. g = [e EXCEPT !.in_use = t, !.bound = t]
            BY <2>2, <1>2 DEF Release, SwitchTo
        <3> HIDE DEF e, g
        <3>3. /\ e \in State /\ e.swapped = m.swapped
              /\ e.cleared = m.cleared /\ e.picture = m.picture
            BY <3>1, <1>2, Finished
        <3>. QED BY <3>2, <3>3 DEF State, Targets
    <2>. QED BY <2>1, <2>2
<1> HIDE DEF g
<1>5. /\ f \in State /\ f.in_use = t /\ f.bound = t /\ f.swapped = s.swapped
      /\ f.cleared = m.cleared /\ (t # "window" => f.picture = s.picture)
    BY <1>1, <1>2, <1>4, GlKeeps
<1>6. t = "window" => f.picture = {}
    BY <1>1, <1>4, WindowPainted
<1>. QED BY <1>2, <1>3, <1>5, <1>6

(* So does use(), which leaves the window cleared when it takes it.        *)
LEMMA UseReaches ==
    ASSUME NEW s \in State, NEW t \in Targets, s.in_use # t \/ s.bound = t,
           NEW f, f = use(s, t)
    PROVE  /\ f \in State
           /\ f.in_use = t /\ f.bound = t
           /\ WindowDated(s) => WindowDated(f)
           /\ t = "window" => f.cleared["window"] = f.swapped
<1>1. CASE t # "window" /\ s.in_use = t
    BY <1>1 DEF use
<1>2. CASE ~(t # "window" /\ s.in_use = t)
    <2> DEFINE g == IF t = "window" THEN Release(s) ELSE SwitchTo(s, t)
    <2>1. f = IF g.cleared[t] = g.swapped THEN g ELSE clear(g, t)
        BY <1>2 DEF use, ClearedOnce
    <2>2. /\ g \in State
          /\ g.in_use = t /\ g.bound = t /\ g.swapped = s.swapped
          /\ g.picture = s.picture /\ g.cleared = s.cleared
        <3>1. CASE s.in_use = t
            BY <3>1, <1>2 DEF Release
        <3>2. CASE s.in_use # t
            <4> DEFINE e == finish(s)
            <4>1. e = finish(s)
                OBVIOUS
            <4>2. g = [e EXCEPT !.in_use = t, !.bound = t]
                BY <3>2 DEF Release, SwitchTo
            <4> HIDE DEF e, g
            <4>3. /\ e \in State /\ e.swapped = s.swapped
                  /\ e.cleared = s.cleared /\ e.picture = s.picture
                BY <4>1, Finished
            <4>. QED BY <4>2, <4>3 DEF State, Targets
        <3>. QED BY <3>1, <3>2
    <2> HIDE DEF g
    <2>3. CASE g.cleared[t] = g.swapped
        BY <2>1, <2>2, <2>3 DEF WindowDated
    <2>4. CASE g.cleared[t] # g.swapped
        <3>1. f = clear(g, t)
            BY <2>1, <2>4
        <3>2. /\ f \in State
              /\ f.in_use = t /\ f.bound = t /\ f.swapped = g.swapped
              /\ f.cleared[t] = f.swapped
              /\ t = "window" => f.picture = {}
              /\ t # "window" => /\ f.picture = g.picture
                                 /\ f.cleared["window"] = g.cleared["window"]
            BY <2>2, <3>1, ClearReaches
        <3>. QED BY <2>2, <3>2 DEF WindowDated
    <2>. QED BY <2>3, <2>4
<1>. QED BY <1>1, <1>2

LEMMA DrawReaches ==
    ASSUME NEW s \in State, NEW t \in Targets, s.in_use # t \/ s.bound = t,
           NEW f, f = glDraw(use(s, t))
    PROVE  /\ f.in_use = t /\ f.bound = t
           /\ WindowDated(s) => WindowDated(f)
<1> DEFINE g == use(s, t)
<1>1. g = use(s, t) /\ f = glDraw(g)
    OBVIOUS
<1> HIDE DEF g
<1>2. /\ g \in State /\ g.in_use = t /\ g.bound = t
      /\ WindowDated(s) => WindowDated(g)
    BY <1>1, UseReaches
<1>3. /\ f.in_use = t /\ f.bound = t /\ f.swapped = g.swapped /\ f.cleared = g.cleared
      /\ t # "window" => f.picture = g.picture
    BY <1>1, <1>2, GlKeeps
<1>4. t = "window" => f.picture = g.picture \cup {"fresh"}
    BY <1>1, <1>2, WindowPainted
<1>. QED BY <1>2, <1>3, <1>4 DEF WindowDated

LEMMA NextUnstrayed ==
    ASSUME Inv, Unstrayed, [Next]_vars
    PROVE  Unstrayed'
<1>0. gl \in State /\ "window" \in Targets
    BY DEF Inv, Sound, Targets
<1>1. ASSUME NEW l \in Layers, NewLayer(l) \/ AddChannel(l) PROVE Unstrayed'
    <2>1. /\ strayed' = (strayed \/ gl.in_use # "window")
          /\ gl'.in_use = gl.in_use /\ gl'.bound = "window" /\ gl'.swapped = gl.swapped
          /\ gl'.cleared["window"] = gl.cleared["window"] /\ gl'.picture = gl.picture
        <3>1. CASE NewLayer(l)
            <4>1. /\ gl'.in_use = gl.in_use /\ gl'.bound = "window"
                  /\ gl'.swapped = gl.swapped /\ gl'.picture = gl.picture
                  /\ gl'.cleared = [gl.cleared EXCEPT ![l] = ~gl.swapped]
                BY <1>0, <3>1 DEF NewLayer, State
            <4>2. gl'.cleared["window"] = gl.cleared["window"]
                BY <1>0, <4>1, RenderAssumption DEF State
            <4>. QED BY <3>1, <4>1, <4>2 DEF NewLayer
        <3>2. CASE AddChannel(l)
            BY <1>0, <3>2 DEF AddChannel, State
        <3>. QED BY <1>1, <3>1, <3>2
    <2>. QED BY <2>1 DEF Unstrayed, WindowDated
<1>2. ASSUME NEW l \in Layers, ReadChannel(l) PROVE Unstrayed'
    <2>1. gl' = channel(gl, l) /\ strayed' = strayed
        BY <1>2 DEF ReadChannel
    <2>2. CASE gl.in_use = l
        <3>1. gl' = use(gl, "window") /\ gl.in_use # "window"
            BY <2>1, <2>2, RenderAssumption DEF channel
        <3>. QED BY <1>0, <2>1, <3>1, UseReaches DEF Unstrayed
    <2>3. CASE gl.in_use # l
        BY <2>1, <2>3 DEF channel, Unstrayed
    <2>. QED BY <2>2, <2>3
<1>3. ASSUME NEW t \in Targets, Draw(t) PROVE Unstrayed'
    <2>1. gl' = glDraw(use(gl, t)) /\ strayed' = strayed
        BY <1>3 DEF Draw
    <2>. QED BY <1>0, <2>1, DrawReaches DEF Unstrayed
<1>4. ASSUME NEW t \in Targets, Clear(t) PROVE Unstrayed'
    <2>1. gl' = clear(gl, t) /\ strayed' = strayed
        BY <1>4 DEF Clear
    <2>2. SUFFICES ASSUME ~strayed
                   PROVE  gl'.bound = gl'.in_use /\ WindowDated(gl')
        BY <2>1 DEF Unstrayed
    <2>3. gl.bound = gl.in_use /\ WindowDated(gl)
        BY <2>2 DEF Unstrayed
    <2>4. /\ gl'.in_use = t /\ gl'.bound = t /\ gl'.swapped = gl.swapped
          /\ t = "window" => gl'.picture = {}
          /\ t # "window" => /\ gl'.picture = gl.picture
                             /\ gl'.cleared["window"] = gl.cleared["window"]
        BY <1>0, <2>1, <2>3, ClearReaches
    <2>. QED BY <2>3, <2>4 DEF WindowDated
<1>5. ASSUME NEW l \in Layers, NEW t \in Targets, DrawChannel(l, t) PROVE Unstrayed'
    <2> DEFINE c == channel(gl, l)
    <2>1. gl' = glDraw(use(c, t)) /\ strayed' = strayed
        BY <1>5 DEF DrawChannel
    <2>2. SUFFICES ASSUME ~strayed
                   PROVE  gl'.bound = gl'.in_use /\ WindowDated(gl')
        BY <2>1 DEF Unstrayed
    <2>3. gl.bound = gl.in_use /\ WindowDated(gl)
        BY <2>2 DEF Unstrayed
    <2>4. c \in State /\ c.bound = c.in_use /\ WindowDated(c)
        <3>1. CASE gl.in_use = l
            <4>1. c = use(gl, "window") /\ gl.in_use # "window"
                BY <3>1, RenderAssumption DEF channel
            <4> HIDE DEF c
            <4>. QED BY <1>0, <2>3, <4>1, UseReaches
        <3>2. CASE gl.in_use # l
            BY <1>0, <2>3, <3>2 DEF channel
        <3>. QED BY <3>1, <3>2
    <2> HIDE DEF c
    <2>. QED BY <2>1, <2>4, DrawReaches
<1>6. ASSUME Proc PROVE Unstrayed'
    BY <1>6 DEF Proc, Unstrayed
<1>7. ASSUME Swap PROVE Unstrayed'
    <2> DEFINE g == use(gl, "window")
    <2>1. g = use(gl, "window") /\ gl' = NextFrame(g) /\ Restored
        BY <1>7 DEF Swap
    <2> HIDE DEF g
    <2>2. SUFFICES ASSUME ~strayed'
                   PROVE  gl'.bound = gl'.in_use /\ WindowDated(gl')
        BY DEF Unstrayed
    <2>3. gl.in_use # "window" \/ gl.bound = "window"
        BY <2>1, <2>2 DEF Restored, Unstrayed
    <2>4. /\ g \in State /\ g.in_use = "window" /\ g.bound = "window"
          /\ g.cleared["window"] = g.swapped
        BY <1>0, <2>1, <2>3, UseReaches
    <2>5. /\ gl'.in_use = g.in_use /\ gl'.bound = g.bound
          /\ gl'.swapped = ~g.swapped /\ gl'.cleared = g.cleared
        BY <2>1, <2>4 DEF NextFrame, State
    <2>. QED BY <2>4, <2>5 DEF WindowDated, State
<1>8. CASE UNCHANGED vars
    BY <1>8 DEF vars, Unstrayed, WindowDated
<1>. QED BY <1>1, <1>2, <1>3, <1>4, <1>5, <1>6, <1>7, <1>8 DEF Next

LEMMA UnstrayedAlways == Spec => []Unstrayed
<1>1. Init => Unstrayed
    BY DEF Init, Unstrayed, WindowDated
<1>. QED BY <1>1, NextUnstrayed, InvAlways, PTL DEF Spec

(* No sequence of uses, clears, swaps and reads of channels makes a        *)
(* drawing land on another target, unless that target was in use when the  *)
(* binding was changed behind it.                                          *)
THEOREM DrawingsLand == Spec => DrawsLand
<1>1. ASSUME Inv, Unstrayed, NEW t \in Targets, Draw(t), ~strayed \/ gl.in_use # t
      PROVE  gl'.bound = t
    <2>1. gl \in State /\ gl' = glDraw(use(gl, t))
        BY <1>1 DEF Inv, Sound, Draw
    <2>2. gl.in_use # t \/ gl.bound = t
        BY <1>1 DEF Unstrayed
    <2>. QED BY <2>1, <2>2, DrawReaches
<1>2. Inv /\ Unstrayed =>
        [\A t \in Targets : Draw(t) /\ (~strayed \/ gl.in_use # t) => gl'.bound = t]_vars
    BY <1>1
<1>. QED BY <1>2, InvAlways, UnstrayedAlways, PTL DEF DrawsLand

(* A frame that is shown was drawn since the one before, also the first    *)
(* one, whose bit the constructor does not set.                            *)
THEOREM FramesShown == Spec => FrameShown
<1>1. ASSUME Inv, Unstrayed, ~strayed
      PROVE  use(gl, "window").picture \subseteq {"fresh"}
    <2> DEFINE g == use(gl, "window")
    <2>1. gl \in State /\ "window" \in Targets
        BY <1>1 DEF Inv, Sound, Targets
    <2>2. gl.bound = gl.in_use /\ WindowDated(gl)
        BY <1>1 DEF Unstrayed
    <2>3. g = use(gl, "window")
        OBVIOUS
    <2> HIDE DEF g
    <2>4. WindowDated(g) /\ g.cleared["window"] = g.swapped
        BY <2>1, <2>2, <2>3, UseReaches
    <2>. QED BY <2>3, <2>4 DEF WindowDated
<1>2. Inv /\ Unstrayed =>
        [Swap /\ ~strayed => use(gl, "window").picture \subseteq {"fresh"}]_vars
    BY <1>1
<1>. QED BY <1>2, InvAlways, UnstrayedAlways, PTL DEF FrameShown

-------------------------------------------------------------------------------
(* The owners of names: NamesOwned is inductive once the types are known,  *)
(* and what is lost is lost where NothingLost says.                        *)

TypeInv ==
    /\ open \in BOOLEAN
    /\ object \in [Objects -> Names \cup {None, Gone}]
    /\ names \subseteq Names
    /\ vertices \in [Objects -> Nat]
    /\ uploaded \in [Names -> Nat]

OwnersInv == TypeInv /\ NamesOwned

(* Without a window there are no objects. *)
Closed == ~open => \A o \in Objects : object[o] = None

(* What OpenGL hands out is a name that it does not use. *)
LEMMA FreeIsUnused ==
    ASSUME TypeInv, NEW n \in Free(names)
    PROVE  n \in Names /\ n \notin names
BY ObjectAssumption DEF TypeInv

(* Owners are the objects that have a name. *)
LEMMA OwnersHaveNames ==
    ASSUME TypeInv, NEW o \in Objects
    PROVE  o \in Owners <=> object[o] \in Names
BY DEF Owners

(* Before a window there are no objects. *)
LEMMA InitHolds == ObjectsInit => OwnersInv
<1> SUFFICES ASSUME ObjectsInit PROVE OwnersInv
    OBVIOUS
<1>1. TypeInv
    BY DEF ObjectsInit, TypeInv
<1>2. Owners = {}
    BY ObjectAssumption DEF ObjectsInit, Owners
<1> QED
    BY <1>1, <1>2 DEF OwnersInv, NamesOwned

(* A constructor that generates a name gives it to no one else. *)
LEMMA GenerateKeeps ==
    ASSUME OwnersInv, NEW o \in Objects, object[o] = None, NEW v \in Nat, NEW b \in Nat,
           NEW throws \in BOOLEAN, Generate(o, v, b, throws),
           Kind[o] = "geometry" => v = b
    PROVE  OwnersInv'
<1> PICK n \in Free(names) :
        /\ names' = names \cup {n}
        /\ object' = [object EXCEPT ![o] = IF throws THEN None ELSE n]
        /\ uploaded' = [uploaded EXCEPT ![n] = IF throws THEN 0 ELSE b]
        /\ vertices' = [vertices EXCEPT ![o] = IF throws THEN 0 ELSE v]
        /\ UNCHANGED open
    BY DEF Generate
<1> USE DEF OwnersInv
<1>1. n \in Names /\ n \notin names
    BY FreeIsUnused
<1>2. TypeInv'
    BY <1>1 DEF TypeInv
<1>3. \A x \in Owners' : (x = o /\ ~throws /\ object'[x] = n) \/ (x # o /\ x \in Owners /\ object'[x] = object[x])
    BY <1>1, ObjectAssumption DEF TypeInv, Owners
<1>4. \A x \in Owners : object[x] # n
    BY <1>1 DEF NamesOwned
<1>5. \A x \in Owners' : object'[x] \in names'
    BY <1>3 DEF NamesOwned
<1>6. \A x, y \in Owners' : object'[x] = object'[y] /\ Kind[x] # "layer" => x = y
    BY <1>3, <1>4 DEF NamesOwned
<1>7. \A x \in Owners' : Kind[x] = "geometry" => uploaded'[object'[x]] = vertices'[x]
    <2> SUFFICES ASSUME NEW x \in Owners', Kind[x] = "geometry"
                 PROVE  uploaded'[object'[x]] = vertices'[x]
        OBVIOUS
    <2>1. CASE x = o
        BY <2>1, <1>1, <1>3 DEF TypeInv
    <2>2. CASE x # o
        <3>1. x \in Owners /\ object'[x] = object[x] /\ object[x] # n /\ x \in Objects
            BY <2>2, <1>3, <1>4 DEF Owners
        <3>2. uploaded[object[x]] = vertices[x]
            BY <3>1 DEF NamesOwned
        <3>3. uploaded'[object[x]] = uploaded[object[x]] /\ vertices'[x] = vertices[x]
            BY <3>1, <2>2, <1>1 DEF TypeInv, Owners
        <3> QED BY <3>1, <3>2, <3>3
    <2> QED BY <2>1, <2>2
<1> QED BY <1>2, <1>5, <1>6, <1>7 DEF NamesOwned

(* The window's members get names of their own, and are the only objects.  *)
LEMMA OpenKeeps ==
    ASSUME OwnersInv, OpenWindow, \A o \in Objects : object[o] = None
    PROVE  OwnersInv'
<1> PICK f \in [Members -> Free(names)] :
        /\ \A m, n \in Members : f[m] = f[n] => m = n
        /\ object' = [o \in Objects |-> IF o \in Members THEN f[o] ELSE object[o]]
        /\ names' = {f[m] : m \in Members}
        /\ uploaded' = [n \in Names |-> 0]
    BY DEF OpenWindow
<1> USE DEF OwnersInv
<1>1. \A m \in Members : f[m] \in Names /\ m \in Objects
    BY FreeIsUnused, ObjectAssumption
<1>2. TypeInv'
    BY <1>1 DEF TypeInv, OpenWindow
<1>3. \A x \in Owners' : x \in Members /\ object'[x] = f[x]
    BY ObjectAssumption DEF TypeInv, Owners
<1>4. \A x \in Owners' : uploaded'[object'[x]] = vertices'[x]
    BY <1>1, <1>3 DEF OpenWindow
<1>5. \A x \in Owners' : object'[x] \in names'
    <2> SUFFICES ASSUME NEW x \in Owners' PROVE object'[x] \in names'
        OBVIOUS
    <2>1. x \in Members /\ object'[x] = f[x]
        BY <1>3
    <2>2. f[x] \in names'
        BY <2>1
    <2> QED BY <2>1, <2>2
<1>6. \A x, y \in Owners' : object'[x] = object'[y] /\ Kind[x] # "layer" => x = y
    BY <1>3
<1> QED BY <1>2, <1>4, <1>5, <1>6 DEF NamesOwned

(* When there is no object nothing is owned. *)
LEMMA NoOwners ==
    ASSUME \A o \in Objects : object[o] = None
    PROVE  Owners = {} /\ NamesOwned
BY ObjectAssumption DEF Owners, NamesOwned

LEMMA MoveKeeps ==
    ASSUME OwnersInv, NEW o \in Objects, NEW other \in Objects, Move(o, other)
    PROVE  OwnersInv'
<1> USE DEF OwnersInv
<1>1. /\ o # other /\ object[o] = None /\ Kind[o] = Kind[other]
      /\ object' = [object EXCEPT ![o] = object[other],
                                  ![other] = IF Kind[o] = "layer" THEN @ ELSE Gone]
      /\ vertices' = [vertices EXCEPT ![o] = vertices[other]]
      /\ UNCHANGED <<open, names, uploaded>>
    BY DEF Move, CanMake
<1>2. TypeInv'
    BY <1>1 DEF TypeInv
(* where the name of an object was before *)
<1> DEFINE before(x) == IF x = o THEN other ELSE x
<1>3. \A x \in Owners' : /\ before(x) \in Owners /\ object'[x] = object[before(x)]
                         /\ vertices'[x] = vertices[before(x)] /\ Kind[x] = Kind[before(x)]
                         /\ x = other => Kind[x] = "layer"
    BY <1>1, ObjectAssumption DEF TypeInv, Owners
<1>4. \A x \in Owners' : object'[x] \in names'
    <2>1. \A x \in Owners' : object'[x] \in names
        BY <1>3 DEF NamesOwned
    <2> QED BY <2>1, <1>1
<1>5. ASSUME NEW x \in Owners', NEW y \in Owners', object'[x] = object'[y], Kind[x] # "layer"
      PROVE  x = y
    <2>1. before(x) = before(y)
        BY <1>3, <1>5 DEF NamesOwned
    <2>2. Kind[y] = Kind[x]
        BY <1>3, <2>1
    <2>3. x # other /\ y # other
        BY <1>3, <1>5, <2>2
    <2> QED BY <2>1, <2>3
<1>6. \A x \in Owners' : Kind[x] = "geometry" => uploaded'[object'[x]] = vertices'[x]
    <2>1. \A x \in Owners' : Kind[x] = "geometry" => uploaded[object'[x]] = vertices'[x]
        BY <1>3 DEF NamesOwned
    <2> QED BY <2>1, <1>1
<1> QED BY <1>2, <1>4, <1>5, <1>6 DEF NamesOwned

LEMMA AssignKeeps ==
    ASSUME OwnersInv, NEW o \in Objects, NEW other \in Objects, Assign(o, other)
    PROVE  OwnersInv'
<1> USE DEF OwnersInv
<1>1. /\ Kind[o] = "shader" /\ Kind[other] = "shader"
      /\ object' = [[object EXCEPT ![o] = object[other]] EXCEPT ![other] = Gone]
      /\ UNCHANGED <<open, names, vertices, uploaded>>
    BY DEF Assign
<1>2. TypeInv'
    BY <1>1 DEF TypeInv
<1> DEFINE before(x) == IF x = o THEN other ELSE x
<1>3. \A x \in Owners' : /\ before(x) \in Owners /\ object'[x] = object[before(x)] /\ x # other
                         /\ Kind[x] = Kind[before(x)]
                         /\ Kind[x] = "geometry" => before(x) = x
    BY <1>1, ObjectAssumption DEF TypeInv, Owners
<1>4. \A x \in Owners' : object'[x] \in names'
    <2>1. \A x \in Owners' : object'[x] \in names
        BY <1>3 DEF NamesOwned
    <2> QED BY <2>1, <1>1
<1>5. \A x, y \in Owners' : object'[x] = object'[y] /\ Kind[x] # "layer" => x = y
    BY <1>3 DEF NamesOwned
<1>6. \A x \in Owners' : Kind[x] = "geometry" => uploaded'[object'[x]] = vertices'[x]
    <2>1. \A x \in Owners' : Kind[x] = "geometry" => uploaded[object'[x]] = vertices[x]
        BY <1>3 DEF NamesOwned
    <2> QED BY <2>1, <1>1
<1> QED BY <1>2, <1>4, <1>5, <1>6 DEF NamesOwned

(* A destructor deletes a name that no other object owns. *)
LEMMA DestroyKeeps ==
    ASSUME OwnersInv, NEW o \in Objects, Destroy(o)
    PROVE  OwnersInv'
<1> USE DEF OwnersInv
<1>1. /\ object[o] # None
      /\ names' = IF Deletes(o) THEN names \ {object[o]} ELSE names
      /\ object' = [object EXCEPT ![o] = None]
      /\ uploaded' = [n \in Names |-> IF n = object[o] /\ Deletes(o) THEN 0 ELSE uploaded[n]]
      /\ vertices' = [vertices EXCEPT ![o] = 0]
      /\ UNCHANGED open
    BY DEF Destroy
<1>2. TypeInv'
    BY <1>1 DEF TypeInv
<1>3. \A x \in Owners' : x \in Owners /\ x # o /\ x \in Objects /\ object'[x] = object[x] /\ vertices'[x] = vertices[x]
    BY <1>1, ObjectAssumption DEF TypeInv, Owners
<1>4. \A x \in Owners' : Deletes(o) => object[x] # object[o]
    BY <1>1, <1>3 DEF NamesOwned, Deletes, Owners, TypeInv
<1>5. \A x \in Owners' : object'[x] \in names'
    BY <1>1, <1>3, <1>4 DEF NamesOwned
<1>6. \A x, y \in Owners' : object'[x] = object'[y] /\ Kind[x] # "layer" => x = y
    BY <1>3 DEF NamesOwned
<1>7. \A x \in Owners' : Kind[x] = "geometry" => uploaded'[object'[x]] = vertices'[x]
    BY <1>1, <1>3, <1>4 DEF NamesOwned, Owners
<1> QED BY <1>2, <1>5, <1>6, <1>7 DEF NamesOwned

LEMMA TriangulatedKeeps ==
    ASSUME OwnersInv, NEW o \in Objects, Triangulated(o)
    PROVE  OwnersInv'
<1> USE DEF OwnersInv
<1>1. /\ o \in Owners /\ Kind[o] = "geometry"
      /\ vertices' = [vertices EXCEPT ![o] = @ + 1]
      /\ uploaded' = [uploaded EXCEPT ![object[o]] = vertices[o] + 1]
      /\ UNCHANGED <<open, object, names>>
    BY DEF Triangulated
<1>2. TypeInv'
    BY <1>1 DEF TypeInv, Owners
<1>3. Owners' = Owners
    BY <1>1 DEF Owners
<1>4. \A x \in Owners : x # o => object[x] # object[o]
    BY <1>1 DEF NamesOwned
<1>5. \A x \in Owners' : Kind[x] = "geometry" => uploaded'[object'[x]] = vertices'[x]
    BY <1>1, <1>3, <1>4 DEF NamesOwned, TypeInv, Owners
<1> QED BY <1>1, <1>2, <1>3, <1>5 DEF NamesOwned

-------------------------------------------------------------------------------
(* Objects are made in a window, which closes when they are destroyed. *)
LEMMA ClosedKeeps == OwnersInv /\ Closed /\ [ObjectsNext]_object_vars => Closed'
<1> SUFFICES ASSUME OwnersInv, Closed, [ObjectsNext]_object_vars, ~open'
             PROVE  \A o \in Objects : object'[o] = None
    BY DEF Closed
<1>1. CASE UNCHANGED object_vars
    BY <1>1 DEF Closed, object_vars
<1>2. CASE CloseWindow
    BY <1>2 DEF CloseWindow
<1>3. \A o \in Objects : ~Triangulated(o)
    BY ObjectAssumption DEF Closed, Triangulated, Owners
<1>4. \A o \in Objects : ~Destroy(o) /\ ~FromPath(o) /\ \A v \in {0, 1} : ~Make(o, v)
    BY DEF Destroy, FromPath, Make, CanMake, Generate
<1>5. \A o, other \in Objects : ~CopyGeometry(o, other) /\ ~Move(o, other) /\ ~Assign(o, other)
    BY DEF CopyGeometry, Move, Assign, CanMake, Generate
<1>6. \A o, other \in Objects : ~CopyTexture(o, other)
    BY DEF CopyTexture, CanMake, Generate, object_vars
<1> QED
    BY <1>1, <1>2, <1>3, <1>4, <1>5, <1>6 DEF ObjectsNext, OpenWindow

(* OwnersInv is kept by every action. *)
LEMMA NextKeeps == OwnersInv /\ Closed /\ [ObjectsNext]_object_vars => OwnersInv'
<1> SUFFICES ASSUME OwnersInv, Closed, [ObjectsNext]_object_vars PROVE OwnersInv'
    OBVIOUS
<1>0. CASE UNCHANGED object_vars
    BY <1>0 DEF OwnersInv, TypeInv, NamesOwned, Owners, object_vars
<1>1. CASE OpenWindow
    <2>1. \A o \in Objects : object[o] = None
        BY <1>1 DEF OpenWindow, Closed
    <2> QED BY <1>1, <2>1, OpenKeeps
<1>2. CASE CloseWindow
    <2>1. TypeInv'
        BY <1>2 DEF CloseWindow, TypeInv, OwnersInv
    <2>2. Owners' = {}
        BY <1>2, ObjectAssumption DEF CloseWindow, Owners
    <2> QED BY <2>1, <2>2 DEF OwnersInv, NamesOwned
<1>3. ASSUME NEW o \in Objects, NEW v \in {0, 1}, Make(o, v)
      PROVE  OwnersInv'
    <2>1. PICK throws \in BOOLEAN : Generate(o, v, v, throws)
        BY <1>3 DEF Make, MayThrow
    <2> QED BY <1>3, <2>1, GenerateKeeps DEF Make, CanMake
<1>4. ASSUME NEW o \in Objects, FromPath(o)
      PROVE  OwnersInv'
    BY <1>4, GenerateKeeps DEF FromPath, CanMake
<1>5. ASSUME NEW o \in Objects, NEW other \in Objects, CopyGeometry(o, other)
      PROVE  OwnersInv'
    <2>1. vertices[other] \in Nat /\ object[o] = None
        BY <1>5 DEF OwnersInv, TypeInv, CopyGeometry, CanMake
    <2> QED BY <1>5, <2>1, GenerateKeeps DEF CopyGeometry
<1>6. ASSUME NEW o \in Objects, NEW other \in Objects, CopyTexture(o, other)
      PROVE  OwnersInv'
    <2>1. object[o] = None
        BY <1>6 DEF CopyTexture, CanMake
    <2>2. CASE \E throws \in BOOLEAN : Generate(o, 0, 0, throws)
        BY <2>1, <2>2, GenerateKeeps
    <2> QED BY <1>6, <1>0, <2>2 DEF CopyTexture
<1> QED
    BY <1>0, <1>1, <1>2, <1>3, <1>4, <1>5, <1>6, MoveKeeps, AssignKeeps,
       DestroyKeeps, TriangulatedKeeps DEF ObjectsNext

(* The inductive invariant holds always. *)
THEOREM ObjectsInvAlways == ObjectsSpec => [](OwnersInv /\ Closed)
<1>1. ObjectsInit => Closed
    BY DEF ObjectsInit, Closed
<1> QED BY InitHolds, <1>1, NextKeeps, ClosedKeeps, PTL DEF ObjectsSpec

(* A name has one object that deletes it, whatever is copied, moved,       *)
(* assigned or thrown, for any objects and any names.                      *)
THEOREM NamesAlwaysOwned == ObjectsSpec => []NamesOwned
<1>1. OwnersInv => NamesOwned
    BY DEF OwnersInv
<1> QED BY ObjectsInvAlways, <1>1, PTL

-------------------------------------------------------------------------------
(* What the object that is made owns is not lost; if none is made, no      *)
(* object changed.                                                         *)
LEMMA GenerateExcused ==
    ASSUME OwnersInv, NEW o \in Objects, object[o] = None, NEW v \in Nat, NEW b \in Nat,
           NEW throws \in BOOLEAN, Generate(o, v, b, throws), NEW n \in names' \ Kept'
    PROVE  Excused(n)
<1> PICK m \in Free(names) :
        /\ names' = names \cup {m}
        /\ object' = [object EXCEPT ![o] = IF throws THEN None ELSE m]
    BY DEF Generate
<1>1. m \in Names /\ m \notin names
    BY FreeIsUnused DEF OwnersInv
<1>2. CASE throws
    <2>1. object' = object
        BY <1>2 DEF OwnersInv, TypeInv
    <2> QED BY <2>1, <1>1 DEF Excused, Kept, Owners
<1>3. CASE ~throws
    <2>1. \A x \in Owners : x \in Owners' /\ object'[x] = object[x]
        BY <1>1, ObjectAssumption DEF OwnersInv, TypeInv, Owners
    <2>2. o \in Owners' /\ object'[o] = m
        BY <1>1, <1>3 DEF OwnersInv, TypeInv, Owners
    <2>3. Kept \subseteq Kept' /\ m \in Kept'
        BY <2>1, <2>2 DEF Kept
    <2> QED BY <2>3 DEF Excused
<1> QED BY <1>2, <1>3

LEMMA MoveExcused ==
    ASSUME OwnersInv, NEW o \in Objects, NEW other \in Objects, Move(o, other), NEW n \in names' \ Kept'
    PROVE  Excused(n)
<1>1. /\ o # other /\ object[o] = None
      /\ object' = [object EXCEPT ![o] = object[other],
                                  ![other] = IF Kind[o] = "layer" THEN @ ELSE Gone]
      /\ names' = names
    BY DEF Move, CanMake
<1>2. \A x \in Owners : \E y \in Owners' : object'[y] = object[x]
    <2> SUFFICES ASSUME NEW x \in Owners PROVE \E y \in Owners' : object'[y] = object[x]
        OBVIOUS
    <2>1. CASE x = other
        <3>1. o \in Owners' /\ object'[o] = object[x]
            BY <1>1, <2>1 DEF OwnersInv, TypeInv, Owners
        <3> QED BY <3>1
    <2>2. CASE x # other
        <3>1. x \in Owners' /\ object'[x] = object[x]
            BY <1>1, <2>2, ObjectAssumption DEF OwnersInv, TypeInv, Owners
        <3> QED BY <3>1
    <2> QED BY <2>1, <2>2
<1>3. Kept \subseteq Kept'
    BY <1>2 DEF Kept
<1> QED BY <1>1, <1>3 DEF Excused

LEMMA AssignExcused ==
    ASSUME OwnersInv, NEW o \in Objects, NEW other \in Objects, Assign(o, other), NEW n \in names' \ Kept'
    PROVE  Excused(n)
<1>1. /\ Kind[o] = "shader" /\ object[other] # None
      /\ object' = [[object EXCEPT ![o] = object[other]] EXCEPT ![other] = Gone]
      /\ names' = names
    BY DEF Assign
<1>2. CASE n \in Kept
    <2>1. PICK x \in Owners : object[x] = n
        BY <1>2 DEF Kept
    <2>2. CASE x = o
        <3>1. object'[o] # None
            BY <1>1, ObjectAssumption DEF OwnersInv, TypeInv
        <3> QED BY <1>1, <2>1, <2>2, <3>1 DEF Excused
    <2>3. CASE x # o /\ x # other
        <3>1. x \in Owners' /\ object'[x] = n
            BY <1>1, <2>1, <2>3 DEF OwnersInv, TypeInv, Owners
        <3> QED BY <3>1 DEF Kept
    <2>4. CASE x # o /\ x = other
        <3>1. o \in Owners' /\ object'[o] = n
            BY <1>1, <2>1, <2>4 DEF OwnersInv, TypeInv, Owners
        <3> QED BY <3>1 DEF Kept
    <2> QED BY <2>2, <2>3, <2>4
<1>3. CASE n \notin Kept
    BY <1>1, <1>3 DEF Excused
<1> QED BY <1>2, <1>3

LEMMA DestroyExcused ==
    ASSUME OwnersInv, NEW o \in Objects, Destroy(o), NEW n \in names' \ Kept'
    PROVE  Excused(n)
<1>1. /\ object[o] # None
      /\ names' = IF Deletes(o) THEN names \ {object[o]} ELSE names
      /\ object' = [object EXCEPT ![o] = None]
    BY DEF Destroy
<1>2. CASE n \in Kept
    <2>1. PICK x \in Owners : object[x] = n
        BY <1>2 DEF Kept
    <2>2. CASE x = o
        <3>1. object'[o] = None
            BY <1>1 DEF OwnersInv, TypeInv
        <3>2. Kind[o] = "layer"
            BY <1>1, <2>1, <2>2, ObjectAssumption DEF Deletes, Owners
        <3> QED BY <2>1, <2>2, <3>1, <3>2 DEF Excused
    <2>3. CASE x # o
        <3>1. x \in Owners' /\ object'[x] = n
            BY <1>1, <2>1, <2>3 DEF OwnersInv, TypeInv, Owners
        <3> QED BY <3>1 DEF Kept
    <2> QED BY <2>2, <2>3
<1>3. CASE n \notin Kept
    BY <1>1, <1>3 DEF Excused
<1> QED BY <1>2, <1>3

(* No step loses a name otherwise. *)
LEMMA StepExcused ==
    ASSUME OwnersInv, Closed, ObjectsNext, NEW n \in names' \ Kept'
    PROVE  Excused(n)
<1>0. CASE UNCHANGED object_vars
    BY <1>0 DEF Excused, Kept, Owners, object_vars
<1>1. CASE OpenWindow
    <2>1. PICK f \in [Members -> Free(names)] :
            /\ object' = [o \in Objects |-> IF o \in Members THEN f[o] ELSE object[o]]
            /\ names' = {f[m] : m \in Members}
        BY <1>1 DEF OpenWindow
    <2>2. PICK m \in Members : n = f[m]
        BY <2>1
    <2>3. m \in Owners' /\ object'[m] = n
        BY <2>1, <2>2, FreeIsUnused, ObjectAssumption DEF Owners, OwnersInv
    <2> QED BY <2>3 DEF Kept
<1>2. CASE CloseWindow
    BY <1>2 DEF CloseWindow
<1>3. ASSUME NEW o \in Objects, NEW v \in {0, 1}, Make(o, v)
      PROVE  Excused(n)
    <2>1. PICK throws \in BOOLEAN : Generate(o, v, v, throws)
        BY <1>3 DEF Make, MayThrow
    <2> QED BY <1>3, <2>1, GenerateExcused DEF Make, CanMake
<1>4. ASSUME NEW o \in Objects, FromPath(o)
      PROVE  Excused(n)
    BY <1>4, GenerateExcused DEF FromPath, CanMake
<1>5. ASSUME NEW o \in Objects, NEW other \in Objects, CopyGeometry(o, other)
      PROVE  Excused(n)
    <2>1. vertices[other] \in Nat /\ object[o] = None
        BY <1>5 DEF OwnersInv, TypeInv, CopyGeometry, CanMake
    <2> QED BY <1>5, <2>1, GenerateExcused DEF CopyGeometry
<1>6. ASSUME NEW o \in Objects, NEW other \in Objects, CopyTexture(o, other)
      PROVE  Excused(n)
    <2>1. object[o] = None
        BY <1>6 DEF CopyTexture, CanMake
    <2>2. CASE \E throws \in BOOLEAN : Generate(o, 0, 0, throws)
        BY <2>1, <2>2, GenerateExcused
    <2> QED BY <1>0, <1>6, <2>2 DEF CopyTexture
<1>7. ASSUME NEW o \in Objects, Triangulated(o)
      PROVE  Excused(n)
    <2>1. names' = names /\ object' = object
        BY <1>7 DEF Triangulated
    <2> QED BY <2>1 DEF Excused, Kept, Owners
<1> QED
    BY <1>1, <1>2, <1>3, <1>4, <1>5, <1>6, <1>7, MoveExcused, AssignExcused,
       DestroyExcused DEF ObjectsNext

(* A name is lost only where a constructor throws, a shader is assigned to *)
(* or a layer destroyed, for any objects and any names.                    *)
THEOREM LossesNamed == ObjectsSpec => NothingLost
<1>1. OwnersInv /\ Closed /\ [ObjectsNext]_object_vars =>
          [\A n \in names \cup names' : n \in names' \ Kept' => Excused(n)]_object_vars
    BY StepExcused
<1> QED BY ObjectsInvAlways, <1>1, PTL DEF ObjectsSpec, NothingLost

===============================================================================
