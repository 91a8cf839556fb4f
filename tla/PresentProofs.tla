---------------------------- MODULE PresentProofs ----------------------------
(* Theorems about Present: what the outputs are, for any number of them    *)
(* and any sizes, pictures and worlds.                                     *)
EXTENDS Present, DamageRect, ListProofs, TLAPS

-----------------------------------------------------------------------------
(* A client's state, as far as the theorems need it: what is drawn and the *)
(* buffers are free.                                                       *)

Fields == {"out", "pool", "screen", "owed", "queued", "wake", "low",
           "playing", "picture"}

Client(c) ==
  /\ Fields \subseteq DOMAIN c
  /\ c.out \in [Outputs -> OutputInfo]
  /\ c.owed \in [Outputs -> Nat]
  /\ c.picture \in Pictures

\* What a draw() may do to an output: nothing, or commit a frame if it is ready.
Framed(info, area) == [info EXCEPT !.pending = TRUE, !.indicator = area]

DrawnOn(info, n, info1, n1) ==
  \/ info1 = info /\ n1 = n
  \/ /\ Ready(info) /\ n1 = n + 1
     /\ \E area \in SUBSET Regions : info1 = Framed(info, area)

DrawsOn(c, d) ==
  /\ Client(d)
  /\ \A o \in Outputs : DrawnOn(c.out[o], c.owed[o], d.out[o], d.owed[o])

LEMMA DrawnOnType ==
  ASSUME NEW info \in OutputInfo, NEW n \in Nat, NEW info1, NEW n1,
         DrawnOn(info, n, info1, n1)
  PROVE  info1 \in OutputInfo /\ n1 \in Nat
<1>1. ASSUME NEW area \in SUBSET Regions
      PROVE  Framed(info, area) \in OutputInfo
  BY DEF Framed, OutputInfo
<1>2. QED
  BY <1>1 DEF DrawnOn

LEMMA PixelsChange ==
  ASSUME NEW c, Client(c), NEW pools, NEW screens
  PROVE  LET d == [c EXCEPT !.pool = pools, !.screen = screens]
         IN  Client(d) /\ d.out = c.out /\ d.owed = c.owed
BY DEF Client, Fields

LEMMA AgedClient ==
  ASSUME NEW c, Client(c), NEW S
  PROVE  /\ Client(Aged(c, S))
         /\ Aged(c, S).out = c.out /\ Aged(c, S).owed = c.owed
BY PixelsChange DEF Aged

LEMMA AdvancedClient ==
  ASSUME NEW c, Client(c), NEW a \in Advanced(c)
  PROVE  Client(a) /\ a.out = c.out /\ a.owed = c.owed
<1>1. CASE a = c
  BY <1>1
<1>2. CASE a # c
  <2>1. PICK S : a = Aged(c, S)
    BY <1>2 DEF Advanced
  <2>2. QED
    BY <2>1, AgedClient
<1>3. QED
  BY <1>1, <1>2

\* Paint() of one output that is ready.
LEMMA PaintFacts ==
  ASSUME NEW c, Client(c), NEW o \in Outputs, NEW got, NEW base
  PROVE  \/ /\ Paint(c, o, got, base).out = c.out[o]
            /\ Paint(c, o, got, base).owed = c.owed[o]
         \/ /\ Paint(c, o, got, base).owed = c.owed[o] + 1
            /\ Paint(c, o, got, base).out = Framed(c.out[o], c.picture.area)
BY DEF Paint, Uncommitted, Framed


LEMMA WithPlaylistsClient ==
  ASSUME NEW c, Client(c), NEW drawn
  PROVE  /\ Client(WithPlaylists(c, drawn))
         /\ WithPlaylists(c, drawn).out = c.out
         /\ WithPlaylists(c, drawn).owed = c.owed
         /\ WithPlaylists(c, drawn).picture = c.picture
BY DEF WithPlaylists, Client, Fields

\* The outputs, buffers and screens after a draw().
Redrawn(c, outs, pools, screens, owes) ==
  [c EXCEPT !.out = outs, !.pool = pools, !.screen = screens, !.owed = owes]

LEMMA FrameClient ==
  ASSUME NEW c, Client(c), NEW outs \in [Outputs -> OutputInfo], NEW pools,
         NEW screens, NEW owes \in [Outputs -> Nat]
  PROVE  /\ Client(Redrawn(c, outs, pools, screens, owes))
         /\ Redrawn(c, outs, pools, screens, owes).out = outs
         /\ Redrawn(c, outs, pools, screens, owes).owed = owes
BY DEF Client, Fields, Redrawn

LEMMA DrawnClient ==
  ASSUME NEW c, Client(c), NEW fate
  PROVE  DrawsOn(c, Drawn(c, fate))
<1> DEFINE ready == ReadyOutputs(c)
           got   == [o \in ready |-> GetBuffer(c.pool[o], c.out[o].size,
                                              fate[o] = "unmade")]
           taken == {o \in ready : got[o].at # 0}
           drawn == {o \in taken : fate[o] # "unrendered"}
           after == [o \in Outputs |->
                       CASE o \in drawn -> Paint(c, o, got[o], Shown(c))
                         [] o \in taken \ drawn ->
                              Skip(c, o, With(got[o].bufs, got[o].at,
                                              Spoilt(got[o].bufs[got[o].at])))
                         [] o \in ready \ taken -> Skip(c, o, got[o].bufs)
                         [] OTHER -> Skip(c, o, c.pool[o])]
           outs  == [o \in Outputs |-> after[o].out]
           owes  == [o \in Outputs |-> after[o].owed]
           pools == [o \in Outputs |-> after[o].pool]
           screens == [o \in Outputs |-> after[o].screen]
<1>1. Drawn(c, fate) = Redrawn(WithPlaylists(c, taken), outs, pools, screens, owes)
  BY DEF Drawn, Redrawn
<1>2. c.picture.area \in SUBSET Regions
  BY PresentAssumption DEF Client
<1>3. ASSUME NEW o \in Outputs
      PROVE  DrawnOn(c.out[o], c.owed[o], outs[o], owes[o])
  <2>1. outs[o] = after[o].out /\ owes[o] = after[o].owed
    OBVIOUS
  <2>2. CASE o \in drawn
    <3>1. after[o] = Paint(c, o, got[o], Shown(c))
      BY <2>2
    <3>2. Ready(c.out[o])
      BY <2>2 DEF ReadyOutputs
    <3> DEFINE painted == Paint(c, o, got[o], Shown(c))
    <3>3. \/ painted.out = c.out[o] /\ painted.owed = c.owed[o]
          \/ /\ painted.owed = c.owed[o] + 1
             /\ painted.out = Framed(c.out[o], c.picture.area)
      BY PaintFacts
    <3> HIDE DEF outs, owes, after, drawn, taken, got, ready, painted
    <3>4. after[o] = painted
      BY <3>1 DEF painted
    <3>5. QED
      BY <1>2, <2>1, <3>2, <3>3, <3>4 DEF DrawnOn
  <2>3. CASE o \notin drawn
    <3>1. \E bufs : after[o] = Skip(c, o, bufs)
      BY <2>3
    <3> HIDE DEF outs, owes, after, drawn, taken, got, ready
    <3>2. QED
      BY <2>1, <3>1 DEF Skip, DrawnOn
  <2>4. QED
    BY <2>2, <2>3
<1>4. \A o \in Outputs : c.out[o] \in OutputInfo /\ c.owed[o] \in Nat
  BY DEF Client
<1>5. outs \in [Outputs -> OutputInfo] /\ owes \in [Outputs -> Nat]
  <2>1. ASSUME NEW o \in Outputs
        PROVE  outs[o] \in OutputInfo /\ owes[o] \in Nat
    <3> HIDE DEF outs, owes
    <3>1. QED
      BY <1>3, <1>4, DrawnOnType
  <2>2. QED
    BY <2>1
<1> DEFINE w == WithPlaylists(c, taken)
<1> HIDE DEF ready, got, taken, drawn, after, outs, owes, pools, screens
<1>6. Client(w)
  BY WithPlaylistsClient
<1> HIDE DEF w
<1>7. Drawn(c, fate) = Redrawn(w, outs, pools, screens, owes)
  BY <1>1 DEF w
<1>8. Client(Drawn(c, fate)) /\ Drawn(c, fate).out = outs
      /\ Drawn(c, fate).owed = owes
  BY <1>5, <1>6, <1>7, FrameClient
<1>9. QED
  BY <1>3, <1>8 DEF DrawsOn

LEMMA DrawClient ==
  ASSUME NEW c, Client(c), NEW d \in Draw(c)
  PROVE  DrawsOn(c, d)
<1> DEFINE asked == [c EXCEPT !.queued = @ \/ Waiting(c.out)]
<1>1. Client(asked) /\ asked.out = c.out /\ asked.owed = c.owed
  BY DEF Client, Fields
<1>2. d = asked \/ \E a \in Advanced(asked) : \E f \in Fates(a) : d = Drawn(a, f)
  BY DEF Draw
<1> HIDE DEF asked
<1>3. CASE d = asked
  BY <1>1, <1>3 DEF DrawsOn, DrawnOn
<1>4. CASE \E a \in Advanced(asked) : \E f \in Fates(a) : d = Drawn(a, f)
  <2>1. PICK a \in Advanced(asked) : \E f \in Fates(a) : d = Drawn(a, f)
    BY <1>4
  <2>2. Client(a) /\ a.out = c.out /\ a.owed = c.owed
    BY <1>1, <2>1, AdvancedClient
  <2>3. DrawsOn(a, d)
    BY <2>1, <2>2, DrawnClient
  <2>4. QED
    BY <2>2, <2>3 DEF DrawsOn
<1>5. QED
  BY <1>2, <1>3, <1>4

-----------------------------------------------------------------------------
(* The inductive invariant.                                                *)

\* Of one output with n callbacks owed: a surface waits only for what is owed,
\* only outputs that are there have surfaces, and while sizes stay as they are
\* the callbacks owed are counted by frame_pending.
Sound(info, n, lk) ==
  /\ info.pending => info.configured /\ n > 0
  /\ info.configured => info.surface
  /\ info.surface => info.state = "plugged"
  /\ lk /\ info.state = "plugged" => info.surface
  /\ "resize" \notin World =>
       /\ n <= 1
       /\ info.state # "gone" /\ ~info.pending => n = 0

SoundClient(c, lk) ==
  /\ Client(c)
  /\ \A o \in Outputs : Sound(c.out[o], c.owed[o], lk)

PInv == SoundClient(Now, locked)

LEMMA DrawnOnSound ==
  ASSUME NEW info \in OutputInfo, NEW n \in Nat, NEW info1, NEW n1,
         NEW lk \in BOOLEAN, Sound(info, n, lk), DrawnOn(info, n, info1, n1)
  PROVE  Sound(info1, n1, lk)
<1>1. ASSUME NEW area \in SUBSET Regions, Ready(info), info1 = Framed(info, area),
             n1 = n + 1
      PROVE  Sound(info1, n1, lk)
  <2>1. /\ info1.pending = TRUE /\ info1.configured = info.configured
        /\ info1.surface = info.surface /\ info1.state = info.state
    BY <1>1 DEF Framed, OutputInfo
  <2>2. info.configured /\ ~info.pending
    BY <1>1 DEF Ready
  <2>3. n + 1 > 0 /\ (n = 0 => n + 1 <= 1)
    OBVIOUS
  <2>4. QED
    BY <1>1, <2>1, <2>2, <2>3 DEF Sound
<1>2. QED
  BY <1>1 DEF DrawnOn

LEMMA DrawSound ==
  ASSUME NEW lk \in BOOLEAN, NEW c, SoundClient(c, lk), NEW d \in Draw(c)
  PROVE  SoundClient(d, lk)
<1>1. Client(c) /\ Client(d)
  BY DrawClient DEF SoundClient, DrawsOn
<1>2. ASSUME NEW o \in Outputs PROVE Sound(d.out[o], d.owed[o], lk)
  <2>1. DrawnOn(c.out[o], c.owed[o], d.out[o], d.owed[o])
    BY <1>1, DrawClient DEF DrawsOn
  <2>2. c.out[o] \in OutputInfo /\ c.owed[o] \in Nat
    BY <1>1 DEF Client
  <2>3. Sound(c.out[o], c.owed[o], lk)
    BY DEF SoundClient
  <2>4. QED
    BY <2>1, <2>2, <2>3, DrawnOnSound
<1>3. QED
  BY <1>1, <1>2 DEF SoundClient

LEMMA PrunedSound ==
  ASSUME NEW lk, NEW c, SoundClient(c, lk)
  PROVE  SoundClient(Pruned(c), lk)
<1> DEFINE dropped == {s \in c.playing :
              \A o \in Outputs : c.out[o].configured => c.out[o].size # s}
           a == Aged(c, dropped)
<1>1. Client(a) /\ a.out = c.out /\ a.owed = c.owed
  BY AgedClient DEF SoundClient
<1>2. Pruned(c) = [a EXCEPT !.playing = @ \ dropped]
  BY DEF Pruned
<1> HIDE DEF dropped, a
<1>3. /\ Client(Pruned(c)) /\ Pruned(c).out = c.out /\ Pruned(c).owed = c.owed
  BY <1>1, <1>2 DEF Client, Fields
<1>4. QED
  BY <1>3 DEF SoundClient

\* A step that makes a sound client's state the next one keeps the invariant.
LEMMA BecomesSound ==
  ASSUME NEW d, Becomes(d), SoundClient(d, locked')
  PROVE  PInv'
BY DEF PInv, SoundClient, Client, Fields, Becomes, Now

\* Another state of one output.
LEMMA OutputSound ==
  ASSUME NEW c, NEW lk \in BOOLEAN, SoundClient(c, lk), NEW o \in Outputs,
         NEW info \in OutputInfo, Sound(info, c.owed[o], lk)
  PROVE  SoundClient([c EXCEPT !.out = [c.out EXCEPT ![o] = info]], lk)
BY DEF SoundClient, Client, Fields

\* What is drawn and the buffers do not matter.
LEMMA SameOutputsSound ==
  ASSUME NEW c, NEW lk, SoundClient(c, lk), NEW d, Fields \subseteq DOMAIN d,
         d.out = c.out, d.owed = c.owed, d.picture \in Pictures
  PROVE  SoundClient(d, lk)
BY DEF SoundClient, Client

LEMMA NowIs ==
  /\ Fields \subseteq DOMAIN Now
  /\ Now.out = out /\ Now.owed = owed /\ Now.picture = picture
BY DEF Now, Fields

LEMMA PInit == Init => PInv
<1> SUFFICES ASSUME Init PROVE PInv
  OBVIOUS
<1>1. PICK there \in SUBSET Outputs :
        out = [o \in Outputs |-> IF o \in there
                                 THEN [Unbound EXCEPT !.state = "plugged"]
                                 ELSE Unbound]
  BY DEF Init
<1>2. ASSUME NEW o \in Outputs
      PROVE  /\ out[o] \in OutputInfo /\ Sound(out[o], owed[o], locked)
             /\ owed[o] = 0
  <2>1. out[o] \in {Unbound, [Unbound EXCEPT !.state = "plugged"]}
    BY <1>1
  <2>2. owed[o] = 0 /\ locked = FALSE
    BY DEF Init
  <2> DEFINE plugged == [Unbound EXCEPT !.state = "plugged"]
  <2>3. \A info \in {Unbound, plugged} :
          /\ info \in OutputInfo
          /\ info.pending = FALSE /\ info.configured = FALSE
          /\ info.surface = FALSE
    <3>1. /\ Unbound \in OutputInfo
          /\ Unbound.pending = FALSE /\ Unbound.configured = FALSE
          /\ Unbound.surface = FALSE
      BY DEF Unbound, OutputInfo
    <3>2. /\ plugged \in OutputInfo
          /\ plugged.pending = FALSE /\ plugged.configured = FALSE
          /\ plugged.surface = FALSE
      BY DEF Unbound, OutputInfo
    <3> HIDE DEF plugged
    <3>3. QED
      BY <3>1, <3>2, Zenon
  <2>4. /\ out[o] \in OutputInfo
        /\ out[o].pending = FALSE /\ out[o].configured = FALSE
        /\ out[o].surface = FALSE
    BY <2>1, <2>3
  <2>5. QED
    BY <2>2, <2>4 DEF Sound
<1>3. picture \in Pictures
  BY PresentAssumption DEF Init
<1>4. DOMAIN out = Outputs /\ DOMAIN owed = Outputs
  BY <1>1 DEF Init
<1>5. out \in [Outputs -> OutputInfo] /\ owed \in [Outputs -> Nat]
  BY <1>1, <1>2 DEF Init
<1>6. QED
  BY <1>2, <1>3, <1>5, NowIs DEF PInv, SoundClient, Client

LEMMA PlugSound == ASSUME PInv, locked \in BOOLEAN, NEW o \in Outputs, Plug(o)
                   PROVE  PInv'
<1> DEFINE plain == [out[o] EXCEPT !.state = "plugged"]
           info  == IF locked THEN WithSurface(plain) ELSE plain
           d     == [Now EXCEPT !.out = [out EXCEPT ![o] = info]]
<1>1. SoundClient(Now, locked) /\ out[o] \in OutputInfo /\ owed[o] \in Nat
      /\ Sound(out[o], owed[o], locked)
  BY NowIs DEF PInv, SoundClient, Client
<1>2. out[o].state = "new" /\ locked' = locked
  BY DEF Plug
<1>3. info \in OutputInfo
  BY <1>1 DEF WithSurface, OutputInfo
<1>4. /\ info.pending = out[o].pending /\ info.configured = out[o].configured
      /\ info.surface = (locked \/ out[o].surface) /\ info.state = "plugged"
  BY <1>1 DEF WithSurface, OutputInfo
<1>5. Becomes(d)
  BY NowIs DEF Plug
<1> HIDE DEF info
<1>6. Sound(info, owed[o], locked)
  BY <1>1, <1>2, <1>4 DEF Sound
<1>7. SoundClient(d, locked)
  BY <1>1, <1>3, <1>6, OutputSound, NowIs
<1> HIDE DEF d
<1>8. QED
  BY <1>2, <1>5, <1>7, BecomesSound

LEMMA LockedSound == ASSUME PInv, Locked PROVE PInv'
<1> DEFINE outs == [o \in Outputs |->
                      IF out[o].state = "plugged" THEN WithSurface(out[o])
                      ELSE out[o]]
           d    == [Now EXCEPT !.out = outs]
<1>1. locked = FALSE /\ locked' = TRUE /\ Becomes(d)
  BY NowIs DEF Locked
<1>2. SoundClient(Now, locked)
  BY DEF PInv
<1>3. ASSUME NEW o \in Outputs
      PROVE  outs[o] \in OutputInfo /\ Sound(outs[o], owed[o], TRUE)
  <2>1. out[o] \in OutputInfo /\ owed[o] \in Nat /\ Sound(out[o], owed[o], locked)
    BY <1>2, NowIs DEF SoundClient, Client
  <2>2. CASE out[o].state = "plugged"
    <3> DEFINE info == WithSurface(out[o])
    <3>1. /\ info \in OutputInfo /\ info.surface = TRUE
          /\ info.pending = out[o].pending /\ info.configured = out[o].configured
          /\ info.state = "plugged"
      BY <2>1, <2>2 DEF WithSurface, OutputInfo
    <3>2. outs[o] = info
      BY <2>2
    <3> HIDE DEF info, outs
    <3>3. QED
      BY <2>1, <2>2, <3>1, <3>2 DEF Sound
  <2>3. CASE out[o].state # "plugged"
    <3>1. outs[o] = out[o]
      BY <2>3
    <3> HIDE DEF outs
    <3>2. QED
      BY <2>1, <2>3, <3>1 DEF Sound
  <2>4. QED
    BY <2>2, <2>3
<1>4. outs \in [Outputs -> OutputInfo]
  BY <1>3
<1> HIDE DEF outs
<1>5. SoundClient(d, TRUE)
  BY <1>2, <1>3, <1>4, NowIs DEF SoundClient, Client, Fields
<1> HIDE DEF d
<1>6. QED
  BY <1>1, <1>5, BecomesSound

LEMMA UnplugSound ==
  ASSUME PInv, locked \in BOOLEAN, NEW o \in Outputs, Unplug(o)
  PROVE  PInv'
<1> DEFINE info == [Unbound EXCEPT !.state = "gone"]
           mid  == [Now EXCEPT !.out = [out EXCEPT ![o] = info]]
           d    == [Now EXCEPT !.out[o] = info, !.pool[o] = <<>>,
                               !.screen[o] = Dark]
<1>1. SoundClient(Now, locked) /\ owed[o] \in Nat /\ Sound(out[o], owed[o], locked)
  BY NowIs DEF PInv, SoundClient, Client
<1>2. locked' = locked /\ Becomes(Pruned(d))
  BY DEF Unplug
<1>3. /\ info \in OutputInfo /\ info.state = "gone" /\ info.pending = FALSE
      /\ info.configured = FALSE /\ info.surface = FALSE
  BY DEF Unbound, OutputInfo
<1>4. /\ Fields \subseteq DOMAIN d /\ d.out = [out EXCEPT ![o] = info]
      /\ d.owed = owed /\ d.picture = picture
  BY DEF Now, Fields
<1>5. /\ mid.out = [out EXCEPT ![o] = info] /\ mid.owed = owed
  BY DEF Now
<1> HIDE DEF info
<1>6. Sound(info, owed[o], locked)
  BY <1>1, <1>3 DEF Sound
<1>7. SoundClient(mid, locked)
  BY <1>1, <1>3, <1>6, OutputSound, NowIs
<1> HIDE DEF mid, d
<1>8. picture \in Pictures
  BY <1>1, NowIs DEF SoundClient, Client
<1>9. SoundClient(d, locked)
  BY <1>4, <1>5, <1>7, <1>8, SameOutputsSound
<1>10. QED
  BY <1>2, <1>9, PrunedSound, BecomesSound

LEMMA ConfigureSound ==
  ASSUME PInv, locked \in BOOLEAN, NEW o \in Outputs, NEW size \in Sizes,
         Configure(o, size)
  PROVE  PInv'
<1> DEFINE info == Reconfigured(out[o], size)
           d    == [Now EXCEPT !.out = [out EXCEPT ![o] = info]]
<1>1. /\ SoundClient(Now, locked) /\ out[o] \in OutputInfo /\ owed[o] \in Nat
      /\ Sound(out[o], owed[o], locked)
  BY NowIs DEF PInv, SoundClient, Client
<1>2. /\ out[o].surface /\ (out[o].configured => "resize" \in World)
      /\ locked' = locked
  BY DEF Configure
<1>3. PICK c \in Draw(Pruned(d)) : Becomes(c)
  BY NowIs DEF Configure
<1>4. /\ info \in OutputInfo /\ info.pending = FALSE /\ info.configured = TRUE
      /\ info.surface = out[o].surface /\ info.state = out[o].state
  BY <1>1 DEF Reconfigured, OutputInfo
<1> HIDE DEF info
<1>5. Sound(info, owed[o], locked)
  BY <1>1, <1>2, <1>4 DEF Sound
<1>6. SoundClient(d, locked)
  BY <1>1, <1>4, <1>5, OutputSound, NowIs
<1> HIDE DEF d
<1>7. QED
  BY <1>2, <1>3, <1>6, PrunedSound, DrawSound, BecomesSound

LEMMA ScaleSound ==
  ASSUME PInv, locked \in BOOLEAN, NEW o \in Outputs, NEW size \in Sizes,
         Scale(o, size)
  PROVE  PInv'
<1> DEFINE info == [out[o] EXCEPT !.size = size]
           d    == [Now EXCEPT !.out = [out EXCEPT ![o] = info]]
<1>1. /\ SoundClient(Now, locked) /\ out[o] \in OutputInfo /\ owed[o] \in Nat
      /\ Sound(out[o], owed[o], locked)
  BY NowIs DEF PInv, SoundClient, Client
<1>2. locked' = locked /\ Becomes(Pruned(d))
  BY NowIs DEF Scale
<1>3. /\ info \in OutputInfo /\ info.pending = out[o].pending
      /\ info.configured = out[o].configured /\ info.surface = out[o].surface
      /\ info.state = out[o].state
  BY <1>1 DEF OutputInfo
<1> HIDE DEF info
<1>4. Sound(info, owed[o], locked)
  BY <1>1, <1>3 DEF Sound
<1>5. SoundClient(d, locked)
  BY <1>1, <1>3, <1>4, OutputSound, NowIs
<1> HIDE DEF d
<1>6. QED
  BY <1>2, <1>5, PrunedSound, BecomesSound

LEMMA FrameDoneSound ==
  ASSUME PInv, locked \in BOOLEAN, NEW o \in Outputs, FrameDone(o)
  PROVE  PInv'
<1> DEFINE info == [out[o] EXCEPT !.pending = FALSE]
           left == [owed EXCEPT ![o] = owed[o] - 1]
           c    == [Now EXCEPT !.out = [out EXCEPT ![o] = info], !.owed = left]
           q    == [c EXCEPT !.queued = FALSE]
<1>1. /\ SoundClient(Now, locked) /\ out[o] \in OutputInfo /\ owed[o] \in Nat
      /\ Sound(out[o], owed[o], locked)
  BY NowIs DEF PInv, SoundClient, Client
<1>2. owed[o] > 0 /\ locked' = locked
  BY DEF FrameDone
<1>3. \/ \E d \in Draw(q) : Becomes(d)
      \/ Becomes(c)
  BY NowIs DEF FrameDone
<1>4. /\ info \in OutputInfo /\ info.pending = FALSE
      /\ info.configured = out[o].configured /\ info.surface = out[o].surface
      /\ info.state = out[o].state
  BY <1>1 DEF OutputInfo
<1>5. left \in [Outputs -> Nat] /\ left[o] = owed[o] - 1
      /\ \A p \in Outputs \ {o} : left[p] = owed[p]
  BY <1>1, <1>2, NowIs DEF SoundClient, Client
<1>6. /\ Fields \subseteq DOMAIN c /\ c.out = [out EXCEPT ![o] = info]
      /\ c.owed = left /\ c.picture = picture
  BY DEF Now, Fields
<1> HIDE DEF info, left
<1>7. Sound(info, owed[o] - 1, locked)
  BY <1>1, <1>2, <1>4 DEF Sound
<1>8. Client(c)
  BY <1>1, <1>4, <1>5, <1>6, NowIs DEF SoundClient, Client
<1>9. SoundClient(c, locked)
  <2>1. ASSUME NEW p \in Outputs PROVE Sound(c.out[p], c.owed[p], locked)
    <3> HIDE DEF c
    <3>1. CASE p = o
      BY <1>1, <1>5, <1>6, <1>7, <3>1, NowIs DEF SoundClient, Client
    <3>2. CASE p # o
      BY <1>1, <1>5, <1>6, <3>2, NowIs DEF SoundClient, Client
    <3>3. QED
      BY <3>1, <3>2
  <2>2. QED
    BY <1>8, <2>1 DEF SoundClient
<1> HIDE DEF c
<1>10. /\ Fields \subseteq DOMAIN q /\ q.out = c.out /\ q.owed = c.owed
       /\ q.picture \in Pictures
  BY <1>8 DEF Client, Fields
<1> HIDE DEF q
<1>11. SoundClient(q, locked)
  BY <1>9, <1>10, SameOutputsSound
<1>12. QED
  BY <1>2, <1>3, <1>9, <1>11, DrawSound, BecomesSound

\* The handlers that change neither an output nor what is owed before draw().
LEMMA OtherSound ==
  ASSUME PInv, locked \in BOOLEAN,
         \/ Battery \/ AnimationTick \/ FallDue
         \/ \E p \in Pictures : Change(p)
         \/ \E o \in Outputs : Release(o)
  PROVE  PInv'
<1>1. SoundClient(Now, locked) /\ picture \in Pictures
  BY NowIs DEF PInv, SoundClient, Client
<1>2. ASSUME NEW d, Fields \subseteq DOMAIN d, d.out = out, d.owed = owed,
             d.picture \in Pictures, locked' = locked,
             Becomes(d) \/ \E e \in Draw(d) : Becomes(e)
      PROVE  PInv'
  <2>1. SoundClient(d, locked)
    BY <1>1, <1>2, NowIs, SameOutputsSound
  <2>2. QED
    BY <1>2, <2>1, DrawSound, BecomesSound
<1>3. CASE Battery
  <2> DEFINE d == [Now EXCEPT !.low = ~@]
  <2>1. /\ Fields \subseteq DOMAIN d /\ d.out = out /\ d.owed = owed
        /\ d.picture = picture
    BY DEF Now, Fields
  <2>2. locked' = locked /\ \E e \in Draw(d) : Becomes(e)
    BY <1>3 DEF Battery
  <2> HIDE DEF d
  <2>3. QED
    BY <1>1, <1>2, <2>1, <2>2
<1>4. CASE AnimationTick
  <2>1. locked' = locked /\ \E e \in Draw(Now) : Becomes(e)
    BY <1>4 DEF AnimationTick
  <2>2. QED
    BY <1>1, <1>2, <2>1, NowIs
<1>5. CASE FallDue
  <2> DEFINE d == [Now EXCEPT !.wake = "due"]
  <2>1. /\ Fields \subseteq DOMAIN d /\ d.out = out /\ d.owed = owed
        /\ d.picture = picture
    BY DEF Now, Fields
  <2>2. locked' = locked /\ Becomes(d)
    BY <1>5 DEF FallDue
  <2> HIDE DEF d
  <2>3. QED
    BY <1>1, <1>2, <2>1, <2>2
<1>6. ASSUME NEW p \in Pictures, Change(p) PROVE PInv'
  <2> DEFINE d == [Now EXCEPT !.picture = p]
  <2>1. /\ Fields \subseteq DOMAIN d /\ d.out = out /\ d.owed = owed
        /\ d.picture = p
    BY DEF Now, Fields
  <2>2. locked' = locked /\ \E e \in Draw(d) : Becomes(e)
    BY <1>6 DEF Change
  <2> HIDE DEF d
  <2>3. QED
    BY <1>2, <2>1, <2>2
<1>7. ASSUME NEW o \in Outputs, Release(o) PROVE PInv'
  <2>1. PICK i \in Busy(o) :
          Becomes([Now EXCEPT
            !.pool[o] = With(@, i, [pool[o][i] EXCEPT !.busy = FALSE])])
    BY <1>7 DEF Release
  <2> DEFINE bufs == [pool EXCEPT ![o] =
                        With(@, i, [pool[o][i] EXCEPT !.busy = FALSE])]
             d == [Now EXCEPT !.pool = bufs]
  <2>2. Becomes(d)
    BY <2>1 DEF Now
  <2> HIDE DEF bufs
  <2>3. /\ Fields \subseteq DOMAIN d /\ d.out = out /\ d.owed = owed
        /\ d.picture = picture
    BY DEF Now, Fields
  <2>4. locked' = locked
    BY <1>7 DEF Release
  <2> HIDE DEF d
  <2>5. QED
    BY <1>1, <1>2, <2>2, <2>3, <2>4
<1>8. QED
  BY <1>3, <1>4, <1>5, <1>6, <1>7

-----------------------------------------------------------------------------
(* The theorems.                                                           *)

LEMMA PNext ==
  ASSUME PInv, locked \in BOOLEAN, [Next]_vars
  PROVE  PInv' /\ locked' \in BOOLEAN
<1>1. CASE UNCHANGED vars
  BY <1>1 DEF vars, PInv, SoundClient, Client, Now
<1>2. CASE Next
  <2>1. locked' \in BOOLEAN
    BY <1>2 DEF Next, Locked, Plug, Unplug, Configure, Scale, FrameDone, Release,
                Change, Battery, AnimationTick, FallDue
  <2>2. QED
    BY <1>2, <2>1, LockedSound, PlugSound, UnplugSound, ConfigureSound,
       ScaleSound, FrameDoneSound, OtherSound DEF Next
<1>3. QED
  BY <1>1, <1>2

\* Surfaces, callbacks and frame_pending stay in step on every output, whatever
\* number of outputs there is, and whatever they do.
THEOREM OutputsSound == Spec => [](PInv /\ locked \in BOOLEAN)
<1>1. Init => PInv /\ locked \in BOOLEAN
  BY PInit DEF Init
<1>2. (PInv /\ locked \in BOOLEAN) /\ [Next]_vars
        => (PInv /\ locked \in BOOLEAN)'
  BY PNext
<1>3. QED
  BY <1>1, <1>2, PTL DEF Spec

\* However outputs come and go around the grant of the lock, each of them has a
\* lock surface (wayland.rs:188-192, 637-660).
THEOREM OutputsLocked == Spec => []EveryOutputLocked
<1>1. PInv /\ locked \in BOOLEAN => EveryOutputLocked
  BY NowIs DEF PInv, SoundClient, Sound, EveryOutputLocked
<1>2. QED
  BY <1>1, OutputsSound, PTL

\* No output waits for a frame callback that will not come (wayland.rs:83-88,
\* 943, 958-980).
THEOREM NoneSilenced == Spec => []PendingIsOwed
<1>1. PInv /\ locked \in BOOLEAN => PendingIsOwed
  BY NowIs DEF PInv, SoundClient, Sound, PendingIsOwed
<1>2. QED
  BY <1>1, OutputsSound, PTL

\* While no output is resized, none has two frames under way, at whatever paces
\* their callbacks come (wayland.rs:243-262).
THEOREM EachAtItsPace ==
  ASSUME "resize" \notin World
  PROVE  Spec => []Paced
<1>1. PInv /\ locked \in BOOLEAN => Paced
  BY NowIs DEF PInv, SoundClient, Sound, Paced
<1>2. QED
  BY <1>1, OutputsSound, PTL
-----------------------------------------------------------------------------
(* The buffers of one output.                                              *)

LEMMA MatchingIs ==
  ASSUME NEW bufs \in Seq(Buffer), NEW size
  PROVE  /\ Len(bufs) \in Nat /\ DOMAIN bufs = 1 .. Len(bufs)
         /\ Matching(bufs, size) \subseteq 1 .. Len(bufs)
         /\ IsFiniteSet(Matching(bufs, size))
         /\ Cardinality(Matching(bufs, size)) \in Nat
<1>1. Len(bufs) \in Nat /\ DOMAIN bufs = 1 .. Len(bufs)
  OBVIOUS
<1>2. Matching(bufs, size) \subseteq 1 .. Len(bufs)
  BY <1>1 DEF Matching
<1>3. IsFiniteSet(1 .. Len(bufs))
  BY <1>1, FS_Interval
<1>4. IsFiniteSet(Matching(bufs, size))
  BY <1>2, <1>3, FS_Subset
<1>5. QED
  BY <1>1, <1>2, <1>4, FS_CardinalityType

\* The pool's limit, of one output.
Bounded(bufs) ==
  \A size \in Sizes : Cardinality(Matching(bufs, size)) <= MaxMatching

\* A buffer the compositor still reads may only grow old.
Still(b, b1) ==
  /\ b1.busy /\ b1.size = b.size /\ b1.picture = b.picture
  /\ b1.base = b.base \/ (b.base = "now" /\ b1.base = "old")

Holds(bufs, bufs1) ==
  \A i \in DOMAIN bufs :
    bufs[i].busy => \E j \in DOMAIN bufs1 : Still(bufs[i], bufs1[j])

\* What everything does to the buffers that neither releases one nor ends the
\* output.
PoolStep(bufs, bufs1) ==
  /\ bufs1 \in Seq(Buffer)
  /\ Bounded(bufs) => Bounded(bufs1)
  /\ Holds(bufs, bufs1)

LEMMA NoBuffers == <<>> \in Seq(Buffer) /\ Bounded(<<>>)
<1> DEFINE e == <<>>
<1>1. e \in Seq(Buffer) /\ \A s : Matching(e, s) = {}
  BY DEF Matching
<1> HIDE DEF e
<1>2. Cardinality({}) = 0 /\ MaxMatching \in Nat
  BY FS_EmptySet, PresentAssumption
<1>3. Bounded(e)
  <2> SUFFICES ASSUME NEW s \in Sizes
               PROVE  Cardinality(Matching(e, s)) <= MaxMatching
    BY DEF Bounded
  <2>1. Cardinality(Matching(e, s)) = 0
    BY <1>1, <1>2
  <2>2. QED
    BY <1>2, <2>1
<1>4. QED
  BY <1>1, <1>3 DEF e

LEMMA PoolStays == ASSUME NEW bufs \in Seq(Buffer) PROVE PoolStep(bufs, bufs)
BY DEF PoolStep, Holds, Still

LEMMA PoolSteps ==
  ASSUME NEW bufs, NEW bufs1, NEW bufs2, Holds(bufs, bufs1), PoolStep(bufs1, bufs2)
  PROVE  Holds(bufs, bufs2)
<1> SUFFICES ASSUME NEW i \in DOMAIN bufs, bufs[i].busy
             PROVE  \E k \in DOMAIN bufs2 : Still(bufs[i], bufs2[k])
  BY DEF Holds
<1>1. PICK j \in DOMAIN bufs1 : Still(bufs[i], bufs1[j])
  BY DEF Holds
<1>2. PICK k \in DOMAIN bufs2 : Still(bufs1[j], bufs2[k])
  BY <1>1 DEF PoolStep, Holds, Still
<1>3. Still(bufs[i], bufs2[k])
  BY <1>1, <1>2 DEF Still
<1>4. QED
  BY <1>3

LEMMA PoolsStep ==
  ASSUME NEW bufs, NEW bufs1, NEW bufs2, PoolStep(bufs, bufs1), PoolStep(bufs1, bufs2)
  PROVE  PoolStep(bufs, bufs2)
BY PoolSteps DEF PoolStep

\* Other buffers of the same sizes are as many of each size.
LEMMA SameSizes ==
  ASSUME NEW bufs \in Seq(Buffer), NEW bufs1 \in Seq(Buffer),
         DOMAIN bufs1 = DOMAIN bufs,
         \A i \in DOMAIN bufs : bufs1[i].size = bufs[i].size
  PROVE  \A size : Matching(bufs1, size) = Matching(bufs, size)
BY DEF Matching

LEMMA OldBuffersStep ==
  ASSUME NEW bufs \in Seq(Buffer), NEW S
  PROVE  PoolStep(bufs, OldBuffers(bufs, S))
<1> DEFINE old == OldBuffers(bufs, S)
<1>1. Len(bufs) \in Nat /\ DOMAIN bufs = 1 .. Len(bufs)
      /\ \A i \in 1 .. Len(bufs) : bufs[i] \in Buffer
  OBVIOUS
<1>2. ASSUME NEW b \in Buffer
      PROVE  LET b1 == [b EXCEPT !.base = Old(@)]
             IN  b1 \in Buffer /\ b1.size = b.size /\ (b.busy => Still(b, b1))
  BY DEF Buffer, Base, Old, Still
<1>3. ASSUME NEW i \in 1 .. Len(bufs)
      PROVE  old[i] \in Buffer /\ old[i].size = bufs[i].size
             /\ (bufs[i].busy => Still(bufs[i], old[i]))
  <2>1. old[i] = IF bufs[i].size \in S THEN [bufs[i] EXCEPT !.base = Old(@)]
                 ELSE bufs[i]
    BY <1>1 DEF OldBuffers
  <2>2. bufs[i].busy => Still(bufs[i], bufs[i])
    BY DEF Still
  <2>3. QED
    BY <1>1, <1>2, <2>1, <2>2
<1>4. DOMAIN old = 1 .. Len(bufs)
  BY <1>1 DEF OldBuffers
<1>5. old = [i \in 1 .. Len(bufs) |-> old[i]]
  BY <1>1 DEF OldBuffers
<1> HIDE DEF old
<1>6. old \in [1 .. Len(bufs) -> Buffer]
  BY <1>3, <1>5
<1>7. old \in Seq(Buffer)
  BY <1>1, <1>6
<1>8. Bounded(bufs) => Bounded(old)
  BY <1>1, <1>3, <1>4, <1>7, SameSizes DEF Bounded
<1>9. Holds(bufs, old)
  BY <1>1, <1>3, <1>4 DEF Holds
<1>10. QED
  BY <1>7, <1>8, <1>9 DEF PoolStep, old

\* A buffer that is free may be drawn into.
LEMMA WithStep ==
  ASSUME NEW bufs \in Seq(Buffer), NEW i \in 1 .. Len(bufs), ~bufs[i].busy,
         NEW b \in Buffer, b.size = bufs[i].size
  PROVE  PoolStep(bufs, With(bufs, i, b))
<1> DEFINE new == With(bufs, i, b)
<1>1. Len(bufs) \in Nat /\ DOMAIN bufs = 1 .. Len(bufs)
      /\ \A j \in 1 .. Len(bufs) : bufs[j] \in Buffer
  OBVIOUS
<1>2. new = [j \in 1 .. Len(bufs) |-> IF j = i THEN b ELSE bufs[j]]
  BY <1>1 DEF With
<1> HIDE DEF new
<1>3. new \in [1 .. Len(bufs) -> Buffer]
  BY <1>1, <1>2
<1>4. new \in Seq(Buffer) /\ DOMAIN new = DOMAIN bufs
  BY <1>1, <1>3
<1>5. \A j \in DOMAIN bufs : new[j].size = bufs[j].size
  BY <1>1, <1>2
<1>6. Bounded(bufs) => Bounded(new)
  BY <1>4, <1>5, SameSizes DEF Bounded
<1>7. Holds(bufs, new)
  BY <1>1, <1>2, <1>4 DEF Holds, Still
<1>8. QED
  BY <1>4, <1>6, <1>7 DEF PoolStep, new

\* The places of the buffers of B.
Among(bufs, B) == {i \in DOMAIN bufs : bufs[i] \in B}

LEMMA MatchingAmong ==
  ASSUME NEW bufs \in Seq(Buffer), NEW size
  PROVE  Matching(bufs, size) = Among(bufs, {b \in Buffer : b.size = size})
BY DEF Matching, Among

LEMMA AmongIs ==
  ASSUME NEW bufs \in Seq(Buffer), NEW B
  PROVE  IsFiniteSet(Among(bufs, B)) /\ Cardinality(Among(bufs, B)) \in Nat
<1>1. Among(bufs, B) \subseteq 1 .. Len(bufs) /\ Len(bufs) \in Nat
  BY DEF Among
<1>2. IsFiniteSet(1 .. Len(bufs))
  BY <1>1, FS_Interval
<1>3. QED
  BY <1>1, <1>2, FS_Subset, FS_CardinalityType

\* Making room drops no buffer that is busy and brings none.
LEMMA KeptStep ==
  ASSUME NEW bufs \in Seq(Buffer), NEW size
  PROVE  LET kept == Retained(bufs, {i \in DOMAIN bufs :
                                       bufs[i].busy \/ bufs[i].size = size})
         IN  /\ PoolStep(bufs, kept)
             /\ \A j \in 1 .. Len(kept) : \E i \in DOMAIN bufs : kept[j] = bufs[i]
             /\ \A B : Cardinality(Among(kept, B)) <= Cardinality(Among(bufs, B))
<1> DEFINE keep   == {i \in DOMAIN bufs : bufs[i].busy \/ bufs[i].size = size}
           kept   == Retained(bufs, keep)
           places == keep \cap (1 .. Len(bufs))
<1>1. kept \in Seq(Buffer) /\ \E h : Origins(kept, bufs, places, h)
  BY RetainedFacts
<1>2. /\ Len(bufs) \in Nat /\ DOMAIN bufs = 1 .. Len(bufs) /\ places \subseteq 1 .. Len(bufs)
      /\ \A i \in DOMAIN bufs : bufs[i].busy => i \in places
  OBVIOUS
<1> HIDE DEF kept, places, keep
<1>3. PICK h : Origins(kept, bufs, places, h)
  BY <1>1
<1>4. /\ Len(kept) \in Nat /\ DOMAIN kept = 1 .. Len(kept)
      /\ h \in [1 .. Len(kept) -> places]
      /\ \A j \in 1 .. Len(kept) : kept[j] = bufs[h[j]]
      /\ \A j, k \in 1 .. Len(kept) : j < k => h[j] < h[k]
      /\ \A i \in places : \E j \in 1 .. Len(kept) : h[j] = i
  BY <1>1, <1>3 DEF Origins
<1>5. \A j \in 1 .. Len(kept) : h[j] \in DOMAIN bufs /\ kept[j] = bufs[h[j]]
  BY <1>2, <1>4
<1>6. ASSUME NEW B
      PROVE  Cardinality(Among(kept, B)) <= Cardinality(Among(bufs, B))
  <2> DEFINE S == Among(kept, B)
             T == Among(bufs, B)
             f == [j \in S |-> h[j]]
  <2>1. S \subseteq 1 .. Len(kept) /\ \A j \in S : kept[j] \in B
    BY <1>4 DEF Among
  <2>2. \A j \in S : h[j] \in T
    BY <1>5, <2>1 DEF Among
  <2>3. IsFiniteSet(T)
    BY AmongIs
  <2> HIDE DEF S, T
  <2>4. f \in [S -> T]
    BY <2>2
  <2>5. ASSUME NEW j \in S, NEW k \in S, f[j] = f[k] PROVE j = k
    <3>1. j \in 1 .. Len(kept) /\ k \in 1 .. Len(kept) /\ h[j] = h[k]
      BY <2>1, <2>5
    <3>2. h[j] \in Nat /\ h[k] \in Nat
      BY <1>2, <1>5, <3>1
    <3>3. ~(j < k) /\ ~(k < j)
      BY <1>4, <3>1, <3>2
    <3>4. QED
      BY <3>1, <3>3
  <2>6. f \in Injection(S, T)
    BY <2>4, <2>5 DEF Injection, IsInjective
  <2>7. QED
    BY <2>3, <2>6, FS_Injection DEF S, T
<1>7. Bounded(bufs) => Bounded(kept)
  <2> SUFFICES ASSUME Bounded(bufs), NEW s \in Sizes
               PROVE  Cardinality(Matching(kept, s)) <= MaxMatching
    BY DEF Bounded
  <2>1. /\ Cardinality(Matching(kept, s)) \in Nat
        /\ Cardinality(Matching(bufs, s)) \in Nat
    BY <1>1, MatchingIs
  <2>2. Cardinality(Matching(bufs, s)) <= MaxMatching /\ MaxMatching \in Nat
    BY PresentAssumption DEF Bounded
  <2>3. /\ Matching(kept, s) = Among(kept, {b \in Buffer : b.size = s})
        /\ Matching(bufs, s) = Among(bufs, {b \in Buffer : b.size = s})
    BY <1>1, MatchingAmong
  <2>4. QED
    BY <1>6, <2>1, <2>2, <2>3
<1>8. Holds(bufs, kept)
  <2> SUFFICES ASSUME NEW i \in DOMAIN bufs, bufs[i].busy
               PROVE  \E j \in DOMAIN kept : Still(bufs[i], kept[j])
    BY DEF Holds
  <2>1. PICK j \in 1 .. Len(kept) : h[j] = i
    BY <1>2, <1>4
  <2>2. kept[j] = bufs[i] /\ j \in DOMAIN kept
    BY <1>4, <2>1
  <2>3. QED
    BY <2>2 DEF Still
<1>9. \A j \in 1 .. Len(kept) : \E i \in DOMAIN bufs : kept[j] = bufs[i]
  BY <1>5
<1>10. PoolStep(bufs, kept)
  BY <1>1, <1>7, <1>8 DEF PoolStep
<1>11. QED
  BY <1>6, <1>9, <1>10 DEF kept, keep

LEMMA BlankIs ==
  ASSUME NEW size \in Sizes
  PROVE  Blank(size) \in Buffer /\ Blank(size).size = size /\ ~Blank(size).busy
BY PresentAssumption DEF Blank, Buffer, Base

\* One more buffer, where there is room for it.
LEMMA AppendStep ==
  ASSUME NEW bufs \in Seq(Buffer), NEW size \in Sizes, ~Full(bufs, size)
  PROVE  PoolStep(bufs, Append(bufs, Blank(size)))
<1> DEFINE b    == Blank(size)
           more == Append(bufs, b)
           n    == Len(bufs)
<1>1. b \in Buffer /\ b.size = size
  BY BlankIs
<1> HIDE DEF b
<1>2. /\ n \in Nat /\ DOMAIN bufs = 1 .. n /\ more \in Seq(Buffer)
      /\ DOMAIN more = 1 .. n + 1 /\ more[n + 1] = b
      /\ \A i \in 1 .. n : more[i] = bufs[i]
  BY <1>1
<1> HIDE DEF more, n
<1>3. ASSUME NEW s \in Sizes, Cardinality(Matching(bufs, s)) <= MaxMatching
      PROVE  Cardinality(Matching(more, s)) <= MaxMatching
  <2>1. Cardinality(Matching(bufs, s)) \in Nat /\ IsFiniteSet(Matching(bufs, s))
        /\ Matching(bufs, s) \subseteq 1 .. n
    BY MatchingIs DEF n
  <2>2. CASE s = size
    <3>1. Matching(more, s) = Matching(bufs, s) \cup {n + 1}
      BY <1>1, <1>2, <2>2 DEF Matching
    <3>2. n + 1 \notin Matching(bufs, s)
      BY <1>2, <2>1
    <3>3. Cardinality(Matching(more, s)) = Cardinality(Matching(bufs, s)) + 1
      BY <2>1, <3>1, <3>2, FS_AddElement
    <3>4. ~(Cardinality(Matching(bufs, s)) >= MaxMatching) /\ MaxMatching \in Nat
      BY <2>2, PresentAssumption DEF Full
    <3>5. QED
      BY <2>1, <3>3, <3>4
  <2>3. CASE s # size
    <3>1. Matching(more, s) = Matching(bufs, s)
      BY <1>1, <1>2, <2>3 DEF Matching
    <3>2. QED
      BY <1>3, <3>1
  <2>4. QED
    BY <2>2, <2>3
<1>4. Bounded(bufs) => Bounded(more)
  BY <1>3 DEF Bounded
<1>5. Holds(bufs, more)
  BY <1>2 DEF Holds, Still
<1>6. QED
  BY <1>2, <1>4, <1>5 DEF PoolStep, more, b

\* What get_buffer() hands out: the pool is stepped as above, the buffer is free
\* and of the size asked for, and no other is new.
LEMMA GetBufferFacts ==
  ASSUME NEW bufs \in Seq(Buffer), NEW size \in Sizes, NEW fails
  PROVE  LET got == GetBuffer(bufs, size, fails)
         IN  /\ PoolStep(bufs, got.bufs)
             /\ got.at \in 0 .. Len(got.bufs)
             /\ got.at # 0 => /\ ~got.bufs[got.at].busy
                              /\ got.bufs[got.at].size = size
             /\ \A j \in 1 .. Len(got.bufs) :
                  \/ got.bufs[j] = Blank(size)
                  \/ \E i \in DOMAIN bufs : got.bufs[j] = bufs[i]
             /\ \A B \in SUBSET Buffer : Blank(size) \notin B =>
                  Cardinality(Among(got.bufs, B)) <= Cardinality(Among(bufs, B))
<1> DEFINE free == Free(bufs, size)
           kept == Retained(bufs, {i \in DOMAIN bufs :
                                     bufs[i].busy \/ bufs[i].size = size})
           got  == GetBuffer(bufs, size, fails)
           first == CHOOSE i \in free : \A j \in free : i <= j
           more == Append(kept, Blank(size))
<1>1. /\ PoolStep(bufs, kept) /\ kept \in Seq(Buffer)
      /\ \A j \in 1 .. Len(kept) : \E i \in DOMAIN bufs : kept[j] = bufs[i]
      /\ \A B : Cardinality(Among(kept, B)) <= Cardinality(Among(bufs, B))
  <2>1. /\ PoolStep(bufs, kept)
        /\ \A j \in 1 .. Len(kept) : \E i \in DOMAIN bufs : kept[j] = bufs[i]
        /\ \A B : Cardinality(Among(kept, B)) <= Cardinality(Among(bufs, B))
    BY KeptStep
  <2>2. QED
    BY <2>1 DEF PoolStep
<1>2. /\ Len(bufs) \in Nat /\ DOMAIN bufs = 1 .. Len(bufs)
      /\ free \subseteq 1 .. Len(bufs)
      /\ \A i \in free : bufs[i].size = size /\ ~bufs[i].busy
  BY MatchingIs DEF Free, Matching
<1>3. ASSUME NEW B PROVE Cardinality(Among(bufs, B)) \in Nat
  BY AmongIs
<1>4. CASE free # {}
  <2>1. got.bufs = bufs /\ got.at = first
    BY <1>4 DEF GetBuffer
  <2>2. first \in free
    <3>1. \E i \in free : \A j \in free : i <= j
      BY <1>2, <1>4, LeastNat
    <3>2. QED
      BY <3>1
  <2> HIDE DEF got, first, free
  <2>3. PoolStep(bufs, bufs)
    BY PoolStays
  <2>4. first \in 1 .. Len(bufs) /\ bufs[first].size = size /\ ~bufs[first].busy
    BY <1>2, <2>2
  <2>5. \A B : Cardinality(Among(bufs, B)) <= Cardinality(Among(bufs, B))
    BY <1>3
  <2>6. QED
    BY <1>2, <2>1, <2>3, <2>4, <2>5 DEF got
<1>5. CASE free = {} /\ (Full(kept, size) \/ fails)
  <2>1. got.bufs = kept /\ got.at = 0
    BY <1>5 DEF GetBuffer
  <2> HIDE DEF got, kept
  <2>2. QED
    BY <1>1, <2>1 DEF got
<1>6. CASE free = {} /\ ~Full(kept, size) /\ ~fails
  <2>1. got.bufs = more /\ got.at = Len(kept) + 1
    BY <1>6 DEF GetBuffer
  <2> HIDE DEF got, kept, free
  <2>2. /\ Blank(size) \in Buffer /\ Blank(size).size = size /\ ~Blank(size).busy
    BY BlankIs
  <2>3. PoolStep(kept, more)
    BY <1>1, <1>6, AppendStep
  <2>4. PoolStep(bufs, more)
    BY <1>1, <2>3, PoolSteps DEF PoolStep
  <2>5. /\ Len(kept) \in Nat /\ Len(more) = Len(kept) + 1
        /\ more[Len(kept) + 1] = Blank(size)
        /\ \A j \in 1 .. Len(kept) : more[j] = kept[j]
        /\ DOMAIN more = 1 .. Len(kept) + 1 /\ DOMAIN kept = 1 .. Len(kept)
    BY <1>1, <2>2
  <2> HIDE DEF more
  <2>6. \A j \in 1 .. Len(more) : j \in 1 .. Len(kept) \/ j = Len(kept) + 1
    BY <2>5
  <2>7. \A j \in 1 .. Len(more) :
          more[j] = Blank(size) \/ \E i \in DOMAIN bufs : more[j] = bufs[i]
    BY <1>1, <2>5, <2>6
  <2>8. ASSUME NEW B, Blank(size) \notin B
        PROVE  Among(more, B) = Among(kept, B)
    BY <2>5, <2>8 DEF Among
  <2>9. QED
    BY <1>1, <2>1, <2>2, <2>4, <2>5, <2>7, <2>8 DEF got
<1>7. QED
  BY <1>4, <1>5, <1>6

-----------------------------------------------------------------------------
(* What a draw() does to the frame of one output.                          *)

GotOf(c, fate, o) == GetBuffer(c.pool[o], c.out[o].size, fate[o] = "unmade")

Ruined(got) == With(got.bufs, got.at, Spoilt(got.bufs[got.at]))

FrameOf(c, fate, o, f) ==
  \/ ~Ready(c.out[o]) /\ f = Skip(c, o, c.pool[o])
  \/ /\ Ready(c.out[o])
     /\ \/ GotOf(c, fate, o).at = 0 /\ f = Skip(c, o, GotOf(c, fate, o).bufs)
        \/ /\ GotOf(c, fate, o).at # 0 /\ fate[o] = "unrendered"
           /\ f = Skip(c, o, Ruined(GotOf(c, fate, o)))
        \/ /\ GotOf(c, fate, o).at # 0 /\ fate[o] # "unrendered"
           /\ f = Paint(c, o, GotOf(c, fate, o), Shown(c))

FramesOf(c, fate, after, taken, d) ==
  /\ taken \subseteq ReadyOutputs(c)
  /\ d = Redrawn(WithPlaylists(c, taken), [o \in Outputs |-> after[o].out],
                 [o \in Outputs |-> after[o].pool],
                 [o \in Outputs |-> after[o].screen],
                 [o \in Outputs |-> after[o].owed])
  /\ \A o \in Outputs : FrameOf(c, fate, o, after[o])

LEMMA DrawnFrames ==
  ASSUME NEW c, NEW fate
  PROVE  \E after, taken : FramesOf(c, fate, after, taken, Drawn(c, fate))
<1> DEFINE ready == ReadyOutputs(c)
           got   == [o \in ready |-> GetBuffer(c.pool[o], c.out[o].size,
                                              fate[o] = "unmade")]
           taken == {o \in ready : got[o].at # 0}
           drawn == {o \in taken : fate[o] # "unrendered"}
           after == [o \in Outputs |->
                       CASE o \in drawn -> Paint(c, o, got[o], Shown(c))
                         [] o \in taken \ drawn ->
                              Skip(c, o, With(got[o].bufs, got[o].at,
                                              Spoilt(got[o].bufs[got[o].at])))
                         [] o \in ready \ taken -> Skip(c, o, got[o].bufs)
                         [] OTHER -> Skip(c, o, c.pool[o])]
<1>1. Drawn(c, fate)
        = Redrawn(WithPlaylists(c, taken), [o \in Outputs |-> after[o].out],
                  [o \in Outputs |-> after[o].pool],
                  [o \in Outputs |-> after[o].screen],
                  [o \in Outputs |-> after[o].owed])
  BY DEF Drawn, Redrawn
<1>2. taken \subseteq ReadyOutputs(c)
  OBVIOUS
<1>3. ASSUME NEW o \in Outputs PROVE FrameOf(c, fate, o, after[o])
  <2> DEFINE g == GotOf(c, fate, o)
             r == Ready(c.out[o])
             u == fate[o] = "unrendered"
             paint == Paint(c, o, g, Shown(c))
             ruin == Skip(c, o, Ruined(g))
             leave == Skip(c, o, g.bufs)
             stay == Skip(c, o, c.pool[o])
  <2>1. o \in ready <=> r
    BY DEF ReadyOutputs
  <2>2. o \in ready => got[o] = g
    BY DEF GotOf
  <2>3. (o \in taken <=> r /\ g.at # 0) /\ (o \in drawn <=> r /\ g.at # 0 /\ ~u)
    <3> HIDE DEF g, r
    <3>1. QED
      BY <2>1, <2>2
  <2>4. after[o] = CASE o \in drawn -> Paint(c, o, got[o], Shown(c))
                     [] o \in taken \ drawn -> Skip(c, o, Ruined(got[o]))
                     [] o \in ready \ taken -> Skip(c, o, got[o].bufs)
                     [] OTHER -> stay
    BY Zenon DEF Ruined
  <2> HIDE DEF after, ready
  <2>5. after[o] = IF r /\ g.at # 0 /\ ~u THEN paint
                   ELSE IF r /\ g.at # 0 THEN ruin
                   ELSE IF r THEN leave ELSE stay
    <3> HIDE DEF stay, r, u, g, drawn, taken, got
    <3>1. QED
      BY <2>1, <2>2, <2>3, <2>4
  <2> DEFINE f == after[o]
  <2>6. f = after[o]
    OBVIOUS
  <2>7. \/ ~r /\ f = stay
        \/ r /\ \/ g.at = 0 /\ f = leave
                \/ g.at # 0 /\ u /\ f = ruin
                \/ g.at # 0 /\ ~u /\ f = paint
    <3> HIDE DEF stay, r, u, g, paint, ruin, leave
    <3>1. QED
      BY <2>5
  <2>8. QED
    BY <2>7 DEF FrameOf
<1> HIDE DEF after, taken
<1>4. FramesOf(c, fate, after, taken, Drawn(c, fate))
  BY <1>1, <1>2, <1>3 DEF FramesOf
<1>5. QED
  BY <1>4

-----------------------------------------------------------------------------
(* Types, the pool's limit, and the buffers that are busy: what holds of a *)
(* client's state while a handler works on it, `was' being the pools it    *)
(* found.                                                                  *)

Screen == [size : Sizes \cup {None}, pixels : [Regions -> Base \cup Looks]]

\* One output's buffers and screen.
StockedOn(info, bufs, shows, was) ==
  /\ info \in OutputInfo
  /\ info.configured => info.size # None
  /\ bufs \in Seq(Buffer) /\ Bounded(bufs)
  /\ shows \in Screen
  /\ info.state = "gone" \/ Holds(was, bufs)

\* All outputs', as functions.
StockedAll(outs, pools, screens, was) ==
  /\ DOMAIN outs = Outputs /\ DOMAIN pools = Outputs /\ DOMAIN screens = Outputs
  /\ \A o \in Outputs : StockedOn(outs[o], pools[o], screens[o], was[o])

Settled(c) ==
  /\ c.queued \in BOOLEAN /\ c.low \in BOOLEAN
  /\ c.wake \in {"none", "later", "due"}
  /\ c.playing \subseteq Sizes

StockedClient(c, was) ==
  /\ Client(c) /\ Settled(c)
  /\ c.out = [o \in Outputs |-> c.out[o]]
  /\ c.pool = [o \in Outputs |-> c.pool[o]]
  /\ c.screen = [o \in Outputs |-> c.screen[o]]
  /\ StockedAll(c.out, c.pool, c.screen, was)

\* The fields of the records that the handlers' effects are.
LEMMA AgedFields ==
  ASSUME NEW c, Client(c), NEW S
  PROVE  /\ Client(Aged(c, S))
         /\ Aged(c, S).out = c.out /\ Aged(c, S).owed = c.owed
         /\ Aged(c, S).pool = [o \in Outputs |-> OldBuffers(c.pool[o], S)]
         /\ Aged(c, S).screen = [o \in Outputs |-> OldScreen(c.screen[o], S)]
         /\ Aged(c, S).queued = c.queued /\ Aged(c, S).low = c.low
         /\ Aged(c, S).wake = c.wake /\ Aged(c, S).playing = c.playing
         /\ Aged(c, S).picture = c.picture
BY AgedClient DEF Aged, Client, Fields

LEMMA RedrawnFields ==
  ASSUME NEW c, Client(c), NEW taken, NEW outs \in [Outputs -> OutputInfo],
         NEW pools, NEW screens, NEW owes \in [Outputs -> Nat]
  PROVE  LET d == Redrawn(WithPlaylists(c, taken), outs, pools, screens, owes)
         IN  /\ Client(d) /\ d.out = outs /\ d.pool = pools
             /\ d.screen = screens /\ d.owed = owes
             /\ d.queued = c.queued /\ d.low = c.low /\ d.picture = c.picture
             /\ d.wake \in {"later", "none"}
             /\ d.playing = c.playing \cup (IF Shown(c) = "now"
                                            THEN {c.out[o].size : o \in taken}
                                            ELSE {})
<1> DEFINE sizes == c.playing \cup (IF Shown(c) = "now"
                                    THEN {c.out[o].size : o \in taken} ELSE {})
           w == WithPlaylists(c, taken)
           d == Redrawn(w, outs, pools, screens, owes)
<1>1. /\ Client(w) /\ w.queued = c.queued /\ w.low = c.low
      /\ w.picture = c.picture /\ w.playing = sizes /\ w.wake \in {"later", "none"}
  <2> HIDE DEF sizes
  <2>1. w = [c EXCEPT !.playing = sizes,
                      !.wake = IF ~c.low /\ sizes # {} THEN "later" ELSE "none"]
    BY DEF WithPlaylists, sizes
  <2> HIDE DEF w
  <2>2. QED
    BY <2>1 DEF Client, Fields
<1> HIDE DEF w, sizes
<1>2. /\ Client(d) /\ d.out = outs /\ d.pool = pools
      /\ d.screen = screens /\ d.owed = owes
      /\ d.queued = w.queued /\ d.low = w.low /\ d.picture = w.picture
      /\ d.wake = w.wake /\ d.playing = w.playing
  BY <1>1 DEF Redrawn, Client, Fields
<1>3. QED
  BY <1>1, <1>2 DEF sizes, w

LEMMA OldScreenType ==
  ASSUME NEW s \in Screen, NEW S
  PROVE  OldScreen(s, S) \in Screen
<1> DEFINE px == [r \in Regions |-> Old(s.pixels[r])]
<1>1. s.size \in Sizes \cup {None} /\ s.pixels \in [Regions -> Base \cup Looks]
  BY DEF Screen
<1>2. px \in [Regions -> Base \cup Looks]
  BY <1>1 DEF Old, Base
<1>3. OldScreen(s, S) = IF s.size \in S THEN [s EXCEPT !.pixels = px] ELSE s
  BY DEF OldScreen
<1> HIDE DEF px
<1>4. [s EXCEPT !.pixels = px] \in Screen
  BY <1>1, <1>2 DEF Screen
<1>5. QED
  BY <1>3, <1>4

LEMMA AgedStocked ==
  ASSUME NEW c, NEW was, StockedClient(c, was), NEW S
  PROVE  StockedClient(Aged(c, S), was)
<1> DEFINE a == Aged(c, S)
<1>1. /\ Client(a) /\ a.out = c.out
      /\ a.pool = [o \in Outputs |-> OldBuffers(c.pool[o], S)]
      /\ a.screen = [o \in Outputs |-> OldScreen(c.screen[o], S)]
      /\ a.queued = c.queued /\ a.low = c.low
      /\ a.wake = c.wake /\ a.playing = c.playing
  BY AgedFields DEF StockedClient
<1> HIDE DEF a
<1>2. Settled(a)
  BY <1>1 DEF Settled, StockedClient
<1>3. ASSUME NEW o \in Outputs
      PROVE  StockedOn(a.out[o], a.pool[o], a.screen[o], was[o])
  <2>1. StockedOn(c.out[o], c.pool[o], c.screen[o], was[o])
    BY DEF StockedClient, StockedAll
  <2>2. a.pool[o] = OldBuffers(c.pool[o], S) /\ a.out[o] = c.out[o]
        /\ a.screen[o] = OldScreen(c.screen[o], S)
    BY <1>1
  <2>3. PoolStep(c.pool[o], a.pool[o])
    BY <2>1, <2>2, OldBuffersStep DEF StockedOn
  <2>4. a.screen[o] \in Screen
    BY <2>1, <2>2, OldScreenType DEF StockedOn
  <2>5. Holds(was[o], c.pool[o]) => Holds(was[o], a.pool[o])
    BY <2>3, PoolSteps
  <2>6. QED
    BY <2>1, <2>2, <2>3, <2>4, <2>5 DEF StockedOn, PoolStep
<1>4. /\ a.out = [o \in Outputs |-> a.out[o]]
      /\ a.pool = [o \in Outputs |-> a.pool[o]]
      /\ a.screen = [o \in Outputs |-> a.screen[o]]
  BY <1>1 DEF StockedClient
<1>5. StockedAll(a.out, a.pool, a.screen, was)
  BY <1>3, <1>4 DEF StockedAll
<1>6. Client(a)
  BY <1>1
<1>7. StockedClient(a, was)
  BY <1>2, <1>4, <1>5, <1>6, Zenon DEF StockedClient
<1>8. QED
  BY <1>7 DEF a

LEMMA PrunedStocked ==
  ASSUME NEW c, NEW was, StockedClient(c, was)
  PROVE  StockedClient(Pruned(c), was) /\ Pruned(c).owed = c.owed
<1> DEFINE dropped == {s \in c.playing :
              \A o \in Outputs : c.out[o].configured => c.out[o].size # s}
           a == Aged(c, dropped)
           d == [a EXCEPT !.playing = @ \ dropped]
<1>1. Pruned(c) = d
  BY DEF Pruned
<1>2. StockedClient(a, was) /\ a.owed = c.owed
  BY AgedStocked, AgedClient DEF StockedClient
<1> HIDE DEF a, dropped
<1>3. Client(d) /\ Settled(d)
  BY <1>2 DEF StockedClient, Client, Fields, Settled
<1>4. d.out = a.out /\ d.pool = a.pool /\ d.screen = a.screen /\ d.owed = a.owed
  BY <1>2 DEF StockedClient, Client, Fields
<1> HIDE DEF d
<1>5. StockedClient(d, was)
  BY <1>2, <1>3, <1>4 DEF StockedClient
<1>6. QED
  BY <1>1, <1>2, <1>4, <1>5

\* What is drawn has a look of the model's.
LEMMA PixelsType ==
  ASSUME NEW base \in Base, NEW p \in Pictures
  PROVE  Pixels(base, p) \in [Regions -> Base \cup Looks]
BY DEF Pixels, Looks

LEMMA ShownIs == ASSUME NEW c PROVE Shown(c) \in Base
BY DEF Shown, Base

LEMMA PaintStocked ==
  ASSUME NEW c, Client(c), NEW o \in Outputs, NEW got, NEW base \in Base,
         c.screen[o] \in Screen, got.bufs \in Seq(Buffer),
         got.at \in 1 .. Len(got.bufs), ~got.bufs[got.at].busy
  PROVE  /\ PoolStep(got.bufs, Paint(c, o, got, base).pool)
         /\ Paint(c, o, got, base).screen \in Screen
<1> DEFINE info == c.out[o]
           b    == got.bufs[got.at]
           sent == Submitted(Damage(b, base, c.picture), b.base = base,
                             info.indicator)
           held == [b EXCEPT !.base = base, !.picture = c.picture]
           new  == Pixels(base, c.picture)
           busy == [held EXCEPT !.busy = TRUE]
           px   == [r \in Regions |->
                      IF r \in sent \/ c.screen[o].size # info.size
                      THEN new[r] ELSE c.screen[o].pixels[r]]
           f    == Paint(c, o, got, base)
<1>1. /\ b \in Buffer /\ c.picture \in Pictures
      /\ c.out[o].size \in Sizes \cup {None}
      /\ c.screen[o].pixels \in [Regions -> Base \cup Looks]
  BY DEF Client, OutputInfo, Screen
<1>2. new \in [Regions -> Base \cup Looks]
  BY <1>1, PixelsType
<1>3. /\ held \in Buffer /\ held.size = b.size
      /\ busy \in Buffer /\ busy.size = b.size
  <2> HIDE DEF b
  <2>1. QED
    BY <1>1 DEF Buffer
<1>4. px \in [Regions -> Base \cup Looks]
  <2> HIDE DEF new, sent
  <2>1. QED
    BY <1>1, <1>2
<1>5. \/ f.pool = With(got.bufs, got.at, held) /\ f.screen = c.screen[o]
      \/ /\ f.pool = With(got.bufs, got.at, busy)
         /\ f.screen = [size |-> info.size, pixels |-> px]
  BY DEF Paint
<1> HIDE DEF f, px, held, busy
<1>6. [size |-> info.size, pixels |-> px] \in Screen
  BY <1>1, <1>4 DEF Screen
<1>7. /\ PoolStep(got.bufs, With(got.bufs, got.at, held))
      /\ PoolStep(got.bufs, With(got.bufs, got.at, busy))
  BY <1>3, WithStep
<1>8. QED
  BY <1>5, <1>6, <1>7 DEF f

\* After one draw(), an output is as it may be.
LEMMA FrameStocked ==
  ASSUME NEW c, NEW was, StockedClient(c, was), NEW fate, NEW o \in Outputs,
         NEW f, FrameOf(c, fate, o, f)
  PROVE  /\ StockedOn(f.out, f.pool, f.screen, was[o])
         /\ DrawnOn(c.out[o], c.owed[o], f.out, f.owed)
<1> DEFINE got == GotOf(c, fate, o)
           ruin == Spoilt(got.bufs[got.at])
           base == Shown(c)
<1>1. /\ Client(c) /\ StockedOn(c.out[o], c.pool[o], c.screen[o], was[o])
      /\ c.picture.area \in SUBSET Regions
  BY PresentAssumption DEF StockedClient, StockedAll, Client
<1>2. ASSUME NEW bufs, PoolStep(c.pool[o], bufs), f = Skip(c, o, bufs)
      PROVE  /\ StockedOn(f.out, f.pool, f.screen, was[o])
             /\ DrawnOn(c.out[o], c.owed[o], f.out, f.owed)
  <2>1. /\ f.out = c.out[o] /\ f.pool = bufs /\ f.screen = c.screen[o]
        /\ f.owed = c.owed[o]
    BY <1>2 DEF Skip
  <2>2. Holds(was[o], c.pool[o]) => Holds(was[o], bufs)
    BY <1>2, PoolSteps
  <2>3. QED
    BY <1>1, <1>2, <2>1, <2>2 DEF StockedOn, PoolStep, DrawnOn
<1>3. ASSUME ~Ready(c.out[o]), f = Skip(c, o, c.pool[o])
      PROVE  /\ StockedOn(f.out, f.pool, f.screen, was[o])
             /\ DrawnOn(c.out[o], c.owed[o], f.out, f.owed)
  BY <1>1, <1>2, <1>3, PoolStays DEF StockedOn
<1>4. ASSUME Ready(c.out[o])
      PROVE  /\ PoolStep(c.pool[o], got.bufs)
             /\ got.at \in 0 .. Len(got.bufs)
             /\ got.at # 0 => ~got.bufs[got.at].busy
  <2>1. c.out[o].size \in Sizes
    BY <1>1, <1>4 DEF Ready, StockedOn, OutputInfo
  <2>2. c.pool[o] \in Seq(Buffer)
    BY <1>1 DEF StockedOn
  <2>3. QED
    BY <2>1, <2>2, GetBufferFacts DEF GotOf
<1> HIDE DEF got
<1>5. ASSUME Ready(c.out[o]), got.at = 0, f = Skip(c, o, got.bufs)
      PROVE  /\ StockedOn(f.out, f.pool, f.screen, was[o])
             /\ DrawnOn(c.out[o], c.owed[o], f.out, f.owed)
  BY <1>2, <1>4, <1>5
<1>6. ASSUME Ready(c.out[o]), got.at # 0, f = Skip(c, o, Ruined(got))
      PROVE  /\ StockedOn(f.out, f.pool, f.screen, was[o])
             /\ DrawnOn(c.out[o], c.owed[o], f.out, f.owed)
  <2>1. got.bufs \in Seq(Buffer) /\ got.at \in 1 .. Len(got.bufs)
        /\ ~got.bufs[got.at].busy
    BY <1>4, <1>6 DEF PoolStep
  <2>2. got.bufs[got.at] \in Buffer
    BY <2>1
  <2>3. ruin \in Buffer /\ ruin.size = got.bufs[got.at].size
    BY <2>2, PresentAssumption DEF Spoilt, Buffer, Base
  <2> HIDE DEF ruin
  <2>4. PoolStep(got.bufs, With(got.bufs, got.at, ruin))
    BY <2>1, <2>3, WithStep
  <2>5. PoolStep(got.bufs, Ruined(got))
    BY <2>4 DEF Ruined, ruin
  <2>6. PoolStep(c.pool[o], Ruined(got))
    BY <1>4, <1>6, <2>5, PoolsStep
  <2>7. QED
    BY <1>2, <1>6, <2>6
<1>7. ASSUME Ready(c.out[o]), got.at # 0, f = Paint(c, o, got, base)
      PROVE  /\ StockedOn(f.out, f.pool, f.screen, was[o])
             /\ DrawnOn(c.out[o], c.owed[o], f.out, f.owed)
  <2>1. got.bufs \in Seq(Buffer) /\ got.at \in 1 .. Len(got.bufs)
        /\ ~got.bufs[got.at].busy /\ c.screen[o] \in Screen /\ base \in Base
    BY <1>1, <1>4, <1>7, ShownIs DEF PoolStep, StockedOn
  <2> HIDE DEF base
  <2>2. PoolStep(got.bufs, f.pool) /\ f.screen \in Screen
    BY <1>1, <1>7, <2>1, PaintStocked
  <2>3. \/ f.out = c.out[o] /\ f.owed = c.owed[o]
        \/ f.owed = c.owed[o] + 1 /\ f.out = Framed(c.out[o], c.picture.area)
    BY <1>1, <1>7, PaintFacts
  <2>4. PoolStep(c.pool[o], f.pool)
    BY <1>4, <1>7, <2>2, PoolsStep
  <2>5. f.out \in OutputInfo /\ f.out.size = c.out[o].size
        /\ f.out.configured = c.out[o].configured /\ f.out.state = c.out[o].state
    BY <1>1, <2>3 DEF Framed, OutputInfo, StockedOn
  <2>6. Holds(was[o], c.pool[o]) => Holds(was[o], f.pool)
    BY <2>4, PoolSteps
  <2>7. StockedOn(f.out, f.pool, f.screen, was[o])
    BY <1>1, <2>2, <2>4, <2>5, <2>6 DEF StockedOn, PoolStep
  <2>8. DrawnOn(c.out[o], c.owed[o], f.out, f.owed)
    BY <1>1, <1>7, <2>3 DEF DrawnOn
  <2>9. QED
    BY <2>7, <2>8
<1>8. QED
  BY <1>3, <1>5, <1>6, <1>7 DEF FrameOf, got

LEMMA DrawnStocked ==
  ASSUME NEW c, NEW was, StockedClient(c, was), NEW fate
  PROVE  StockedClient(Drawn(c, fate), was)
<1> DEFINE d == Drawn(c, fate)
<1>1. PICK after, taken : FramesOf(c, fate, after, taken, d)
  BY DrawnFrames
<1> HIDE DEF d
<1> DEFINE outs    == [o \in Outputs |-> after[o].out]
           pools   == [o \in Outputs |-> after[o].pool]
           screens == [o \in Outputs |-> after[o].screen]
           owes    == [o \in Outputs |-> after[o].owed]
<1>2. /\ taken \subseteq ReadyOutputs(c)
      /\ d = Redrawn(WithPlaylists(c, taken), outs, pools, screens, owes)
  BY <1>1 DEF FramesOf
<1>3. Client(c) /\ Settled(c)
  BY DEF StockedClient
<1>4. ASSUME NEW o \in Outputs
      PROVE  /\ StockedOn(after[o].out, after[o].pool, after[o].screen, was[o])
             /\ after[o].out \in OutputInfo /\ after[o].owed \in Nat
  <2>1. FrameOf(c, fate, o, after[o])
    BY <1>1 DEF FramesOf
  <2>2. /\ StockedOn(after[o].out, after[o].pool, after[o].screen, was[o])
        /\ DrawnOn(c.out[o], c.owed[o], after[o].out, after[o].owed)
    BY <2>1, FrameStocked
  <2>3. c.out[o] \in OutputInfo /\ c.owed[o] \in Nat
    BY <1>3 DEF Client
  <2>4. QED
    BY <2>2, <2>3, DrawnOnType
<1>5. outs \in [Outputs -> OutputInfo] /\ owes \in [Outputs -> Nat]
  BY <1>4
<1>6. {c.out[o].size : o \in taken} \subseteq Sizes
  <2>1. ASSUME NEW o \in taken PROVE c.out[o].size \in Sizes
    <3>1. o \in Outputs /\ c.out[o].configured
      BY <1>2 DEF ReadyOutputs, Ready
    <3>2. StockedOn(c.out[o], c.pool[o], c.screen[o], was[o])
      BY <3>1 DEF StockedClient, StockedAll
    <3>3. QED
      BY <3>1, <3>2 DEF StockedOn, OutputInfo
  <2>2. QED
    BY <2>1
<1>7. StockedAll(outs, pools, screens, was)
  BY <1>4 DEF StockedAll
<1>8. /\ outs = [o \in Outputs |-> outs[o]] /\ pools = [o \in Outputs |-> pools[o]]
      /\ screens = [o \in Outputs |-> screens[o]]
  OBVIOUS
<1> HIDE DEF outs, pools, screens, owes
<1>9. /\ Client(d) /\ d.out = outs /\ d.pool = pools /\ d.screen = screens
      /\ d.queued = c.queued /\ d.low = c.low /\ d.wake \in {"later", "none"}
      /\ d.playing = c.playing \cup (IF Shown(c) = "now"
                                     THEN {c.out[o].size : o \in taken} ELSE {})
  BY <1>2, <1>3, <1>5, RedrawnFields
<1>10. Settled(d)
  BY <1>3, <1>6, <1>9 DEF Settled
<1>11. QED
  BY <1>7, <1>8, <1>9, <1>10 DEF StockedClient, d

LEMMA DrawStocked ==
  ASSUME NEW c, NEW was, StockedClient(c, was), NEW d \in Draw(c),
         \A o \in Outputs : c.owed[o] <= MaxOwed
  PROVE  StockedClient(d, was) /\ \A o \in Outputs : d.owed[o] <= MaxOwed
<1> DEFINE waits == c.queued \/ Waiting(c.out)
           asked == [c EXCEPT !.queued = waits]
<1>0. waits \in BOOLEAN
  BY DEF StockedClient, Settled, Waiting
<1>1. /\ Client(asked) /\ asked.out = c.out /\ asked.owed = c.owed
      /\ asked.pool = c.pool /\ asked.screen = c.screen
      /\ asked.queued = waits /\ asked.low = c.low /\ asked.wake = c.wake
      /\ asked.playing = c.playing
  BY DEF StockedClient, Client, Fields
<1>2. \/ d = asked
      \/ /\ \E a \in Advanced(asked) : \E f \in Fates(a) : d = Drawn(a, f)
         /\ \A o \in Outputs : d.owed[o] <= MaxOwed
  BY DEF Draw
<1> HIDE DEF asked, waits
<1>3. StockedClient(asked, was)
  BY <1>0, <1>1 DEF StockedClient, Settled
<1>4. CASE d = asked
  BY <1>1, <1>3, <1>4
<1>5. CASE /\ \E a \in Advanced(asked) : \E f \in Fates(a) : d = Drawn(a, f)
           /\ \A o \in Outputs : d.owed[o] <= MaxOwed
  <2>1. PICK a \in Advanced(asked) : \E f \in Fates(a) : d = Drawn(a, f)
    BY <1>5
  <2>2. a = asked \/ \E S : a = Aged(asked, S)
    BY <2>1 DEF Advanced
  <2>3. StockedClient(a, was)
    BY <1>3, <2>2, AgedStocked
  <2>4. QED
    BY <1>5, <2>1, <2>3, DrawnStocked
<1>6. QED
  BY <1>2, <1>4, <1>5

-----------------------------------------------------------------------------
(* The handlers.                                                           *)

SInv == StockedClient(Now, pool) /\ \A o \in Outputs : owed[o] <= MaxOwed

\* What BusyIsUntouched says of a step.
Untouched ==
  \A o \in Outputs : \A i \in Busy(o) :
    \/ out'[o].state = "gone"
    \/ \E j \in DOMAIN pool'[o] :
         /\ pool'[o][j].size = pool[o][i].size
         /\ pool'[o][j].picture = pool[o][i].picture
         /\ \/ pool'[o][j].base = pool[o][i].base
            \/ pool[o][i].base = "now" /\ pool'[o][j].base = "old"

LEMMA NowFields ==
  /\ Fields \subseteq DOMAIN Now /\ Now.out = out /\ Now.pool = pool
  /\ Now.screen = screen /\ Now.owed = owed /\ Now.queued = queued
  /\ Now.wake = wake /\ Now.low = low /\ Now.playing = playing
  /\ Now.picture = picture
BY DEF Now, Fields

LEMMA HoldsItself == ASSUME NEW bufs PROVE Holds(bufs, bufs)
BY DEF Holds, Still

\* The state a handler leaves behind.
LEMMA LeavesStocked ==
  ASSUME NEW d, NEW was, Becomes(d), StockedClient(d, was),
         \A o \in Outputs : d.owed[o] <= MaxOwed
  PROVE  SInv'
<1>1. /\ Client(Now)' /\ Settled(Now)' /\ out' = d.out /\ pool' = d.pool
      /\ screen' = d.screen /\ owed' = d.owed
      /\ (Now.out)' = out' /\ (Now.pool)' = pool' /\ (Now.screen)' = screen'
  BY DEF StockedClient, Client, Fields, Settled, Becomes, Now
<1>2. StockedAll(d.out, d.pool, d.screen, d.pool)
  BY HoldsItself DEF StockedClient, StockedAll, StockedOn
<1>3. /\ d.out = [o \in Outputs |-> d.out[o]]
      /\ d.pool = [o \in Outputs |-> d.pool[o]]
      /\ d.screen = [o \in Outputs |-> d.screen[o]]
  BY DEF StockedClient
<1>4. /\ (Now.out)' = d.out /\ (Now.pool)' = d.pool /\ (Now.screen)' = d.screen
  BY <1>1
<1>5. StockedAll(Now.out, Now.pool, Now.screen, pool)'
  BY <1>1, <1>2, <1>4 DEF StockedAll
<1>6. /\ (Now.out = [o \in Outputs |-> Now.out[o]])'
      /\ (Now.pool = [o \in Outputs |-> Now.pool[o]])'
      /\ (Now.screen = [o \in Outputs |-> Now.screen[o]])'
  BY <1>3, <1>4
<1>7. StockedClient(Now, pool)'
  BY <1>1, <1>5, <1>6 DEF StockedClient
<1>8. QED
  BY <1>1, <1>7 DEF SInv

LEMMA LeavesUntouched ==
  ASSUME NEW d, Becomes(d), StockedClient(d, pool)
  PROVE  Untouched
<1> SUFFICES ASSUME NEW o \in Outputs, NEW i \in Busy(o),
                    out'[o].state # "gone"
             PROVE  \E j \in DOMAIN pool'[o] :
                      /\ pool'[o][j].size = pool[o][i].size
                      /\ pool'[o][j].picture = pool[o][i].picture
                      /\ \/ pool'[o][j].base = pool[o][i].base
                         \/ pool[o][i].base = "now" /\ pool'[o][j].base = "old"
  BY DEF Untouched
<1>1. out' = d.out /\ pool' = d.pool
  BY DEF Becomes
<1>2. Holds(pool[o], pool'[o])
  BY <1>1 DEF StockedClient, StockedAll, StockedOn
<1>3. i \in DOMAIN pool[o] /\ pool[o][i].busy
  BY DEF Busy
<1>4. PICK j \in DOMAIN pool'[o] : Still(pool[o][i], pool'[o][j])
  BY <1>2, <1>3 DEF Holds
<1>5. QED
  BY <1>4 DEF Still

\* What the theorems need of a handler's step.
LEMMA Leaves ==
  ASSUME NEW d, Becomes(d), StockedClient(d, pool),
         \A o \in Outputs : d.owed[o] <= MaxOwed
  PROVE  SInv' /\ Untouched
BY LeavesStocked, LeavesUntouched

LEMMA LeavesDrawn ==
  ASSUME NEW c, NEW d \in Draw(c), Becomes(d), StockedClient(c, pool),
         \A o \in Outputs : c.owed[o] <= MaxOwed
  PROVE  SInv' /\ Untouched
<1>1. StockedClient(d, pool) /\ \A o \in Outputs : d.owed[o] <= MaxOwed
  BY DrawStocked
<1>2. QED
  BY <1>1, Leaves

\* A handler that changes one output and neither a buffer nor a screen.
LEMMA OtherInfo ==
  ASSUME NEW c, NEW was, StockedClient(c, was), NEW o \in Outputs,
         NEW info \in OutputInfo, info.configured => info.size # None,
         info.state = "gone" \/ c.out[o].state # "gone",
         NEW d, Client(d), Settled(d), d.pool = c.pool, d.screen = c.screen,
         d.out = [c.out EXCEPT ![o] = info]
  PROVE  StockedClient(d, was)
<1>1. ASSUME NEW p \in Outputs
      PROVE  StockedOn(d.out[p], d.pool[p], d.screen[p], was[p])
  <2>1. StockedOn(c.out[p], c.pool[p], c.screen[p], was[p])
    BY DEF StockedClient, StockedAll
  <2>2. c.out \in [Outputs -> OutputInfo]
    BY DEF StockedClient, Client
  <2>3. CASE p = o
    <3>1. d.out[p] = info
      BY <2>2, <2>3
    <3>2. QED
      BY <2>1, <2>3, <3>1 DEF StockedOn
  <2>4. CASE p # o
    <3>1. d.out[p] = c.out[p]
      BY <2>2, <2>4
    <3>2. QED
      BY <2>1, <3>1
  <2>5. QED
    BY <2>3, <2>4
<1>2. /\ d.out = [p \in Outputs |-> d.out[p]]
      /\ d.pool = [p \in Outputs |-> d.pool[p]]
      /\ d.screen = [p \in Outputs |-> d.screen[p]]
  BY DEF StockedClient, Client
<1>3. QED
  BY <1>1, <1>2 DEF StockedClient, StockedAll

\* A handler that changes no output.
LEMMA SameInfos ==
  ASSUME NEW c, NEW was, StockedClient(c, was), NEW d, Client(d), Settled(d),
         d.pool = c.pool, d.screen = c.screen, d.out = c.out
  PROVE  StockedClient(d, was)
BY DEF StockedClient

LEMMA SInit == Init => SInv
<1> SUFFICES ASSUME Init PROVE SInv
  OBVIOUS
<1>1. Client(Now) /\ Settled(Now)
  <2>1. Client(Now)
    BY PInit DEF PInv, SoundClient
  <2>2. QED
    BY <2>1, NowFields DEF Settled, Init
<1>2. \A o \in Outputs : ~out[o].configured
  <2>1. PICK there \in SUBSET Outputs :
          out = [o \in Outputs |-> IF o \in there
                                   THEN [Unbound EXCEPT !.state = "plugged"]
                                   ELSE Unbound]
    BY DEF Init
  <2>2. Unbound.configured = FALSE
        /\ [Unbound EXCEPT !.state = "plugged"].configured = FALSE
    BY DEF Unbound
  <2>3. ASSUME NEW o \in Outputs PROVE out[o].configured = FALSE
    BY <2>1, <2>2
  <2>4. QED
    BY <2>3
<1>3. ASSUME NEW o \in Outputs
      PROVE  StockedOn(out[o], pool[o], screen[o], pool[o])
  <2>1. pool[o] = <<>> /\ screen[o] = Dark
    BY DEF Init
  <2>2. Dark \in Screen
    BY DEF Dark, Screen, Base
  <2>3. out[o] \in OutputInfo
    BY <1>1, NowFields DEF Client
  <2>4. QED
    BY <1>2, <2>1, <2>2, <2>3, NoBuffers, HoldsItself DEF StockedOn
<1>4. /\ out = [o \in Outputs |-> out[o]] /\ pool = [o \in Outputs |-> pool[o]]
      /\ screen = [o \in Outputs |-> screen[o]]
  BY <1>1, NowFields DEF Init, Client
<1>5. \A o \in Outputs : owed[o] <= MaxOwed
  BY PresentAssumption DEF Init
<1>6. QED
  BY <1>1, <1>3, <1>4, <1>5, NowFields DEF SInv, StockedClient, StockedAll

LEMMA LockedStocked == ASSUME SInv, Locked PROVE SInv' /\ Untouched
<1> DEFINE outs == [o \in Outputs |->
                      IF out[o].state = "plugged" THEN WithSurface(out[o])
                      ELSE out[o]]
           d    == [Now EXCEPT !.out = outs]
<1>1. Becomes(d) /\ StockedClient(Now, pool) /\ Client(Now) /\ Settled(Now)
  BY NowFields DEF Locked, SInv, StockedClient
<1>2. ASSUME NEW o \in Outputs
      PROVE  /\ outs[o] \in OutputInfo /\ outs[o].state = out[o].state
             /\ outs[o].configured = out[o].configured
             /\ outs[o].size = out[o].size
  <2>1. out[o] \in OutputInfo
    BY <1>1, NowFields DEF Client
  <2> DEFINE info == WithSurface(out[o])
  <2>2. /\ info \in OutputInfo /\ info.state = out[o].state
        /\ info.configured = out[o].configured /\ info.size = out[o].size
    BY <2>1 DEF WithSurface, OutputInfo
  <2>3. outs[o] = IF out[o].state = "plugged" THEN info ELSE out[o]
    OBVIOUS
  <2> HIDE DEF info, outs
  <2>4. QED
    BY <2>1, <2>2, <2>3
<1>3. outs \in [Outputs -> OutputInfo] /\ outs = [o \in Outputs |-> outs[o]]
  BY <1>2
<1> HIDE DEF outs
<1>4. /\ Client(d) /\ Settled(d) /\ d.pool = pool /\ d.screen = screen
      /\ d.out = outs /\ d.owed = owed
  BY <1>1, <1>3, NowFields DEF Client, Fields, Settled
<1> HIDE DEF d
<1>5. ASSUME NEW o \in Outputs
      PROVE  StockedOn(d.out[o], d.pool[o], d.screen[o], pool[o])
  <2>1. StockedOn(out[o], pool[o], screen[o], pool[o])
    BY <1>1, NowFields DEF StockedClient, StockedAll
  <2>2. QED
    BY <1>2, <1>4, <2>1 DEF StockedOn
<1>6. StockedClient(d, pool)
  BY <1>1, <1>3, <1>4, <1>5, NowFields DEF StockedClient, StockedAll
<1>7. QED
  BY <1>1, <1>4, <1>6, Leaves DEF SInv

LEMMA PlugStocked ==
  ASSUME SInv, NEW o \in Outputs, Plug(o) PROVE SInv' /\ Untouched
<1> DEFINE plain == [out[o] EXCEPT !.state = "plugged"]
           info  == IF locked THEN WithSurface(plain) ELSE plain
           d     == [Now EXCEPT !.out = [out EXCEPT ![o] = info]]
<1>1. /\ StockedClient(Now, pool) /\ Client(Now) /\ Settled(Now)
      /\ StockedOn(out[o], pool[o], screen[o], pool[o])
  BY NowFields DEF SInv, StockedClient, StockedAll
<1>2. /\ info \in OutputInfo /\ info.configured = out[o].configured
      /\ info.size = out[o].size
  BY <1>1 DEF WithSurface, OutputInfo, StockedOn
<1>3. Becomes(d) /\ out[o].state = "new"
  BY NowFields DEF Plug
<1> HIDE DEF info
<1>4. /\ Client(d) /\ Settled(d) /\ d.pool = pool /\ d.screen = screen
      /\ d.out = [out EXCEPT ![o] = info] /\ d.owed = owed
  BY <1>1, <1>2, NowFields DEF Client, Fields, Settled
<1> HIDE DEF d
<1>5. StockedClient(d, pool)
  BY <1>1, <1>2, <1>3, <1>4, OtherInfo, NowFields DEF StockedOn
<1>6. QED
  BY <1>3, <1>4, <1>5, Leaves DEF SInv

\* The client without an output, before the playlists are pruned.
Unplugged(o) ==
  [Now EXCEPT !.out    = [out EXCEPT ![o] = [Unbound EXCEPT !.state = "gone"]],
              !.pool   = [pool EXCEPT ![o] = <<>>],
              !.screen = [screen EXCEPT ![o] = Dark]]

LEMMA UnpluggedClient ==
  ASSUME SInv, NEW o \in Outputs
  PROVE  LET d == Unplugged(o)
         IN  /\ StockedClient(d, pool)
             /\ d.out = [out EXCEPT ![o] = [Unbound EXCEPT !.state = "gone"]]
             /\ d.pool = [pool EXCEPT ![o] = <<>>]
             /\ d.screen = [screen EXCEPT ![o] = Dark] /\ d.owed = owed
             /\ d.queued = queued /\ d.wake = wake /\ d.low = low
             /\ d.picture = picture
<1> DEFINE info == [Unbound EXCEPT !.state = "gone"]
           outs == [out EXCEPT ![o] = info]
           pools == [pool EXCEPT ![o] = <<>>]
           screens == [screen EXCEPT ![o] = Dark]
           d == Unplugged(o)
<1>1. /\ StockedClient(Now, pool) /\ Client(Now) /\ Settled(Now)
      /\ StockedAll(out, pool, screen, pool)
  BY NowFields DEF SInv, StockedClient
<1>2. d = [Now EXCEPT !.out = outs, !.pool = pools, !.screen = screens]
  BY DEF Unplugged
<1>3. /\ info \in OutputInfo /\ info.state = "gone" /\ info.configured = FALSE
  BY DEF Unbound, OutputInfo
<1> HIDE DEF info
<1>4. /\ outs \in [Outputs -> OutputInfo] /\ outs = [p \in Outputs |-> outs[p]]
      /\ pools = [p \in Outputs |-> pools[p]]
      /\ screens = [p \in Outputs |-> screens[p]]
  BY <1>1, <1>3, NowFields DEF Client, StockedAll
<1>5. StockedOn(info, <<>>, Dark, pool[o])
  <2>1. Dark \in Screen
    BY DEF Dark, Screen, Base
  <2>2. QED
    BY <1>3, <2>1, NoBuffers DEF StockedOn
<1>6. StockedAll(outs, pools, screens, pool)
  <2>1. ASSUME NEW p \in Outputs
        PROVE  StockedOn(outs[p], pools[p], screens[p], pool[p])
    <3>1. CASE p = o
      <4>1. outs[p] = info /\ pools[p] = <<>> /\ screens[p] = Dark
        BY <1>1, <3>1 DEF StockedAll
      <4>2. QED
        BY <1>5, <3>1, <4>1
    <3>2. CASE p # o
      <4>1. outs[p] = out[p] /\ pools[p] = pool[p] /\ screens[p] = screen[p]
        BY <1>1, <3>2 DEF StockedAll
      <4>2. QED
        BY <1>1, <4>1 DEF StockedAll
    <3>3. QED
      BY <3>1, <3>2
  <2>2. QED
    BY <1>4, <2>1 DEF StockedAll
<1> HIDE DEF outs, pools, screens, d
<1>7. /\ Client(d) /\ Settled(d) /\ d.out = outs /\ d.pool = pools
      /\ d.screen = screens /\ d.owed = owed
      /\ d.queued = queued /\ d.wake = wake /\ d.low = low
      /\ d.picture = picture
  BY <1>1, <1>2, <1>4, NowFields DEF Client, Fields, Settled
<1>8. StockedClient(d, pool)
  BY <1>4, <1>6, <1>7 DEF StockedClient
<1>9. QED
  BY <1>7, <1>8 DEF outs, pools, screens, info, d

LEMMA UnplugStocked ==
  ASSUME SInv, NEW o \in Outputs, Unplug(o) PROVE SInv' /\ Untouched
<1> DEFINE d == Unplugged(o)
<1>1. Becomes(Pruned(d))
  BY NowFields DEF Unplug, Unplugged
<1>2. StockedClient(d, pool) /\ d.owed = owed
  BY UnpluggedClient
<1> HIDE DEF d
<1>3. StockedClient(Pruned(d), pool) /\ Pruned(d).owed = owed
  BY <1>2, PrunedStocked
<1>4. QED
  BY <1>1, <1>3, Leaves DEF SInv

\* The client with another size of an output, before it prunes and draws.
Resized(o, size) ==
  [Now EXCEPT !.out = [out EXCEPT ![o] = Reconfigured(out[o], size)]]

LEMMA ResizedClient ==
  ASSUME SInv, NEW o \in Outputs, NEW size \in Sizes, Configure(o, size), PInv
  PROVE  LET d == Resized(o, size)
         IN  /\ StockedClient(d, pool)
             /\ d.out = [out EXCEPT ![o] = Reconfigured(out[o], size)]
             /\ d.pool = pool /\ d.screen = screen /\ d.owed = owed
             /\ d.queued = queued /\ d.wake = wake /\ d.low = low
             /\ d.picture = picture
<1> DEFINE info == Reconfigured(out[o], size)
           d    == Resized(o, size)
<1>1. /\ StockedClient(Now, pool) /\ Client(Now) /\ Settled(Now)
      /\ StockedOn(out[o], pool[o], screen[o], pool[o])
  BY NowFields DEF SInv, StockedClient, StockedAll
<1>2. d = [Now EXCEPT !.out = [out EXCEPT ![o] = info]]
  BY DEF Resized
<1>3. /\ info \in OutputInfo /\ info.size = size /\ info.state = out[o].state
      /\ size # None
  BY <1>1, PresentAssumption DEF Reconfigured, OutputInfo, StockedOn
<1>4. out[o].state # "gone"
  BY NowIs DEF PInv, SoundClient, Sound, Configure
<1> HIDE DEF info, d
<1>5. /\ Client(d) /\ Settled(d) /\ d.pool = pool /\ d.screen = screen
      /\ d.out = [out EXCEPT ![o] = info] /\ d.owed = owed
      /\ d.queued = queued /\ d.wake = wake /\ d.low = low
      /\ d.picture = picture
  BY <1>1, <1>2, <1>3, NowFields DEF Client, Fields, Settled
<1>6. StockedClient(d, pool)
  BY <1>1, <1>3, <1>4, <1>5, OtherInfo, NowFields
<1>7. QED
  BY <1>5, <1>6 DEF d, info

LEMMA ConfigureStocked ==
  ASSUME SInv, NEW o \in Outputs, NEW size \in Sizes, Configure(o, size), PInv
  PROVE  SInv' /\ Untouched
<1> DEFINE d == Resized(o, size)
<1>1. PICK c \in Draw(Pruned(d)) : Becomes(c)
  BY NowFields DEF Configure, Resized
<1>2. StockedClient(d, pool) /\ d.owed = owed
  BY ResizedClient
<1> HIDE DEF d
<1>3. StockedClient(Pruned(d), pool)
      /\ \A p \in Outputs : Pruned(d).owed[p] <= MaxOwed
  BY <1>2, PrunedStocked DEF SInv
<1>4. QED
  BY <1>1, <1>3, LeavesDrawn

LEMMA ScaleStocked ==
  ASSUME SInv, NEW o \in Outputs, NEW size \in Sizes, Scale(o, size), PInv
  PROVE  SInv' /\ Untouched
<1> DEFINE info == [out[o] EXCEPT !.size = size]
           d    == [Now EXCEPT !.out = [out EXCEPT ![o] = info]]
<1>1. /\ StockedClient(Now, pool) /\ Client(Now) /\ Settled(Now)
      /\ StockedOn(out[o], pool[o], screen[o], pool[o])
  BY NowFields DEF SInv, StockedClient, StockedAll
<1>2. Becomes(Pruned(d))
  BY NowFields DEF Scale
<1>3. /\ info \in OutputInfo /\ info.size = size /\ info.state = out[o].state
      /\ size # None
  BY <1>1, PresentAssumption DEF OutputInfo, StockedOn
<1>4. out[o].state # "gone"
  BY NowIs DEF PInv, SoundClient, Sound, Scale
<1> HIDE DEF info
<1>5. /\ Client(d) /\ Settled(d) /\ d.pool = pool /\ d.screen = screen
      /\ d.out = [out EXCEPT ![o] = info] /\ d.owed = owed
  BY <1>1, <1>3, NowFields DEF Client, Fields, Settled
<1> HIDE DEF d
<1>6. StockedClient(d, pool)
  BY <1>1, <1>3, <1>4, <1>5, OtherInfo, NowFields
<1>7. QED
  BY <1>2, <1>5, <1>6, PrunedStocked, Leaves DEF SInv

\* The client after a frame callback, before it draws; asked is present_queued.
CalledBack(o) ==
  [Now EXCEPT !.out  = [out EXCEPT ![o] = [out[o] EXCEPT !.pending = FALSE]],
              !.owed = [owed EXCEPT ![o] = owed[o] - 1]]

Unasked(c) == [c EXCEPT !.queued = FALSE]

LEMMA CalledBackClient ==
  ASSUME SInv, NEW o \in Outputs, FrameDone(o)
  PROVE  LET c == CalledBack(o)
             q == Unasked(c)
         IN  /\ StockedClient(c, pool) /\ StockedClient(q, pool)
             /\ c.out = [out EXCEPT ![o] = [out[o] EXCEPT !.pending = FALSE]]
             /\ \A p \in Outputs : c.owed[p] <= MaxOwed
             /\ c.pool = pool /\ c.screen = screen /\ c.queued = queued
             /\ c.wake = wake /\ c.low = low /\ c.picture = picture
             /\ q.out = c.out /\ q.owed = c.owed /\ q.pool = c.pool
             /\ q.screen = c.screen /\ q.low = c.low
<1> DEFINE info == [out[o] EXCEPT !.pending = FALSE]
           left == [owed EXCEPT ![o] = owed[o] - 1]
           c    == CalledBack(o)
           q    == Unasked(c)
<1>1. /\ StockedClient(Now, pool) /\ Client(Now) /\ Settled(Now)
      /\ StockedOn(out[o], pool[o], screen[o], pool[o])
      /\ \A p \in Outputs : owed[p] <= MaxOwed
  BY NowFields DEF SInv, StockedClient, StockedAll
<1>2. owed[o] > 0 /\ owed \in [Outputs -> Nat]
  BY <1>1, NowFields DEF FrameDone, Client
<1>3. /\ c = [Now EXCEPT !.out = [out EXCEPT ![o] = info], !.owed = left]
      /\ q = [c EXCEPT !.queued = FALSE]
  BY DEF CalledBack, Unasked
<1>4. /\ info \in OutputInfo /\ info.size = out[o].size
      /\ info.state = out[o].state /\ info.configured = out[o].configured
  BY <1>1 DEF OutputInfo, StockedOn
<1>5. left \in [Outputs -> Nat] /\ \A p \in Outputs : left[p] <= MaxOwed
  <2>1. ASSUME NEW p \in Outputs
        PROVE  left[p] \in Nat /\ left[p] <= MaxOwed
    <3>1. left[p] = IF p = o THEN owed[o] - 1 ELSE owed[p]
      BY <1>2
    <3> HIDE DEF left
    <3>2. owed[p] \in Nat /\ owed[p] <= MaxOwed /\ owed[o] \in Nat
      BY <1>1, <1>2
    <3>3. CASE p = o
      BY <1>2, <3>1, <3>2, <3>3, PresentAssumption
    <3>4. CASE p # o
      BY <3>1, <3>2, <3>4
    <3>5. QED
      BY <3>3, <3>4
  <2>2. QED
    BY <1>2, <2>1
<1> HIDE DEF info, left, q, c
<1>6. /\ Client(c) /\ Settled(c) /\ c.pool = pool /\ c.screen = screen
      /\ c.out = [out EXCEPT ![o] = info] /\ c.owed = left
      /\ c.queued = queued /\ c.wake = wake /\ c.low = low
      /\ c.picture = picture
  BY <1>1, <1>3, <1>4, <1>5, NowFields DEF Client, Fields, Settled
<1>7. StockedClient(c, pool)
  BY <1>1, <1>4, <1>6, OtherInfo, NowFields DEF StockedOn
<1>8. /\ Client(q) /\ Settled(q) /\ q.pool = c.pool /\ q.screen = c.screen
      /\ q.out = c.out /\ q.owed = c.owed /\ q.low = c.low
  BY <1>3, <1>6 DEF Client, Fields, Settled
<1>9. StockedClient(q, pool)
  BY <1>7, <1>8, SameInfos
<1>10. QED
  BY <1>5, <1>6, <1>7, <1>8, <1>9 DEF c, q, info

LEMMA FrameDoneStocked ==
  ASSUME SInv, NEW o \in Outputs, FrameDone(o)
  PROVE  SInv' /\ Untouched
<1> DEFINE c == CalledBack(o)
           q == Unasked(c)
<1>1. (\E d \in Draw(q) : Becomes(d)) \/ Becomes(c)
  BY NowFields DEF FrameDone, CalledBack, Unasked
<1>2. /\ StockedClient(c, pool) /\ StockedClient(q, pool) /\ q.owed = c.owed
      /\ \A p \in Outputs : c.owed[p] <= MaxOwed
  BY CalledBackClient
<1> HIDE DEF c, q
<1>3. QED
  BY <1>1, <1>2, Leaves, LeavesDrawn

LEMMA ReleaseStocked ==
  ASSUME SInv, NEW o \in Outputs, Release(o)
  PROVE  SInv' /\ Untouched
<1>1. PICK i \in Busy(o) :
        Becomes([Now EXCEPT
          !.pool[o] = With(@, i, [pool[o][i] EXCEPT !.busy = FALSE])])
  BY DEF Release
<1> DEFINE b     == [pool[o][i] EXCEPT !.busy = FALSE]
           bufs  == With(pool[o], i, b)
           pools == [pool EXCEPT ![o] = bufs]
           d     == [Now EXCEPT !.pool = pools]
<1>2. Becomes(d)
  BY <1>1, NowFields
<1>3. /\ StockedClient(Now, pool) /\ Client(Now) /\ Settled(Now)
      /\ StockedAll(out, pool, screen, pool)
      /\ \A p \in Outputs : owed[p] <= MaxOwed
  BY NowFields DEF SInv, StockedClient
<1>4. /\ pool[o] \in Seq(Buffer) /\ Bounded(pool[o])
      /\ StockedOn(out[o], pool[o], screen[o], pool[o])
  BY <1>3 DEF StockedAll, StockedOn
<1>5. /\ Len(pool[o]) \in Nat /\ DOMAIN pool[o] = 1 .. Len(pool[o])
      /\ \A j \in 1 .. Len(pool[o]) : pool[o][j] \in Buffer
      /\ i \in 1 .. Len(pool[o])
  BY <1>4 DEF Busy
<1>6. /\ b \in Buffer /\ b.size = pool[o][i].size
      /\ b.picture = pool[o][i].picture /\ b.base = pool[o][i].base
  BY <1>5 DEF Buffer
<1> HIDE DEF b
<1>7. bufs = [j \in 1 .. Len(pool[o]) |-> IF j = i THEN b ELSE pool[o][j]]
  BY <1>5 DEF With
<1> HIDE DEF bufs
<1>8. /\ bufs \in [1 .. Len(pool[o]) -> Buffer] /\ DOMAIN bufs = DOMAIN pool[o]
      /\ \A j \in DOMAIN pool[o] : /\ bufs[j].size = pool[o][j].size
                                   /\ bufs[j].picture = pool[o][j].picture
                                   /\ bufs[j].base = pool[o][j].base
  BY <1>5, <1>6, <1>7
<1>9. bufs \in Seq(Buffer)
  BY <1>5, <1>8
<1>10. Bounded(bufs)
  BY <1>4, <1>8, <1>9, SameSizes DEF Bounded
<1>11. StockedOn(out[o], bufs, screen[o], bufs)
  BY <1>4, <1>9, <1>10, HoldsItself DEF StockedOn
<1>12. /\ pools = [p \in Outputs |-> pools[p]] /\ pools[o] = bufs
       /\ \A p \in Outputs : p # o => pools[p] = pool[p]
  BY <1>3 DEF StockedAll
<1> HIDE DEF pools
<1>13. StockedAll(out, pools, screen, pools)
  <2>1. ASSUME NEW p \in Outputs
        PROVE  StockedOn(out[p], pools[p], screen[p], pools[p])
    BY <1>3, <1>11, <1>12 DEF StockedAll
  <2>2. QED
    BY <1>3, <1>12, <2>1 DEF StockedAll
<1>14. /\ Client(d) /\ Settled(d) /\ d.out = out /\ d.pool = pools
       /\ d.screen = screen /\ d.owed = owed
  BY <1>3, NowFields DEF Client, Fields, Settled
<1> HIDE DEF d
<1>15. StockedClient(d, pools)
  BY <1>3, <1>12, <1>13, <1>14, NowFields DEF StockedClient
<1>16. SInv'
  BY <1>2, <1>3, <1>14, <1>15, LeavesStocked
<1>17. Untouched
  <2>1. pool' = pools
    BY <1>2, <1>14 DEF Becomes
  <2>2. ASSUME NEW p \in Outputs, NEW k \in Busy(p)
        PROVE  \E j \in DOMAIN pool'[p] :
                 /\ pool'[p][j].size = pool[p][k].size
                 /\ pool'[p][j].picture = pool[p][k].picture
                 /\ pool'[p][j].base = pool[p][k].base
    <3>1. k \in DOMAIN pool[p]
      BY DEF Busy
    <3>2. /\ k \in DOMAIN pools[p]
          /\ pools[p][k].size = pool[p][k].size
          /\ pools[p][k].picture = pool[p][k].picture
          /\ pools[p][k].base = pool[p][k].base
      BY <1>8, <1>12, <3>1
    <3>3. QED
      BY <2>1, <3>2
  <2>3. QED
    BY <2>2 DEF Untouched
<1>18. QED
  BY <1>16, <1>17

\* The handlers that touch no output, buffer or screen before draw().
LEMMA OtherStocked ==
  ASSUME SInv,
         \/ Battery \/ AnimationTick \/ FallDue \/ \E p \in Pictures : Change(p)
  PROVE  SInv' /\ Untouched
<1>1. /\ StockedClient(Now, pool) /\ Client(Now) /\ Settled(Now)
      /\ \A o \in Outputs : owed[o] <= MaxOwed
  BY DEF SInv, StockedClient
<1>2. ASSUME NEW d, Client(d), Settled(d), d.out = out, d.pool = pool,
             d.screen = screen, d.owed = owed,
             Becomes(d) \/ \E e \in Draw(d) : Becomes(e)
      PROVE  SInv' /\ Untouched
  <2>1. StockedClient(d, pool)
    BY <1>1, <1>2, SameInfos, NowFields
  <2>2. \A o \in Outputs : d.owed[o] <= MaxOwed
    BY <1>1, <1>2
  <2>3. QED
    BY <1>2, <2>1, <2>2, Leaves, LeavesDrawn
<1>3. CASE Battery
  <2> DEFINE d == [Now EXCEPT !.low = ~low]
  <2>1. /\ Client(d) /\ Settled(d) /\ d.out = out /\ d.pool = pool
        /\ d.screen = screen /\ d.owed = owed
    BY <1>1, NowFields DEF Client, Fields, Settled
  <2>2. \E e \in Draw(d) : Becomes(e)
    BY <1>3, NowFields DEF Battery
  <2> HIDE DEF d
  <2>3. QED
    BY <1>2, <2>1, <2>2
<1>4. CASE AnimationTick
  <2>1. \E e \in Draw(Now) : Becomes(e)
    BY <1>4 DEF AnimationTick
  <2>2. QED
    BY <1>1, <1>2, <2>1, NowFields
<1>5. CASE FallDue
  <2> DEFINE d == [Now EXCEPT !.wake = "due"]
  <2>1. /\ Client(d) /\ Settled(d) /\ d.out = out /\ d.pool = pool
        /\ d.screen = screen /\ d.owed = owed
    BY <1>1, NowFields DEF Client, Fields, Settled
  <2>2. Becomes(d)
    BY <1>5 DEF FallDue
  <2> HIDE DEF d
  <2>3. QED
    BY <1>2, <2>1, <2>2
<1>6. ASSUME NEW p \in Pictures, Change(p) PROVE SInv' /\ Untouched
  <2> DEFINE d == [Now EXCEPT !.picture = p]
  <2>1. /\ Client(d) /\ Settled(d) /\ d.out = out /\ d.pool = pool
        /\ d.screen = screen /\ d.owed = owed
    BY <1>1, NowFields DEF Client, Fields, Settled
  <2>2. \E e \in Draw(d) : Becomes(e)
    BY <1>6 DEF Change
  <2> HIDE DEF d
  <2>3. QED
    BY <1>2, <2>1, <2>2
<1>7. QED
  BY <1>3, <1>4, <1>5, <1>6

-----------------------------------------------------------------------------
(* Their theorems.                                                         *)

LEMMA SNext ==
  ASSUME PInv, SInv, [Next]_vars
  PROVE  SInv' /\ (Untouched \/ UNCHANGED vars)
<1>1. CASE UNCHANGED vars
  <2>1. SInv'
    BY <1>1 DEF vars, SInv, StockedClient, StockedAll, StockedOn, Client,
                Settled, Now
  <2>2. QED
    BY <1>1, <2>1
<1>2. CASE Next
  BY <1>2, LockedStocked, PlugStocked, UnplugStocked, ConfigureStocked,
     ScaleStocked, FrameDoneStocked, ReleaseStocked, OtherStocked DEF Next
<1>3. QED
  BY <1>1, <1>2

\* Sizes, buffers and pixels stay what the handlers take them for, whatever the
\* compositor, the battery and the allocator do.
THEOREM BuffersSound == Spec => [](SInv /\ PInv /\ locked \in BOOLEAN)
<1>1. Init => SInv
  BY SInit
<1>2. SInv /\ PInv /\ [Next]_vars => SInv'
  BY SNext
<1>3. QED
  BY <1>1, <1>2, OutputsSound, PTL DEF Spec

\* Every variable has its type, and no output is configured without a surface
\* and a size (wayland.rs:263-270, 940-943).
THEOREM PresentTyped == Spec => []TypeOK
<1>1. SInv /\ PInv /\ locked \in BOOLEAN => TypeOK
  <2> SUFFICES ASSUME SInv, PInv, locked \in BOOLEAN PROVE TypeOK
    OBVIOUS
  <2>1. /\ Client(Now) /\ Settled(Now) /\ StockedAll(out, pool, screen, pool)
        /\ pool = [o \in Outputs |-> pool[o]]
        /\ screen = [o \in Outputs |-> screen[o]]
        /\ \A o \in Outputs : owed[o] <= MaxOwed
    BY NowFields DEF SInv, StockedClient
  <2>2. out \in [Outputs -> OutputInfo] /\ picture \in Pictures
        /\ owed \in [Outputs -> Nat]
    BY <2>1, NowFields DEF Client
  <2>3. ASSUME NEW o \in Outputs
        PROVE  /\ pool[o] \in Seq(Buffer) /\ screen[o] \in Screen
               /\ out[o].configured => out[o].surface /\ out[o].size # None
               /\ owed[o] \in 0 .. MaxOwed
    <3>1. StockedOn(out[o], pool[o], screen[o], pool[o])
      BY <2>1 DEF StockedAll
    <3>2. out[o].configured => out[o].surface
      BY NowFields DEF PInv, SoundClient, Sound
    <3>3. owed[o] \in 0 .. MaxOwed
      BY <2>1, <2>2, PresentAssumption
    <3>4. QED
      BY <3>1, <3>2, <3>3 DEF StockedOn
  <2>4. /\ pool \in [Outputs -> Seq(Buffer)] /\ screen \in [Outputs -> Screen]
        /\ owed \in [Outputs -> 0 .. MaxOwed]
    BY <2>1, <2>2, <2>3
  <2>5. QED
    BY <2>1, <2>2, <2>3, <2>4, NowFields DEF TypeOK, Settled, Screen
<1>2. QED
  BY <1>1, BuffersSound, PTL

\* However late the compositor releases buffers and however often an output is
\* resized, no surface has more of them than MAX_MATCHING of a size
\* (pool.rs:191-207).
THEOREM PoolsBounded == Spec => []PoolIsBounded
<1>1. SInv => PoolIsBounded
  BY NowFields DEF SInv, StockedClient, StockedAll, StockedOn, Bounded,
                   PoolIsBounded
<1>2. QED
  BY <1>1, BuffersSound, PTL

\* What the compositor may still be reading is neither painted over nor freed,
\* by any handler (pool.rs:178-189).
THEOREM BusyBuffersHeld == Spec => BusyIsUntouched
<1>1. SInv /\ PInv /\ [Next]_vars => [Untouched]_vars
  BY SNext
<1>2. QED
  BY <1>1, BuffersSound, PTL DEF Spec, BusyIsUntouched, Untouched

-----------------------------------------------------------------------------
(* That nothing is missed: while no output is resized, the battery stays   *)
(* on its side of the threshold, and buffers come in time, the pools and   *)
(* the screens know enough of each other for partial damage to be enough.  *)

\* What the indicator is painted on.
Target == IF Animated THEN "now" ELSE "solid"

BusyOnes == {b \in Buffer : b.busy}

\* The screen shows one whole frame, with the indicator that is remembered; and
\* as long as a buffer with the wanted base is left, on that base.
Frame(info, bufs, shows, base, p) ==
  /\ p.area = info.indicator
  /\ shows = [size |-> info.size, pixels |-> Pixels(base, p)]
  /\ (\E i \in DOMAIN bufs : bufs[i].base = Target) => base = Target

InUse(info, bufs, shows) ==
  /\ info.configured
  /\ bufs \in Seq(Buffer) /\ \A i \in DOMAIN bufs : bufs[i].size = info.size
  /\ ~info.pending => Cardinality(Among(bufs, BusyOnes)) <= 1
  /\ \E base \in Base, p \in Pictures : Frame(info, bufs, shows, base, p)

\* An output with no frame yet.
Empty(info, bufs, shows) == ~info.pending /\ bufs = <<>> /\ shows = Dark

\* An output before its first draw(), and between two of them.
Drawable(info, bufs, shows) ==
  \/ Empty(info, bufs, shows)
  \/ InUse(info, bufs, shows)

Kept(info, bufs, shows) ==
  /\ Drawable(info, bufs, shows)
  /\ Empty(info, bufs, shows) => ~info.configured

WantedOf(c, info) == [size |-> info.size, pixels |-> Pixels(Shown(c), c.picture)]

\* An output that lags will be drawn when its callback comes.
UpToDate(c, o) ==
  c.out[o].configured /\ c.screen[o] # WantedOf(c, c.out[o])
    => c.out[o].pending /\ (c.queued \/ c.wake = "due")

SeenClient(c) ==
  /\ ~c.low
  /\ \A o \in Outputs :
       Kept(c.out[o], c.pool[o], c.screen[o]) /\ UpToDate(c, o)

\* A drawn frame is the wanted one.
LEMMA PaintFrame ==
  ASSUME NEW c, Client(c), NEW o \in Outputs, NEW got,
         c.out[o].size \in Sizes, c.screen[o] \in Screen,
         got.bufs \in Seq(Buffer), got.at \in 1 .. Len(got.bufs),
         ~got.bufs[got.at].busy,
         \A i \in DOMAIN got.bufs : got.bufs[i].size = c.out[o].size,
         c.out[o].configured, ~c.out[o].pending,
         Cardinality(Among(got.bufs, BusyOnes)) <= 1,
         got.bufs[got.at].base = Target =>
           \E p \in Pictures :
             Frame(c.out[o], got.bufs, c.screen[o], Target, p)
  PROVE  LET f == Paint(c, o, got, Target)
         IN  /\ InUse(f.out, f.pool, f.screen)
             /\ f.screen = [size |-> c.out[o].size,
                            pixels |-> Pixels(Target, c.picture)]
             /\ f.out.size = c.out[o].size
<1> DEFINE info == c.out[o]
           b    == got.bufs[got.at]
           same == b.base = Target
           p    == c.picture
           sent == Submitted(Damage(b, Target, p), same, info.indicator)
           held == [b EXCEPT !.base = Target, !.picture = p]
           busy == [held EXCEPT !.busy = TRUE]
           new  == Pixels(Target, p)
           px   == [r \in Regions |->
                      IF r \in sent \/ c.screen[o].size # info.size
                      THEN new[r] ELSE c.screen[o].pixels[r]]
           f    == Paint(c, o, got, Target)
           unsent == With(got.bufs, got.at, held)
           asSent == With(got.bufs, got.at, busy)
           next == [info EXCEPT !.pending = TRUE, !.indicator = p.area]
<1>1. /\ b \in Buffer /\ p \in Pictures /\ info \in OutputInfo
      /\ Target \in Base /\ p.area \subseteq Regions
  BY PresentAssumption DEF Client, Target, Base
<1>2. /\ held \in Buffer /\ held.size = b.size /\ held.busy = FALSE
      /\ held.base = Target
      /\ busy \in Buffer /\ busy.size = b.size /\ busy.base = Target
  <2>1. b.busy = FALSE
    BY <1>1 DEF Buffer
  <2>2. b \in Buffer /\ p \in Pictures /\ Target \in Base
    BY <1>1
  <2> DEFINE t == Target
  <2> HIDE DEF b, p, t
  <2>3. /\ [b EXCEPT !.base = t, !.picture = p] \in Buffer
        /\ [b EXCEPT !.base = t, !.picture = p].size = b.size
        /\ [b EXCEPT !.base = t, !.picture = p].busy = b.busy
        /\ [b EXCEPT !.base = t, !.picture = p].base = t
    <3>1. t \in Base
      BY <2>2 DEF t
    <3>2. QED
      BY <2>2, <3>1 DEF Buffer
  <2>4. /\ held \in Buffer /\ held.size = b.size /\ held.busy = b.busy
        /\ held.base = Target
    BY <2>3 DEF t
  <2> HIDE DEF held
  <2>5. busy \in Buffer /\ busy.size = b.size /\ busy.base = Target
    BY <2>4 DEF Buffer
  <2>6. QED
    BY <2>1, <2>4, <2>5
<1>3. IF sent = {} THEN f.pool = unsent /\ f.screen = c.screen[o] /\ f.out = info
      ELSE /\ f.pool = asSent /\ f.out = next
           /\ f.screen = [size |-> info.size, pixels |-> px]
  BY DEF Paint, Uncommitted
<1>4. /\ next.configured = info.configured /\ next.size = info.size
      /\ next.pending = TRUE /\ next.indicator = p.area
  BY <1>1 DEF OutputInfo
<1>5. ASSUME NEW x \in Buffer, x.size = b.size
      PROVE  /\ With(got.bufs, got.at, x) \in Seq(Buffer)
             /\ \A i \in DOMAIN With(got.bufs, got.at, x) :
                  With(got.bufs, got.at, x)[i].size = info.size
  <2>1. PoolStep(got.bufs, With(got.bufs, got.at, x))
    BY <1>5, WithStep
  <2>2. \A i \in DOMAIN got.bufs :
          With(got.bufs, got.at, x)[i] = IF i = got.at THEN x ELSE got.bufs[i]
    BY DEF With
  <2>3. DOMAIN With(got.bufs, got.at, x) = DOMAIN got.bufs
    BY DEF With
  <2>4. QED
    BY <1>5, <2>1, <2>2, <2>3 DEF PoolStep
<1>6. same => \E q \in Pictures : Frame(info, got.bufs, c.screen[o], Target, q)
  OBVIOUS
<1>7. ASSUME same, NEW q \in Pictures, Frame(info, got.bufs, c.screen[o], Target, q)
      PROVE  /\ sent = b.picture.area \cup p.area \cup q.area
             /\ c.screen[o] = [size |-> info.size, pixels |-> Pixels(Target, q)]
             /\ q.area = info.indicator
  BY <1>7 DEF Frame, Submitted, Damage
<1>8. ~same => sent = Regions /\ Regions # {}
  BY PresentAssumption DEF Submitted, Damage
<1>9. ASSUME sent # {} PROVE px = new
  <2>1. CASE same
    <3>1. PICK q \in Pictures : Frame(info, got.bufs, c.screen[o], Target, q)
      BY <1>6, <2>1
    <3>2. /\ p.area \subseteq sent /\ q.area \subseteq sent
          /\ c.screen[o].pixels = Pixels(Target, q)
          /\ c.screen[o].size = info.size
      <4>1. /\ sent = b.picture.area \cup p.area \cup q.area
            /\ c.screen[o] = [size |-> info.size, pixels |-> Pixels(Target, q)]
        BY <1>7, <2>1, <3>1
      <4> HIDE DEF sent, info, p, b
      <4>2. QED
        BY <4>1
    <3> HIDE DEF sent, info, p
    <3>3. QED
      BY <3>2 DEF Pixels
  <2>2. CASE ~same
    <3>1. sent = Regions
      BY <1>8, <2>2
    <3> HIDE DEF sent, info, p
    <3>2. QED
      BY <3>1 DEF Pixels
  <2>3. QED
    BY <2>1, <2>2
<1> HIDE DEF f, info, b, p, sent, held, busy, new, px, unsent, asSent, next, same
<1>10. CASE sent # {}
  <2>1. /\ f.pool = asSent /\ f.out = next
        /\ f.screen = [size |-> info.size, pixels |-> new]
    BY <1>3, <1>9, <1>10
  <2>2. /\ asSent \in Seq(Buffer)
        /\ \A i \in DOMAIN asSent : asSent[i].size = info.size
    BY <1>2, <1>5 DEF asSent
  <2>3. Frame(next, asSent, f.screen, Target, p)
    BY <1>4, <2>1 DEF Frame, new
  <2>4. info.configured
    BY DEF info
  <2>5. QED
    BY <1>1, <1>4, <2>1, <2>2, <2>3, <2>4 DEF InUse, f, new, info, p
<1>11. CASE sent = {}
  <2>1. f.pool = unsent /\ f.screen = c.screen[o] /\ f.out = info
    BY <1>3, <1>11
  <2>2. PICK q \in Pictures : Frame(info, got.bufs, c.screen[o], Target, q)
    BY <1>6, <1>8, <1>11
  <2>3. /\ p.area = {} /\ q.area = {}
        /\ c.screen[o] = [size |-> info.size, pixels |-> Pixels(Target, q)]
        /\ q.area = info.indicator
    BY <1>6, <1>7, <1>8, <1>11, <2>2
  <2>4. Pixels(Target, q) = new
    BY <2>3 DEF Pixels, new
  <2>5. /\ unsent \in Seq(Buffer)
        /\ \A i \in DOMAIN unsent : unsent[i].size = info.size
    BY <1>2, <1>5 DEF unsent
  <2>6. Among(unsent, BusyOnes) = Among(got.bufs, BusyOnes)
    <3>1. ~b.busy /\ ~held.busy /\ b = got.bufs[got.at]
      BY <1>2 DEF b
    <3>2. /\ DOMAIN unsent = DOMAIN got.bufs /\ unsent[got.at] = held
          /\ \A i \in DOMAIN got.bufs : i # got.at => unsent[i] = got.bufs[i]
      BY DEF unsent, With
    <3>3. QED
      BY <3>1, <3>2 DEF Among, BusyOnes
  <2>7. Frame(info, unsent, f.screen, Target, q)
    BY <2>1, <2>3 DEF Frame
  <2>8. info.configured /\ Cardinality(Among(unsent, BusyOnes)) <= 1
    BY <2>6 DEF info
  <2>9. InUse(f.out, f.pool, f.screen)
    BY <1>1, <2>1, <2>5, <2>7, <2>8 DEF InUse
  <2>10. QED
    BY <2>1, <2>3, <2>4, <2>9 DEF f, new, info, p
<1>12. QED
  BY <1>10, <1>11

\* While at most one buffer is busy, all have the size asked for, and none fails
\* to be made, there is one to draw into.
LEMMA GotOne ==
  ASSUME NEW bufs \in Seq(Buffer), NEW size \in Sizes, MaxMatching > 1,
         \A i \in DOMAIN bufs : bufs[i].size = size,
         Cardinality(Among(bufs, BusyOnes)) <= 1
  PROVE  GetBuffer(bufs, size, FALSE).at # 0
<1> DEFINE free == Free(bufs, size)
           kept == Retained(bufs, {i \in DOMAIN bufs :
                                     bufs[i].busy \/ bufs[i].size = size})
           first == CHOOSE i \in free : \A j \in free : i <= j
           got  == GetBuffer(bufs, size, FALSE)
<1>1. /\ Len(bufs) \in Nat /\ DOMAIN bufs = 1 .. Len(bufs)
      /\ free \subseteq 1 .. Len(bufs)
  BY MatchingIs DEF Free, Matching
<1>2. CASE free # {}
  <2>1. got.at = first
    BY <1>2 DEF GetBuffer
  <2>2. first \in free
    <3>1. \E i \in free : \A j \in free : i <= j
      BY <1>1, <1>2, LeastNat
    <3>2. QED
      BY <3>1
  <2> HIDE DEF got, first, free
  <2>3. got.at # 0
    BY <1>1, <2>1, <2>2
  <2>4. QED
    BY <2>3 DEF got
<1>3. CASE free = {}
  <2>1. Matching(bufs, size) = Among(bufs, BusyOnes)
    <3>1. \A i \in DOMAIN bufs : bufs[i] \in Buffer /\ bufs[i].busy
      BY <1>3 DEF Free, Matching
    <3>2. QED
      BY <3>1 DEF Matching, Among, BusyOnes
  <2>2. PoolStep(bufs, kept)
        /\ \A B : Cardinality(Among(kept, B)) <= Cardinality(Among(bufs, B))
    BY KeptStep
  <2> HIDE DEF kept
  <2>3. kept \in Seq(Buffer)
    BY <2>2 DEF PoolStep
  <2> DEFINE B == {b \in Buffer : b.size = size}
  <2>4. Matching(kept, size) = Among(kept, B) /\ Matching(bufs, size) = Among(bufs, B)
    BY <2>3, MatchingAmong
  <2> HIDE DEF B
  <2>5. Cardinality(Matching(kept, size)) <= Cardinality(Matching(bufs, size))
    BY <2>2, <2>4
  <2>6. /\ Cardinality(Matching(kept, size)) \in Nat
        /\ Cardinality(Matching(bufs, size)) \in Nat
        /\ Len(kept) \in Nat
    BY <2>3, MatchingIs
  <2>7. ~Full(kept, size)
    BY <2>1, <2>5, <2>6, PresentAssumption DEF Full
  <2>8. got.at = Len(kept) + 1
    BY <1>3, <2>7 DEF GetBuffer, kept
  <2> HIDE DEF got
  <2>9. got.at # 0
    BY <2>6, <2>8
  <2>10. QED
    BY <2>9 DEF got
<1>4. QED
  BY <1>2, <1>3

\* One output's frame in a draw(): the wanted one, or none yet.
LEMMA FrameSeen ==
  ASSUME World = {}, MaxMatching > 1, NEW c, NEW was, StockedClient(c, was),
         ~c.low, NEW fate \in Fates(c), NEW o \in Outputs,
         Drawable(c.out[o], c.pool[o], c.screen[o]),
         NEW f, FrameOf(c, fate, o, f)
  PROVE  /\ f.out.size = c.out[o].size
         /\ f.out.configured = c.out[o].configured
         /\ Kept(f.out, f.pool, f.screen)
         /\ Ready(c.out[o]) => f.screen = WantedOf(c, f.out)
         /\ ~Ready(c.out[o]) => f.out = c.out[o] /\ f.screen = c.screen[o]
<1> DEFINE info == c.out[o]
           bufs == c.pool[o]
           shows == c.screen[o]
           got  == GotOf(c, fate, o)
<1>1. /\ Client(c) /\ StockedOn(info, bufs, shows, was[o]) /\ info \in OutputInfo
      /\ bufs \in Seq(Buffer) /\ shows \in Screen
  BY DEF StockedClient, StockedAll, StockedOn
<1>2. Shown(c) = Target
  BY DEF Shown, Target
<1>3. CASE ~Ready(info)
  <2>1. f.out = info /\ f.pool = bufs /\ f.screen = shows
    BY <1>3 DEF FrameOf, Skip
  <2>2. Kept(info, bufs, shows)
    BY <1>3 DEF Kept, Drawable, InUse, Empty, Ready
  <2>3. QED
    BY <1>3, <2>1, <2>2
<1>4. CASE Ready(info)
  <2>1. info.configured /\ ~info.pending /\ info.size \in Sizes
    BY <1>1, <1>4 DEF Ready, StockedOn, OutputInfo
  <2>2. fate[o] = "drawn"
    <3>1. o \in ReadyOutputs(c)
      BY <1>4 DEF ReadyOutputs
    <3>2. fate \in [ReadyOutputs(c) -> {"drawn"}]
      BY DEF Fates
    <3>3. QED
      BY <3>1, <3>2
  <2>3. /\ \A i \in DOMAIN bufs : bufs[i].size = info.size
        /\ Cardinality(Among(bufs, BusyOnes)) <= 1
    <3>1. CASE Empty(info, bufs, shows)
      <4>1. Among(bufs, BusyOnes) = {}
        BY <3>1 DEF Empty, Among
      <4>2. Cardinality(Among(bufs, BusyOnes)) <= 1
        BY <4>1, FS_EmptySet
      <4>3. bufs = <<>>
        BY <3>1 DEF Empty
      <4> HIDE DEF bufs, info
      <4>4. QED
        BY <4>2, <4>3
    <3>2. CASE InUse(info, bufs, shows)
      BY <2>1, <3>2 DEF InUse
    <3>3. QED
      BY <3>1, <3>2 DEF Drawable
  <2>4. got = GetBuffer(bufs, info.size, FALSE)
    BY <2>2 DEF GotOf
  <2> HIDE DEF got
  <2>5. got.at # 0
    BY <1>1, <2>1, <2>3, <2>4, GotOne
  <2>6. f = Paint(c, o, got, Target)
    BY <1>2, <1>4, <2>2, <2>5 DEF FrameOf, got
  <2>7. /\ PoolStep(bufs, got.bufs) /\ got.at \in 0 .. Len(got.bufs)
        /\ ~got.bufs[got.at].busy
        /\ \A j \in 1 .. Len(got.bufs) :
             \/ got.bufs[j] = Blank(info.size)
             \/ \E i \in DOMAIN bufs : got.bufs[j] = bufs[i]
        /\ \A B \in SUBSET Buffer : Blank(info.size) \notin B =>
             Cardinality(Among(got.bufs, B)) <= Cardinality(Among(bufs, B))
    <3> DEFINE g == GetBuffer(bufs, info.size, FALSE)
    <3>1. /\ PoolStep(bufs, g.bufs)
          /\ g.at \in 0 .. Len(g.bufs)
          /\ g.at # 0 => ~g.bufs[g.at].busy /\ g.bufs[g.at].size = info.size
          /\ \A j \in 1 .. Len(g.bufs) :
               \/ g.bufs[j] = Blank(info.size)
               \/ \E i \in DOMAIN bufs : g.bufs[j] = bufs[i]
          /\ \A B \in SUBSET Buffer : Blank(info.size) \notin B =>
               Cardinality(Among(g.bufs, B)) <= Cardinality(Among(bufs, B))
      BY <1>1, <2>1, GetBufferFacts
    <3> HIDE DEF g
    <3>2. got = g
      BY <2>4 DEF g
    <3>3. QED
      BY <2>5, <3>1, <3>2
  <2>8. /\ got.bufs \in Seq(Buffer) /\ got.at \in 1 .. Len(got.bufs)
        /\ Len(got.bufs) \in Nat /\ DOMAIN got.bufs = 1 .. Len(got.bufs)
    BY <2>5, <2>7 DEF PoolStep
  <2>9. \A i \in DOMAIN got.bufs : got.bufs[i].size = info.size
    BY <2>1, <2>3, <2>7, <2>8, BlankIs
  <2>10. Cardinality(Among(got.bufs, BusyOnes)) <= 1
    <3>1. BusyOnes \in SUBSET Buffer /\ Blank(info.size) \notin BusyOnes
      BY <2>1, BlankIs DEF BusyOnes
    <3>2. Cardinality(Among(got.bufs, BusyOnes)) <= Cardinality(Among(bufs, BusyOnes))
      BY <2>7, <3>1
    <3>3. /\ Cardinality(Among(got.bufs, BusyOnes)) \in Nat
          /\ Cardinality(Among(bufs, BusyOnes)) \in Nat
      BY <1>1, <2>8, AmongIs
    <3>4. QED
      BY <2>3, <3>2, <3>3
  <2>11. ASSUME NEW j \in DOMAIN got.bufs, got.bufs[j].base = Target
         PROVE  \E p \in Pictures : Frame(info, got.bufs, shows, Target, p)
    <3>1. PICK i \in DOMAIN bufs : got.bufs[j] = bufs[i]
      <4>1. Blank(info.size).base = "none" /\ Target # "none"
        BY DEF Blank, Target
      <4>2. QED
        BY <2>7, <2>8, <2>11, <4>1
    <3>2. InUse(info, bufs, shows)
      <4>1. bufs # <<>>
        BY <3>1
      <4>2. QED
        BY <4>1 DEF Drawable, Empty
    <3>3. PICK base \in Base, p \in Pictures : Frame(info, bufs, shows, base, p)
      BY <3>2 DEF InUse
    <3>4. base = Target
      BY <2>11, <3>1, <3>3 DEF Frame
    <3>5. Frame(info, got.bufs, shows, Target, p)
      BY <3>3, <3>4 DEF Frame
    <3>6. QED
      BY <3>5
  <2>12. got.bufs[got.at].base = Target =>
           \E p \in Pictures : Frame(info, got.bufs, shows, Target, p)
    BY <2>8, <2>11
  <2>13. /\ InUse(f.out, f.pool, f.screen)
         /\ f.screen = [size |-> info.size, pixels |-> Pixels(Target, c.picture)]
         /\ f.out.size = info.size
    BY <1>1, <2>1, <2>6, <2>7, <2>8, <2>9, <2>10, <2>12, PaintFrame
  <2>14. f.screen = WantedOf(c, f.out)
    BY <1>2, <2>13 DEF WantedOf
  <2>15. f.screen # Dark
    BY <2>1, <2>13, PresentAssumption DEF Dark
  <2>16. QED
    BY <1>4, <2>1, <2>13, <2>14, <2>15 DEF Kept, Drawable, InUse, Empty
<1>5. QED
  BY <1>3, <1>4

LEMMA OldIs ==
  ASSUME NEW base \in Base
  PROVE  /\ Old(base) \in Base /\ (Old(base) = Target => base = Target)
         /\ Old(Target) = Target => ~Animated
         /\ Old(base) # "now"
BY DEF Old, Base, Target

\* A frame grows old as a whole, and with it the buffers.
LEMMA AgedDrawable ==
  ASSUME NEW info \in OutputInfo, NEW bufs \in Seq(Buffer), NEW shows \in Screen,
         NEW S \in SUBSET Sizes, Drawable(info, bufs, shows)
  PROVE  Drawable(info, OldBuffers(bufs, S), OldScreen(shows, S))
<1> DEFINE bufs1 == OldBuffers(bufs, S)
           shows1 == OldScreen(shows, S)
<1>1. /\ bufs1 \in Seq(Buffer) /\ DOMAIN bufs1 = DOMAIN bufs
      /\ \A i \in DOMAIN bufs :
           bufs1[i] = IF bufs[i].size \in S THEN [bufs[i] EXCEPT !.base = Old(@)]
                      ELSE bufs[i]
  BY OldBuffersStep DEF OldBuffers, PoolStep
<1>2. \A i \in DOMAIN bufs : bufs[i] \in Buffer
  OBVIOUS
<1>3. shows1 = IF shows.size \in S
               THEN [shows EXCEPT !.pixels = [r \in Regions |-> Old(shows.pixels[r])]]
               ELSE shows
  BY DEF OldScreen
<1> HIDE DEF bufs1, shows1
<1>4. ASSUME NEW i \in DOMAIN bufs
      PROVE  /\ bufs1[i].size = bufs[i].size /\ bufs1[i].busy = bufs[i].busy
             /\ bufs1[i].base = IF bufs[i].size \in S THEN Old(bufs[i].base)
                                ELSE bufs[i].base
             /\ bufs1[i] \in Buffer
  <2>1. ASSUME NEW b \in Buffer
        PROVE  LET b1 == [b EXCEPT !.base = Old(@)]
               IN  /\ b1.size = b.size /\ b1.busy = b.busy /\ b1.base = Old(b.base)
                   /\ b1 \in Buffer
    BY DEF Buffer, Base, Old
  <2>2. QED
    BY <1>1, <1>2, <2>1
<1>5. CASE Empty(info, bufs, shows)
  <2>1. bufs1 = <<>>
    <3>1. bufs = <<>>
      BY <1>5 DEF Empty
    <3>2. DOMAIN bufs1 = {}
      BY <1>1, <3>1
    <3>3. QED
      BY <1>1, <3>2
  <2>2. shows = Dark /\ Dark.size = None /\ None \notin S
    BY <1>5, PresentAssumption DEF Empty, Dark
  <2>3. shows1 = Dark
    BY <1>3, <2>2
  <2>4. QED
    BY <1>5, <2>1, <2>3 DEF Drawable, Empty, bufs1, shows1
<1>6. CASE InUse(info, bufs, shows)
  <2>1. /\ info.configured /\ \A i \in DOMAIN bufs1 : bufs1[i].size = info.size
        /\ \A i \in DOMAIN bufs : bufs[i].size = info.size
    BY <1>1, <1>4, <1>6 DEF InUse
  <2>2. Among(bufs1, BusyOnes) = Among(bufs, BusyOnes)
    BY <1>1, <1>2, <1>4 DEF Among, BusyOnes
  <2>3. PICK base \in Base, p \in Pictures : Frame(info, bufs, shows, base, p)
    BY <1>6 DEF InUse
  <2> DEFINE base1 == IF info.size \in S THEN Old(base) ELSE base
  <2>4. shows1 = [size |-> info.size, pixels |-> Pixels(base1, p)]
    <3>1. shows = [size |-> info.size, pixels |-> Pixels(base, p)]
      BY <2>3 DEF Frame
    <3>2. CASE info.size \in S
      <4>1. ASSUME NEW r \in Regions
            PROVE  Old(Pixels(base, p)[r]) = Pixels(Old(base), p)[r]
        BY PresentAssumption DEF Pixels, Old, Base
      <4>2. [r \in Regions |-> Old(Pixels(base, p)[r])] = Pixels(Old(base), p)
        BY <4>1 DEF Pixels
      <4> DEFINE px == Pixels(base, p)
                 px1 == Pixels(Old(base), p)
      <4> HIDE DEF px, px1
      <4>3. shows.size = info.size /\ shows.pixels = px
        BY <3>1 DEF px
      <4>4. [r \in Regions |-> Old(px[r])] = px1
        BY <4>2 DEF px, px1
      <4>5. shows1 = [shows EXCEPT !.pixels = px1]
        BY <1>3, <3>2, <4>3, <4>4
      <4>6. shows1 = [size |-> info.size, pixels |-> px1]
        BY <3>1, <4>5 DEF px
      <4>7. QED
        BY <3>2, <4>6 DEF px1
    <3>3. CASE info.size \notin S
      BY <1>3, <3>1, <3>3
    <3>4. QED
      BY <3>2, <3>3
  <2>5. ASSUME NEW i \in DOMAIN bufs1, bufs1[i].base = Target
        PROVE  base1 = Target
    <3>1. /\ bufs[i].base \in Base
          /\ bufs1[i].base = IF info.size \in S THEN Old(bufs[i].base)
                             ELSE bufs[i].base
      BY <1>1, <1>2, <1>4, <2>1 DEF Buffer
    <3>2. bufs[i].base = Target
      BY <2>5, <3>1, OldIs
    <3>3. base = Target
      BY <1>1, <2>3, <3>2 DEF Frame
    <3>4. CASE info.size \in S
      BY <2>5, <3>1, <3>2, <3>3, <3>4
    <3>5. CASE info.size \notin S
      BY <3>3, <3>5
    <3>6. QED
      BY <3>4, <3>5
  <2>6. base1 \in Base /\ p.area = info.indicator
    BY <2>3, OldIs DEF Frame
  <2> HIDE DEF base1
  <2>7. Frame(info, bufs1, shows1, base1, p)
    BY <2>4, <2>5, <2>6 DEF Frame
  <2>8. InUse(info, bufs1, shows1)
    BY <1>1, <1>6, <2>1, <2>2, <2>6, <2>7 DEF InUse
  <2>9. QED
    BY <2>8 DEF Drawable, bufs1, shows1
<1>7. QED
  BY <1>5, <1>6 DEF Drawable

\* What draw() leaves of outputs that are drawable: on every one that has a
\* surface of a known size the wanted frame, or a callback that will draw it.
LEMMA DrawnSeen ==
  ASSUME World = {}, MaxMatching > 1, NEW c, NEW was, StockedClient(c, was),
         ~c.low, NEW fate \in Fates(c),
         \A o \in Outputs : Drawable(c.out[o], c.pool[o], c.screen[o]),
         c.queued \/ ~Waiting(c.out)
  PROVE  SeenClient(Drawn(c, fate))
<1> DEFINE d == Drawn(c, fate)
<1>1. PICK after, taken : FramesOf(c, fate, after, taken, d)
  BY DrawnFrames
<1> HIDE DEF d
<1> DEFINE outs    == [o \in Outputs |-> after[o].out]
           pools   == [o \in Outputs |-> after[o].pool]
           screens == [o \in Outputs |-> after[o].screen]
           owes    == [o \in Outputs |-> after[o].owed]
<1>2. d = Redrawn(WithPlaylists(c, taken), outs, pools, screens, owes)
  BY <1>1 DEF FramesOf
<1>3. Client(c) /\ Settled(c)
  BY DEF StockedClient
<1>4. ASSUME NEW o \in Outputs PROVE FrameOf(c, fate, o, after[o])
  BY <1>1 DEF FramesOf
<1>5. ASSUME NEW o \in Outputs
      PROVE  after[o].out \in OutputInfo /\ after[o].owed \in Nat
  <2>1. DrawnOn(c.out[o], c.owed[o], after[o].out, after[o].owed)
    BY <1>4, FrameStocked
  <2>2. c.out[o] \in OutputInfo /\ c.owed[o] \in Nat
    BY <1>3 DEF Client
  <2>3. QED
    BY <2>1, <2>2, DrawnOnType
<1>6. outs \in [Outputs -> OutputInfo] /\ owes \in [Outputs -> Nat]
  BY <1>5
<1>7. \A o \in Outputs : /\ outs[o] = after[o].out /\ pools[o] = after[o].pool
                         /\ screens[o] = after[o].screen
  OBVIOUS
<1> HIDE DEF outs, pools, screens, owes
<1>8. /\ d.out = outs /\ d.pool = pools /\ d.screen = screens
      /\ d.queued = c.queued /\ d.low = c.low /\ d.picture = c.picture
  BY <1>2, <1>3, <1>6, RedrawnFields
<1>9. ASSUME NEW info PROVE WantedOf(d, info) = WantedOf(c, info)
  BY <1>8 DEF WantedOf, Shown
<1>10. ASSUME NEW o \in Outputs
       PROVE  Kept(d.out[o], d.pool[o], d.screen[o]) /\ UpToDate(d, o)
  <2> DEFINE f == after[o]
  <2>1. /\ f.out.configured = c.out[o].configured
        /\ Kept(f.out, f.pool, f.screen)
        /\ Ready(c.out[o]) => f.screen = WantedOf(c, f.out)
        /\ ~Ready(c.out[o]) => f.out = c.out[o] /\ f.screen = c.screen[o]
    BY <1>4, FrameSeen
  <2>2. d.out[o] = f.out /\ d.pool[o] = f.pool /\ d.screen[o] = f.screen
    BY <1>7, <1>8
  <2> HIDE DEF f
  <2>3. ASSUME d.out[o].configured, d.screen[o] # WantedOf(d, d.out[o])
        PROVE  d.out[o].pending /\ d.queued
    <3>1. ~Ready(c.out[o])
      BY <1>9, <2>1, <2>2, <2>3
    <3>2. c.out[o].configured /\ c.out[o].pending
      BY <2>1, <2>2, <2>3, <3>1 DEF Ready
    <3>3. Waiting(c.out)
      BY <3>2 DEF Waiting
    <3>4. QED
      BY <1>8, <2>1, <2>2, <3>1, <3>2, <3>3
  <2>4. QED
    BY <2>1, <2>2, <2>3 DEF UpToDate
<1>11. QED
  BY <1>8, <1>10 DEF SeenClient, d

LEMMA DrawSeen ==
  ASSUME World = {}, MaxMatching > 1, NEW c, NEW was, StockedClient(c, was),
         ~c.low, \A o \in Outputs : Drawable(c.out[o], c.pool[o], c.screen[o]),
         NEW d \in Draw(c)
  PROVE  SeenClient(d)
<1> DEFINE waits == c.queued \/ Waiting(c.out)
           asked == [c EXCEPT !.queued = waits]
<1>1. waits \in BOOLEAN
  BY DEF StockedClient, Settled, Waiting
<1>2. /\ Client(asked) /\ asked.out = c.out /\ asked.owed = c.owed
      /\ asked.pool = c.pool /\ asked.screen = c.screen
      /\ asked.queued = waits /\ asked.low = c.low /\ asked.wake = c.wake
      /\ asked.playing = c.playing
  BY DEF StockedClient, Client, Fields
<1>3. \/ ReadyOutputs(c) = {} /\ d = asked
      \/ \E a \in Advanced(asked) : \E f \in Fates(a) : d = Drawn(a, f)
  BY DEF Draw
<1>4. Waiting(c.out) => waits
  OBVIOUS
<1> HIDE DEF asked, waits
<1>5. StockedClient(asked, was)
  BY <1>1, <1>2 DEF StockedClient, Settled
<1>6. CASE ReadyOutputs(c) = {} /\ d = asked
  <2>1. ASSUME NEW o \in Outputs
        PROVE  Kept(d.out[o], d.pool[o], d.screen[o]) /\ UpToDate(d, o)
    <3>1. ~Ready(c.out[o])
      BY <1>6 DEF ReadyOutputs
    <3>2. d.out[o] = c.out[o] /\ d.pool[o] = c.pool[o] /\ d.screen[o] = c.screen[o]
      BY <1>2, <1>6
    <3>3. Kept(c.out[o], c.pool[o], c.screen[o])
      BY <3>1 DEF Kept, Drawable, Empty, Ready
    <3>4. c.out[o].configured => c.out[o].pending /\ d.queued
      BY <1>2, <1>4, <1>6, <3>1 DEF Ready, Waiting
    <3>5. QED
      BY <3>2, <3>3, <3>4 DEF UpToDate
  <2>2. QED
    BY <1>2, <1>6, <2>1 DEF SeenClient
<1>7. CASE \E a \in Advanced(asked) : \E f \in Fates(a) : d = Drawn(a, f)
  <2>1. PICK a \in Advanced(asked) : \E f \in Fates(a) : d = Drawn(a, f)
    BY <1>7
  <2>2. PICK f \in Fates(a) : d = Drawn(a, f)
    BY <2>1
  <2>3. a = asked \/ \E S \in SUBSET Sizes : a = Aged(asked, S)
    BY <1>5, <2>1 DEF Advanced, StockedClient, Settled
  <2>4. /\ StockedClient(a, was) /\ ~a.low /\ a.queued = asked.queued
        /\ a.out = asked.out
        /\ \A o \in Outputs : Drawable(a.out[o], a.pool[o], a.screen[o])
    <3>1. CASE a = asked
      BY <1>2, <1>5, <3>1
    <3>2. CASE \E S \in SUBSET Sizes : a = Aged(asked, S)
      <4>1. PICK S \in SUBSET Sizes : a = Aged(asked, S)
        BY <3>2
      <4>2. StockedClient(a, was)
        BY <1>5, <4>1, AgedStocked
      <4>3. /\ a.out = c.out
            /\ a.pool = [o \in Outputs |-> OldBuffers(c.pool[o], S)]
            /\ a.screen = [o \in Outputs |-> OldScreen(c.screen[o], S)]
            /\ a.queued = asked.queued /\ a.low = c.low
        BY <1>2, <4>1, AgedFields
      <4>4. ASSUME NEW o \in Outputs
            PROVE  Drawable(a.out[o], a.pool[o], a.screen[o])
        <5>1. /\ c.out[o] \in OutputInfo /\ c.pool[o] \in Seq(Buffer)
              /\ c.screen[o] \in Screen
          BY DEF StockedClient, StockedAll, StockedOn
        <5>2. /\ a.out[o] = c.out[o] /\ a.pool[o] = OldBuffers(c.pool[o], S)
              /\ a.screen[o] = OldScreen(c.screen[o], S)
          BY <4>3
        <5>3. QED
          BY <5>1, <5>2, AgedDrawable
      <4>5. QED
        BY <1>2, <4>2, <4>3, <4>4
    <3>3. QED
      BY <2>3, <3>1, <3>2
  <2>5. a.queued \/ ~Waiting(a.out)
    BY <1>2, <1>4, <2>4
  <2>6. QED
    BY <2>2, <2>4, <2>5, DrawnSeen
<1>8. QED
  BY <1>3, <1>6, <1>7

\* Playlists that are dropped are those of no output.
LEMMA PrunedSame ==
  ASSUME NEW c, NEW was, StockedClient(c, was),
         \A o \in Outputs : Drawable(c.out[o], c.pool[o], c.screen[o]),
         \A o \in Outputs : Empty(c.out[o], c.pool[o], c.screen[o])
                              \/ c.out[o].configured
  PROVE  LET d == Pruned(c)
         IN  /\ d.out = c.out /\ d.pool = c.pool /\ d.screen = c.screen
             /\ d.queued = c.queued /\ d.wake = c.wake /\ d.low = c.low
             /\ d.picture = c.picture
<1> DEFINE dropped == {s \in c.playing :
              \A o \in Outputs : c.out[o].configured => c.out[o].size # s}
           a == Aged(c, dropped)
           d == Pruned(c)
<1>1. d = [a EXCEPT !.playing = @ \ dropped]
  BY DEF Pruned
<1>2. /\ None \notin dropped
      /\ \A o \in Outputs : c.out[o].configured => c.out[o].size \notin dropped
  BY PresentAssumption DEF StockedClient, Settled
<1> HIDE DEF dropped
<1>3. /\ Client(a) /\ a.out = c.out
      /\ a.pool = [o \in Outputs |-> OldBuffers(c.pool[o], dropped)]
      /\ a.screen = [o \in Outputs |-> OldScreen(c.screen[o], dropped)]
      /\ a.queued = c.queued /\ a.low = c.low
      /\ a.wake = c.wake /\ a.picture = c.picture
  <2>1. Client(c)
    BY DEF StockedClient
  <2>2. QED
    BY <2>1, AgedFields
<1> HIDE DEF a
<1>4. ASSUME NEW o \in Outputs
      PROVE  /\ OldBuffers(c.pool[o], dropped) = c.pool[o]
             /\ OldScreen(c.screen[o], dropped) = c.screen[o]
  <2> DEFINE bufs == c.pool[o]
             shows == c.screen[o]
             info == c.out[o]
  <2>1. bufs \in Seq(Buffer) /\ Drawable(info, bufs, shows)
        /\ (Empty(info, bufs, shows) \/ info.configured)
    BY DEF StockedClient, StockedAll, StockedOn
  <2>2. info.configured => info.size \notin dropped
    BY <1>2
  <2> HIDE DEF bufs, shows, info
  <2>3. \A i \in DOMAIN bufs : bufs[i].size \notin dropped
    BY <2>1, <2>2 DEF Drawable, Empty, InUse
  <2>4. shows.size \notin dropped
    BY <1>2, <2>1, <2>2 DEF Drawable, Empty, InUse, Frame, Dark
  <2>5. OldBuffers(bufs, dropped) = [i \in DOMAIN bufs |-> bufs[i]]
    BY <2>3 DEF OldBuffers
  <2>6. OldBuffers(bufs, dropped) = bufs
    BY <2>1, <2>5
  <2>7. OldScreen(shows, dropped) = shows
    BY <2>4 DEF OldScreen
  <2>8. QED
    BY <2>6, <2>7 DEF bufs, shows
<1>5. a.pool = c.pool /\ a.screen = c.screen
  <2>1. /\ c.pool = [o \in Outputs |-> c.pool[o]]
        /\ c.screen = [o \in Outputs |-> c.screen[o]]
    BY DEF StockedClient
  <2>2. /\ a.pool = [o \in Outputs |-> c.pool[o]]
        /\ a.screen = [o \in Outputs |-> c.screen[o]]
    BY <1>3, <1>4
  <2>3. QED
    BY <2>1, <2>2, Zenon
<1>6. /\ d.out = a.out /\ d.pool = a.pool /\ d.screen = a.screen
      /\ d.queued = a.queued /\ d.wake = a.wake /\ d.low = a.low
      /\ d.picture = a.picture
  BY <1>1, <1>3 DEF Client, Fields
<1> HIDE DEF d
<1>7. QED
  BY <1>3, <1>5, <1>6 DEF d

\* What the handlers keep: the above of the client, and no surface without a lock.
NInv ==
  /\ SeenClient(Now)
  /\ \A o \in Outputs : out[o].surface => locked

\* Configured outputs are not empty, unless one has just been configured.
LEMMA KeptIs ==
  ASSUME NEW c, \A o \in Outputs : Kept(c.out[o], c.pool[o], c.screen[o])
  PROVE  /\ \A o \in Outputs : Drawable(c.out[o], c.pool[o], c.screen[o])
         /\ \A o \in Outputs : \/ Empty(c.out[o], c.pool[o], c.screen[o])
                               \/ c.out[o].configured
BY DEF Kept, Drawable, InUse

LEMMA LeavesSeen ==
  ASSUME NEW d, Client(d), Becomes(d), SeenClient(d), locked' = locked,
         \A o \in Outputs : d.out[o].surface => locked
  PROVE  NInv'
BY DEF NInv, SeenClient, UpToDate, WantedOf, Shown, Now, Becomes

LEMMA LeavesSeenDrawn ==
  ASSUME World = {}, MaxMatching > 1, NEW c, NEW was, StockedClient(c, was),
         ~c.low, \A o \in Outputs : Drawable(c.out[o], c.pool[o], c.screen[o]),
         \A o \in Outputs : c.out[o].surface => locked,
         NEW d \in Draw(c), Becomes(d), locked' = locked
  PROVE  NInv'
<1>1. SeenClient(d)
  BY DrawSeen
<1>2. Client(c) /\ DrawsOn(c, d) /\ Client(d)
  BY DrawClient DEF StockedClient, DrawsOn
<1>3. ASSUME NEW o \in Outputs PROVE d.out[o].surface = c.out[o].surface
  <2>1. c.out[o] \in OutputInfo
    BY <1>2 DEF Client
  <2>2. DrawnOn(c.out[o], c.owed[o], d.out[o], d.owed[o])
    BY <1>2 DEF DrawsOn
  <2>3. QED
    BY <2>1, <2>2 DEF DrawnOn, Framed, OutputInfo
<1>4. QED
  BY <1>1, <1>2, <1>3, LeavesSeen

LEMMA NInit == Init => NInv
<1> SUFFICES ASSUME Init PROVE NInv
  OBVIOUS
<1>1. PICK there \in SUBSET Outputs :
        out = [o \in Outputs |-> IF o \in there
                                 THEN [Unbound EXCEPT !.state = "plugged"]
                                 ELSE Unbound]
  BY DEF Init
<1>2. ASSUME NEW o \in Outputs
      PROVE  ~out[o].configured /\ ~out[o].pending /\ ~out[o].surface
  <2>1. /\ ~Unbound.configured /\ ~Unbound.pending /\ ~Unbound.surface
        /\ ~[Unbound EXCEPT !.state = "plugged"].configured
        /\ ~[Unbound EXCEPT !.state = "plugged"].pending
        /\ ~[Unbound EXCEPT !.state = "plugged"].surface
    BY DEF Unbound
  <2>2. out[o] = Unbound \/ out[o] = [Unbound EXCEPT !.state = "plugged"]
    BY <1>1
  <2> DEFINE plugged == [Unbound EXCEPT !.state = "plugged"]
  <2> HIDE DEF plugged
  <2>3. QED
    BY <2>1, <2>2, Zenon DEF plugged
<1>3. ASSUME NEW o \in Outputs
      PROVE  Kept(out[o], pool[o], screen[o]) /\ UpToDate(Now, o)
  <2>1. pool[o] = <<>> /\ screen[o] = Dark
    BY DEF Init
  <2>2. QED
    BY <1>2, <2>1, NowFields DEF Kept, Drawable, Empty, UpToDate
<1>4. ~low
  BY DEF Init
<1>5. QED
  BY <1>2, <1>3, <1>4, NowFields DEF NInv, SeenClient

\* Unconfigured outputs that get or lose a surface, or come.
LEMMA InfoSeen ==
  ASSUME NInv, NEW d, d.pool = pool, d.screen = screen, d.low = low,
         d.queued = queued, d.wake = wake, d.picture = picture,
         \A o \in Outputs :
           \/ d.out[o] = out[o]
           \/ /\ ~out[o].configured
              /\ d.out[o].configured = out[o].configured
              /\ d.out[o].pending = out[o].pending
  PROVE  SeenClient(d)
<1>1. ~low /\ \A o \in Outputs :
                Kept(out[o], pool[o], screen[o]) /\ UpToDate(Now, o)
  BY NowFields DEF NInv, SeenClient
<1>2. ASSUME NEW o \in Outputs, d.out[o] = out[o]
      PROVE  Kept(d.out[o], d.pool[o], d.screen[o]) /\ UpToDate(d, o)
  BY <1>1, <1>2, NowFields DEF UpToDate, WantedOf, Shown
<1>3. ASSUME NEW o \in Outputs, ~out[o].configured,
             d.out[o].configured = out[o].configured,
             d.out[o].pending = out[o].pending
      PROVE  Kept(d.out[o], d.pool[o], d.screen[o]) /\ UpToDate(d, o)
  BY <1>1, <1>3 DEF UpToDate, Kept, Drawable, InUse, Empty
<1>4. QED
  BY <1>1, <1>2, <1>3 DEF SeenClient

LEMMA PlugSeen ==
  ASSUME NInv, SInv, PInv, NEW o \in Outputs, Plug(o) PROVE NInv'
<1> DEFINE plain == [out[o] EXCEPT !.state = "plugged"]
           info  == IF locked THEN WithSurface(plain) ELSE plain
           d     == [Now EXCEPT !.out = [out EXCEPT ![o] = info]]
<1>1. /\ Client(Now) /\ out[o] \in OutputInfo /\ out \in [Outputs -> OutputInfo]
      /\ Sound(out[o], owed[o], locked)
  BY NowFields DEF PInv, SoundClient, Client
<1>2. /\ info \in OutputInfo /\ info.configured = out[o].configured
      /\ info.pending = out[o].pending
      /\ info.surface => locked \/ out[o].surface
  BY <1>1 DEF WithSurface, OutputInfo
<1>3. Becomes(d) /\ out[o].state = "new" /\ locked' = locked
  BY NowFields DEF Plug
<1>4. ~out[o].configured
  BY <1>1, <1>3 DEF Sound
<1> HIDE DEF info
<1>5. /\ Client(d) /\ d.pool = pool /\ d.screen = screen /\ d.low = low
      /\ d.queued = queued /\ d.wake = wake /\ d.picture = picture
      /\ d.out = [out EXCEPT ![o] = info]
  BY <1>1, <1>2, NowFields DEF Client, Fields
<1> HIDE DEF d
<1>6. \A p \in Outputs : d.out[p] = IF p = o THEN info ELSE out[p]
  BY <1>1, <1>5
<1>7. SeenClient(d)
  BY <1>2, <1>4, <1>5, <1>6, InfoSeen
<1>8. \A p \in Outputs : d.out[p].surface => locked
  BY <1>2, <1>6 DEF NInv
<1>9. QED
  BY <1>3, <1>5, <1>7, <1>8, LeavesSeen

LEMMA LockedSeen == ASSUME NInv, SInv, PInv, Locked PROVE NInv'
<1> DEFINE outs == [o \in Outputs |->
                      IF out[o].state = "plugged" THEN WithSurface(out[o])
                      ELSE out[o]]
           d    == [Now EXCEPT !.out = outs]
<1>1. ~locked /\ locked' = TRUE /\ Becomes(d)
  BY NowFields DEF Locked
<1>2. Client(Now) /\ \A o \in Outputs : Sound(out[o], owed[o], locked)
  BY NowFields DEF PInv, SoundClient
<1>3. ASSUME NEW o \in Outputs
      PROVE  /\ ~out[o].configured /\ outs[o].configured = out[o].configured
             /\ outs[o].pending = out[o].pending
  <2>1. out[o] \in OutputInfo /\ ~out[o].configured
    BY <1>1, <1>2, NowFields DEF Client, NInv, Sound
  <2>2. /\ WithSurface(out[o]).configured = out[o].configured
        /\ WithSurface(out[o]).pending = out[o].pending
    BY <2>1 DEF WithSurface, OutputInfo
  <2>3. QED
    BY <2>1, <2>2
<1> HIDE DEF outs
<1>4. /\ d.pool = pool /\ d.screen = screen /\ d.low = low
      /\ d.queued = queued /\ d.wake = wake /\ d.picture = picture
      /\ d.out = outs
  BY <1>1, NowFields DEF Now
<1> HIDE DEF d
<1>5. SeenClient(d)
  BY <1>3, <1>4, InfoSeen
<1>6. QED
  BY <1>1, <1>5 DEF NInv, SeenClient, UpToDate, WantedOf, Shown, Now, Becomes

\* Pruning changes none of what the invariant is about.
LEMMA PrunedSeen ==
  ASSUME NEW c, NEW was, StockedClient(c, was), SeenClient(c)
  PROVE  SeenClient(Pruned(c))
<1> DEFINE d == Pruned(c)
<1>1. /\ d.out = c.out /\ d.pool = c.pool /\ d.screen = c.screen
      /\ d.queued = c.queued /\ d.wake = c.wake /\ d.low = c.low
      /\ d.picture = c.picture
  <2>1. /\ \A o \in Outputs : Drawable(c.out[o], c.pool[o], c.screen[o])
        /\ \A o \in Outputs : \/ Empty(c.out[o], c.pool[o], c.screen[o])
                              \/ c.out[o].configured
    BY KeptIs DEF SeenClient
  <2>2. QED
    BY <2>1, PrunedSame
<1> HIDE DEF d
<1>2. QED
  BY <1>1 DEF SeenClient, UpToDate, WantedOf, Shown, d

LEMMA UnplugSeen ==
  ASSUME NInv, SInv, NEW o \in Outputs, Unplug(o) PROVE NInv'
<1> DEFINE d == Unplugged(o)
           info == [Unbound EXCEPT !.state = "gone"]
<1>1. Becomes(Pruned(d)) /\ locked' = locked
  BY NowFields DEF Unplug, Unplugged
<1>2. /\ StockedClient(d, pool)
      /\ d.out = [out EXCEPT ![o] = info]
      /\ d.pool = [pool EXCEPT ![o] = <<>>]
      /\ d.screen = [screen EXCEPT ![o] = Dark]
      /\ d.queued = queued /\ d.wake = wake /\ d.low = low
      /\ d.picture = picture
  BY UnpluggedClient
<1>3. ~info.configured /\ ~info.pending /\ ~info.surface
  BY DEF Unbound
<1>4. DOMAIN out = Outputs /\ DOMAIN pool = Outputs /\ DOMAIN screen = Outputs
  BY NowFields DEF SInv, StockedClient, StockedAll
<1> HIDE DEF d, info
<1>5. /\ d.out[o] = info /\ d.pool[o] = <<>> /\ d.screen[o] = Dark
      /\ \A p \in Outputs : p # o => /\ d.out[p] = out[p] /\ d.pool[p] = pool[p]
                                     /\ d.screen[p] = screen[p]
  BY <1>2, <1>4
<1>6. Kept(d.out[o], d.pool[o], d.screen[o]) /\ UpToDate(d, o)
  BY <1>3, <1>5 DEF Kept, Drawable, Empty, UpToDate
<1>7. ASSUME NEW p \in Outputs, p # o
      PROVE  Kept(d.out[p], d.pool[p], d.screen[p]) /\ UpToDate(d, p)
  <2>1. Kept(out[p], pool[p], screen[p]) /\ UpToDate(Now, p)
    BY NowFields DEF NInv, SeenClient
  <2>2. d.out[p] = out[p] /\ d.pool[p] = pool[p] /\ d.screen[p] = screen[p]
    BY <1>5, <1>7
  <2>3. QED
    BY <1>2, <2>1, <2>2, NowFields DEF UpToDate, WantedOf, Shown
<1>8. SeenClient(d)
  BY <1>2, <1>6, <1>7, NowFields DEF SeenClient, NInv
<1>9. \A p \in Outputs : d.out[p].surface => locked
  BY <1>3, <1>5 DEF NInv
<1>10. Client(Pruned(d)) /\ Pruned(d).out = d.out
  <2>1. StockedClient(Pruned(d), pool)
    BY <1>2, PrunedStocked
  <2>2. /\ \A p \in Outputs : Drawable(d.out[p], d.pool[p], d.screen[p])
        /\ \A p \in Outputs : \/ Empty(d.out[p], d.pool[p], d.screen[p])
                              \/ d.out[p].configured
    BY <1>8, KeptIs DEF SeenClient
  <2>3. QED
    BY <1>2, <2>1, <2>2, PrunedSame DEF StockedClient
<1>11. QED
  BY <1>1, <1>2, <1>8, <1>9, <1>10, PrunedSeen, LeavesSeen

LEMMA ConfigureSeen ==
  ASSUME World = {}, MaxMatching > 1, NInv, SInv, PInv, NEW o \in Outputs,
         NEW size \in Sizes, Configure(o, size)
  PROVE  NInv'
<1> DEFINE d == Resized(o, size)
           info == Reconfigured(out[o], size)
<1>1. PICK c \in Draw(Pruned(d)) : Becomes(c)
  BY NowFields DEF Configure, Resized
<1>2. /\ StockedClient(d, pool)
      /\ d.out = [out EXCEPT ![o] = info]
      /\ d.pool = pool /\ d.screen = screen
      /\ d.queued = queued /\ d.wake = wake /\ d.low = low
      /\ d.picture = picture
  BY ResizedClient
<1>3. out \in [Outputs -> OutputInfo]
  BY NowIs DEF PInv, SoundClient, Client
<1>4. /\ info.configured /\ ~info.pending /\ info.surface = out[o].surface
      /\ ~out[o].configured /\ out[o].surface /\ locked' = locked
  <2>1. out[o] \in OutputInfo
    BY <1>3
  <2>2. QED
    BY <2>1 DEF Reconfigured, OutputInfo, Configure
<1> HIDE DEF d, info
<1>5. \A p \in Outputs : d.out[p] = IF p = o THEN info ELSE out[p]
  BY <1>2, <1>3
<1>6. ~low /\ \A p \in Outputs : Kept(out[p], pool[p], screen[p])
  BY NowFields DEF NInv, SeenClient
<1>7. Empty(d.out[o], d.pool[o], d.screen[o]) /\ d.out[o].configured
  BY <1>2, <1>4, <1>5, <1>6 DEF Kept, Drawable, InUse, Empty
<1>8. ASSUME NEW p \in Outputs
      PROVE  /\ Drawable(d.out[p], d.pool[p], d.screen[p])
             /\ Empty(d.out[p], d.pool[p], d.screen[p]) \/ d.out[p].configured
  <2>1. CASE p = o
    BY <1>7, <2>1 DEF Drawable
  <2>2. CASE p # o
    <3>1. d.out[p] = out[p] /\ d.pool[p] = pool[p] /\ d.screen[p] = screen[p]
      BY <1>2, <1>5, <2>2
    <3>2. QED
      BY <1>6, <3>1 DEF Kept, Drawable, InUse
  <2>3. QED
    BY <2>1, <2>2
<1> DEFINE e == Pruned(d)
<1>9. /\ e.out = d.out /\ e.pool = d.pool /\ e.screen = d.screen /\ e.low = d.low
  BY <1>2, <1>8, PrunedSame
<1>10. StockedClient(e, pool)
  BY <1>2, PrunedStocked
<1> HIDE DEF e
<1>11. \A p \in Outputs : Drawable(e.out[p], e.pool[p], e.screen[p])
  BY <1>8, <1>9
<1>12. \A p \in Outputs : e.out[p].surface => locked
  BY <1>4, <1>5, <1>9 DEF NInv
<1>13. ~e.low /\ c \in Draw(e)
  BY <1>1, <1>2, <1>6, <1>9 DEF e
<1>14. QED
  BY <1>1, <1>4, <1>10, <1>11, <1>12, <1>13, LeavesSeenDrawn

LEMMA FrameDoneSeen ==
  ASSUME World = {}, MaxMatching > 1, NInv, SInv, PInv, NEW o \in Outputs,
         FrameDone(o)
  PROVE  NInv'
<1> DEFINE c == CalledBack(o)
           q == Unasked(c)
           info == [out[o] EXCEPT !.pending = FALSE]
<1>1. IF CallbackDraws THEN \E d \in Draw(q) : Becomes(d) ELSE Becomes(c)
  BY NowFields DEF FrameDone, CalledBack, Unasked
<1>2. /\ StockedClient(c, pool) /\ StockedClient(q, pool)
      /\ c.out = [out EXCEPT ![o] = info]
      /\ c.pool = pool /\ c.screen = screen /\ c.queued = queued
      /\ c.wake = wake /\ c.low = low /\ c.picture = picture
      /\ q.out = c.out /\ q.pool = c.pool /\ q.screen = c.screen /\ q.low = c.low
  BY CalledBackClient
<1>3. out \in [Outputs -> OutputInfo] /\ pool[o] \in Seq(Buffer)
  BY NowFields DEF PInv, SoundClient, Client, SInv, StockedClient, StockedAll,
                   StockedOn
<1>4. /\ ~info.pending /\ info.configured = out[o].configured
      /\ info.surface = out[o].surface /\ info.size = out[o].size
      /\ info.indicator = out[o].indicator
  <2>1. out[o] \in OutputInfo
    BY <1>3
  <2>2. QED
    BY <2>1 DEF OutputInfo
<1>5. locked' = locked /\ Cardinality(Among(pool[o], BusyOnes)) <= 1
  <2>1. Busy(o) = Among(pool[o], BusyOnes)
    BY <1>3 DEF Busy, Among, BusyOnes
  <2>2. QED
    BY <2>1 DEF FrameDone
<1> HIDE DEF c, q, info
<1>6. \A p \in Outputs : c.out[p] = IF p = o THEN info ELSE out[p]
  BY <1>2, <1>3
<1>7. ~low /\ \A p \in Outputs :
                Kept(out[p], pool[p], screen[p]) /\ UpToDate(Now, p)
  BY NowFields DEF NInv, SeenClient
<1>8. ASSUME NEW p \in Outputs
      PROVE  Kept(c.out[p], c.pool[p], c.screen[p])
  <2>1. CASE p # o
    BY <1>2, <1>6, <1>7, <2>1
  <2>2. CASE p = o
    <3>1. CASE Empty(out[o], pool[o], screen[o])
      BY <1>2, <1>4, <1>6, <1>7, <2>2, <3>1 DEF Kept, Drawable, Empty
    <3>2. CASE InUse(out[o], pool[o], screen[o])
      <4>1. PICK base \in Base, pic \in Pictures :
              Frame(out[o], pool[o], screen[o], base, pic)
        BY <3>2 DEF InUse
      <4>2. Frame(info, pool[o], screen[o], base, pic)
        BY <1>4, <4>1 DEF Frame
      <4>3. InUse(info, pool[o], screen[o])
        BY <1>4, <1>5, <3>2, <4>2 DEF InUse
      <4>4. ~Empty(info, pool[o], screen[o])
        <5>1. out[o].size # None
          BY <3>2, NowFields DEF InUse, SInv, StockedClient, StockedAll, StockedOn
        <5>2. QED
          BY <1>4, <4>2, <5>1 DEF Empty, Frame, Dark
      <4>5. QED
        BY <1>2, <1>6, <2>2, <4>3, <4>4 DEF Kept, Drawable
    <3>3. QED
      BY <1>7, <3>1, <3>2 DEF Kept, Drawable
  <2>3. QED
    BY <2>1, <2>2
<1>9. \A p \in Outputs : c.out[p].surface => locked
  BY <1>4, <1>6 DEF NInv
<1>10. CASE CallbackDraws
  <2>1. PICK d \in Draw(q) : Becomes(d)
    BY <1>1, <1>10
  <2>2. \A p \in Outputs : Drawable(q.out[p], q.pool[p], q.screen[p])
    BY <1>2, <1>8 DEF Kept
  <2>3. ~q.low /\ \A p \in Outputs : q.out[p].surface => locked
    BY <1>2, <1>7, <1>9
  <2>4. QED
    BY <1>2, <1>5, <2>1, <2>2, <2>3, LeavesSeenDrawn
<1>11. CASE ~CallbackDraws
  <2>1. ASSUME NEW p \in Outputs PROVE UpToDate(c, p)
    <3>1. out[p].configured => screen[p] = WantedOf(Now, out[p])
      BY <1>7, <1>11, NowFields DEF UpToDate, CallbackDraws
    <3>2. /\ c.out[p].configured = out[p].configured
          /\ c.out[p].size = out[p].size
      BY <1>4, <1>6
    <3>3. WantedOf(c, c.out[p]) = WantedOf(Now, out[p])
      BY <1>2, <3>2, NowFields DEF WantedOf, Shown
    <3>4. QED
      BY <1>2, <3>1, <3>2, <3>3 DEF UpToDate
  <2>2. SeenClient(c)
    BY <1>2, <1>7, <1>8, <2>1 DEF SeenClient
  <2>3. Becomes(c) /\ Client(c)
    BY <1>1, <1>2, <1>11 DEF StockedClient
  <2>4. QED
    BY <1>5, <1>9, <2>2, <2>3, LeavesSeen
<1>12. QED
  BY <1>10, <1>11

LEMMA ReleaseSeen ==
  ASSUME NInv, SInv, NEW o \in Outputs, Release(o) PROVE NInv'
<1>1. PICK i \in Busy(o) :
        Becomes([Now EXCEPT
          !.pool[o] = With(@, i, [pool[o][i] EXCEPT !.busy = FALSE])])
  BY DEF Release
<1> DEFINE b     == [pool[o][i] EXCEPT !.busy = FALSE]
           bufs  == With(pool[o], i, b)
           pools == [pool EXCEPT ![o] = bufs]
           d     == [Now EXCEPT !.pool = pools]
<1>2. Becomes(d) /\ locked' = locked
  BY <1>1, NowFields DEF Release
<1>3. /\ StockedClient(Now, pool) /\ Client(Now) /\ pool[o] \in Seq(Buffer)
      /\ DOMAIN pool = Outputs
  BY NowFields DEF SInv, StockedClient, StockedAll, StockedOn
<1>4. /\ Len(pool[o]) \in Nat /\ DOMAIN pool[o] = 1 .. Len(pool[o])
      /\ \A j \in 1 .. Len(pool[o]) : pool[o][j] \in Buffer
      /\ i \in 1 .. Len(pool[o])
  BY <1>3 DEF Busy
<1>5. /\ b \in Buffer /\ b.size = pool[o][i].size /\ b.base = pool[o][i].base
      /\ ~b.busy
  BY <1>4 DEF Buffer
<1> HIDE DEF b
<1>6. bufs = [j \in 1 .. Len(pool[o]) |-> IF j = i THEN b ELSE pool[o][j]]
  BY <1>4 DEF With
<1> HIDE DEF bufs
<1>7. /\ bufs \in Seq(Buffer) /\ DOMAIN bufs = DOMAIN pool[o]
      /\ \A j \in DOMAIN pool[o] : /\ bufs[j].size = pool[o][j].size
                                   /\ bufs[j].base = pool[o][j].base
                                   /\ bufs[j].busy => pool[o][j].busy
  <2>1. bufs \in [1 .. Len(pool[o]) -> Buffer]
    BY <1>4, <1>5, <1>6
  <2>2. QED
    BY <1>4, <1>5, <1>6, <2>1
<1>8. Cardinality(Among(bufs, BusyOnes)) <= Cardinality(Among(pool[o], BusyOnes))
  <2>1. Among(bufs, BusyOnes) \subseteq Among(pool[o], BusyOnes)
    BY <1>4, <1>7 DEF Among, BusyOnes
  <2>2. QED
    BY <1>3, <2>1, AmongIs, FS_Subset
<1>9. pools[o] = bufs /\ \A p \in Outputs : p # o => pools[p] = pool[p]
  BY <1>3
<1> HIDE DEF pools
<1>10. /\ Client(d) /\ d.out = out /\ d.pool = pools /\ d.screen = screen
       /\ d.queued = queued /\ d.wake = wake /\ d.low = low
       /\ d.picture = picture
  BY <1>3, NowFields DEF Client, Fields
<1> HIDE DEF d
<1>11. ~low /\ \A p \in Outputs :
                 Kept(out[p], pool[p], screen[p]) /\ UpToDate(Now, p)
  BY NowFields DEF NInv, SeenClient
<1>12. ASSUME NEW p \in Outputs PROVE Kept(out[p], pools[p], screen[p])
  <2>1. CASE p # o
    BY <1>9, <1>11, <2>1
  <2>2. CASE p = o
    <3>1. ~Empty(out[o], pool[o], screen[o]) /\ pool[o] # <<>>
      BY <1>4 DEF Empty
    <3>2. InUse(out[o], pool[o], screen[o])
      BY <1>11, <3>1 DEF Kept, Drawable
    <3>3. PICK base \in Base, q \in Pictures :
            Frame(out[o], pool[o], screen[o], base, q)
      BY <3>2 DEF InUse
    <3>4. Frame(out[o], bufs, screen[o], base, q)
      BY <1>7, <3>3 DEF Frame
    <3>5. ~out[o].pending => Cardinality(Among(bufs, BusyOnes)) <= 1
      <4>1. /\ Cardinality(Among(bufs, BusyOnes)) \in Nat
            /\ Cardinality(Among(pool[o], BusyOnes)) \in Nat
        BY <1>3, <1>7, AmongIs
      <4>2. QED
        BY <1>8, <3>2, <4>1 DEF InUse
    <3>6. InUse(out[o], bufs, screen[o])
      BY <1>7, <3>2, <3>4, <3>5 DEF InUse
    <3>7. bufs # <<>>
      BY <1>4, <1>7
    <3>8. QED
      BY <1>9, <2>2, <3>6, <3>7 DEF Kept, Drawable, Empty
  <2>3. QED
    BY <2>1, <2>2
<1>13. SeenClient(d)
  BY <1>10, <1>11, <1>12, NowFields DEF SeenClient, UpToDate, WantedOf, Shown
<1>14. QED
  BY <1>2, <1>10, <1>13, LeavesSeen DEF NInv

LEMMA OtherSeen ==
  ASSUME World = {}, MaxMatching > 1, NInv, SInv,
         AnimationTick \/ FallDue \/ \E p \in Pictures : Change(p)
  PROVE  NInv'
<1>1. /\ StockedClient(Now, pool) /\ Client(Now) /\ Settled(Now) /\ ~low
      /\ \A o \in Outputs : /\ Kept(out[o], pool[o], screen[o])
                            /\ UpToDate(Now, o)
                            /\ out[o].surface => locked
  BY NowFields DEF NInv, SInv, StockedClient, SeenClient
<1>2. ASSUME NEW d, Client(d), Settled(d), d.out = out, d.pool = pool,
             d.screen = screen, d.low = low, locked' = locked,
             \E e \in Draw(d) : Becomes(e)
      PROVE  NInv'
  <2>1. StockedClient(d, pool)
    BY <1>1, <1>2, SameInfos, NowFields
  <2>2. \A o \in Outputs : Drawable(d.out[o], d.pool[o], d.screen[o])
    BY <1>1, <1>2 DEF Kept
  <2>3. QED
    BY <1>1, <1>2, <2>1, <2>2, LeavesSeenDrawn
<1>3. CASE AnimationTick
  <2>1. locked' = locked /\ \E e \in Draw(Now) : Becomes(e)
    BY <1>3 DEF AnimationTick
  <2>2. QED
    BY <1>1, <1>2, <2>1, NowFields
<1>4. ASSUME NEW p \in Pictures, Change(p) PROVE NInv'
  <2> DEFINE d == [Now EXCEPT !.picture = p]
  <2>1. /\ Client(d) /\ Settled(d) /\ d.out = out /\ d.pool = pool
        /\ d.screen = screen /\ d.low = low
    BY <1>1, NowFields DEF Client, Fields, Settled
  <2>2. locked' = locked /\ \E e \in Draw(d) : Becomes(e)
    BY <1>4 DEF Change
  <2> HIDE DEF d
  <2>3. QED
    BY <1>2, <2>1, <2>2
<1>5. CASE FallDue
  <2> DEFINE d == [Now EXCEPT !.wake = "due"]
  <2>1. /\ Client(d) /\ d.out = out /\ d.pool = pool /\ d.screen = screen
        /\ d.low = low /\ d.queued = queued /\ d.wake = "due"
        /\ d.picture = picture
    BY <1>1, NowFields DEF Client, Fields
  <2>2. Becomes(d) /\ locked' = locked
    BY <1>5 DEF FallDue
  <2> HIDE DEF d
  <2>3. SeenClient(d)
    BY <1>1, <2>1, NowFields DEF SeenClient, UpToDate, WantedOf, Shown
  <2>4. QED
    BY <1>1, <2>1, <2>2, <2>3, LeavesSeen
<1>6. QED
  BY <1>3, <1>4, <1>5

LEMMA NNext ==
  ASSUME World = {}, MaxMatching > 1, PInv, SInv, NInv, [Next]_vars
  PROVE  NInv'
<1>1. CASE UNCHANGED vars
  BY <1>1 DEF vars, NInv, SeenClient, UpToDate, WantedOf, Shown, Now
<1>2. ~Battery /\ \A o \in Outputs, s \in Sizes : ~Scale(o, s)
  BY DEF Battery, Scale
<1>3. CASE Next
  BY <1>2, <1>3, LockedSeen, PlugSeen, UnplugSeen, ConfigureSeen, FrameDoneSeen,
     ReleaseSeen, OtherSeen DEF Next
<1>4. QED
  BY <1>1, <1>3

\* Neither partial damage nor pacing ever loses anything: in a session in which no
\* output is resized, the battery does not cross its threshold, buffers are
\* released before the next callback and none fails, an output that does not
\* show what a draw() would has a callback coming that will draw.  With another
\* world it is not so; with one buffer to a surface neither, the code allows
\* three (wayland.rs:51-70, 250-262, 958-980, pool.rs:197-203).
THEOREM NothingMissed ==
  ASSUME World = {}, MaxMatching > 1
  PROVE  Spec => []NothingIsMissed
<1>1. Init => NInv
  BY NInit
<1>2. PInv /\ SInv /\ NInv /\ [Next]_vars => NInv'
  BY NNext
<1>3. NInv => NothingIsMissed
  BY NowFields DEF NInv, SeenClient, UpToDate, WantedOf, NothingIsMissed,
                   Wanted, CallbackDraws
<1>4. QED
  BY <1>1, <1>2, <1>3, BuffersSound, PTL DEF Spec

-----------------------------------------------------------------------------
(* The rectangles behind the regions, in 32-bit integers.                  *)

LEMMA MaxIntNat == MaxInt \in Nat
BY SMT DEF MaxInt

\* In one dimension: what is cut off is what lies outside of the buffer, also
\* where the addition saturates.
LEMMA ClampExact ==
  ASSUME NEW n \in Int32, NEW d \in Int32, NEW high \in 0 .. MaxInt,
         NEW i \in 0 .. high - 1
  PROVE  /\ Clamped(n, high) \in 0 .. high
         /\ Clamped(Saturated(n + d), high) \in 0 .. high
         /\ Clamped(n, high) <= i <=> n <= i
         /\ i < Clamped(Saturated(n + d), high) <=> i < n + d
BY MaxIntNat DEF Clamped, Saturated, Int32

\* What clipped() returns lies in the buffer, and covers a pixel of the buffer
\* exactly if the rectangle it was given does, for any 32-bit position and size
\* (render/mod.rs:23-41).
THEOREM ClipIsExact ==
  ASSUME NEW x \in Int32, NEW y \in Int32, NEW width \in Int32,
         NEW height \in Int32, NEW bw \in 0 .. MaxInt, NEW bh \in 0 .. MaxInt,
         NEW i \in 0 .. bw - 1, NEW j \in 0 .. bh - 1
  PROVE  /\ \A r \in Clipped(x, y, width, height, bw, bh) :
              r \in Rect /\ Inside(r, bw, bh)
         /\ (\E r \in Clipped(x, y, width, height, bw, bh) : Covers(r, i, j))
              <=> x <= i /\ i < x + width /\ y <= j /\ j < y + height
<1> DEFINE x0 == Clamped(x, bw)
           y0 == Clamped(y, bh)
           x1 == Clamped(Saturated(x + width), bw)
           y1 == Clamped(Saturated(y + height), bh)
           r  == [x |-> x0, y |-> y0, width |-> x1 - x0, height |-> y1 - y0]
<1>1. /\ x0 \in 0 .. bw /\ x1 \in 0 .. bw
      /\ (x0 <= i <=> x <= i) /\ (i < x1 <=> i < x + width)
  BY ClampExact
<1>2. /\ y0 \in 0 .. bh /\ y1 \in 0 .. bh
      /\ (y0 <= j <=> y <= j) /\ (j < y1 <=> j < y + height)
  BY ClampExact
<1>3. Clipped(x, y, width, height, bw, bh)
        = IF x1 > x0 /\ y1 > y0 THEN {r} ELSE {}
  BY DEF Clipped
<1> HIDE DEF x0, y0, x1, y1
<1>4. CASE x1 > x0 /\ y1 > y0
  <2>1. Right(r) = x1 /\ Bottom(r) = y1
    BY <1>1, <1>2 DEF Right, Bottom
  <2>2. r \in Rect /\ Inside(r, bw, bh)
    BY <1>1, <1>2, <1>4, <2>1, MaxIntNat DEF Rect, Inside, Int32
  <2>3. Covers(r, i, j) <=> x <= i /\ i < x + width /\ y <= j /\ j < y + height
    BY <1>1, <1>2, <2>1 DEF Covers
  <2>4. QED
    BY <1>3, <1>4, <2>2, <2>3
<1>5. CASE ~(x1 > x0 /\ y1 > y0)
  <2>1. ~(x0 <= i /\ i < x1 /\ y0 <= j /\ j < y1)
    BY <1>1, <1>2, <1>5
  <2>2. QED
    BY <1>1, <1>2, <1>3, <1>5, <2>1
<1>6. QED
  BY <1>4, <1>5

\* The damage that is declared for two areas of a buffer covers both, stays in
\* the buffer, and nothing overflows on the way (render/mod.rs:43-54).
THEOREM UnionCovers ==
  ASSUME NEW bw \in 0 .. MaxInt, NEW bh \in 0 .. MaxInt,
         NEW r \in Rect, NEW s \in Rect, Inside(r, bw, bh), Inside(s, bw, bh)
  PROVE  /\ {Right(r), Bottom(r), Right(s), Bottom(s)} \subseteq Int32
         /\ Union(r, s) \in Rect /\ Inside(Union(r, s), bw, bh)
         /\ \A i \in Int, j \in Int :
              Covers(r, i, j) \/ Covers(s, i, j) => Covers(Union(r, s), i, j)
<1> DEFINE u == Union(r, s)
<1>1. \A q \in {r, s} : /\ q.x \in Int /\ q.y \in Int
                         /\ q.width \in Int /\ q.height \in Int
  BY MaxIntNat DEF Rect, Int32
<1>2. /\ u.x = Smaller(r.x, s.x) /\ u.y = Smaller(r.y, s.y)
      /\ u.width = Larger(Right(r), Right(s)) - u.x
      /\ u.height = Larger(Bottom(r), Bottom(s)) - u.y
  BY DEF Union
<1>3. Right(u) = Larger(Right(r), Right(s)) /\ Bottom(u) = Larger(Bottom(r), Bottom(s))
  BY <1>1, <1>2 DEF Right, Bottom, Larger, Smaller
<1>4. Inside(u, bw, bh)
  BY <1>1, <1>2, <1>3 DEF Inside, Right, Bottom, Larger, Smaller
<1>5. u \in Rect
  <2>1. {u.x, u.y, u.width, u.height} \subseteq Int32
    BY <1>1, <1>2, <1>4, MaxIntNat
       DEF Inside, Right, Bottom, Smaller, Larger, Int32
  <2>2. QED
    BY <2>1 DEF Union, Rect
<1>6. ASSUME NEW i \in Int, NEW j \in Int, Covers(r, i, j) \/ Covers(s, i, j)
      PROVE  Covers(u, i, j)
  BY <1>1, <1>2, <1>3, <1>6 DEF Covers, Right, Bottom, Larger, Smaller
<1>7. {Right(r), Bottom(r), Right(s), Bottom(s)} \subseteq Int32
  BY <1>1, MaxIntNat DEF Inside, Right, Bottom, Int32
<1>8. QED
  BY <1>4, <1>5, <1>6, <1>7
=============================================================================
