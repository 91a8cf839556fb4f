------------------------------ MODULE Present -------------------------------
(***************************************************************************)
(* What the outputs show (draw() and the handlers of wayland.rs, pool.rs,  *)
(* and the damage computed in app.rs): lock surfaces, frame callbacks, the *)
(* buffers each surface rotates through, and the damage declared for them. *)
(*                                                                         *)
(* An area of a surface is a set of regions; a picture is what a draw()    *)
(* now would paint as the indicator, and changes only in a step that calls *)
(* draw().  An animation's frame is "now" until its playlist has a newer   *)
(* one, or is dropped, and "old" then: its identity never comes back.      *)
(* The compositor repaints the regions declared as damaged, and all of a   *)
(* surface whose buffer has another size.                                  *)
(***************************************************************************)
EXTENDS Lists, FiniteSets

CONSTANTS
  Outputs, Sizes, Regions,
  Pictures,      \* [area, look]: the indicator's pictures ...
  NoPicture,     \* ... of which this one is hidden
  Animated,      \* is there an animation behind the indicator?
  World,         \* what the run's environment does, of Happenings
  MaxMatching,   \* MAX_MATCHING of the pool: 3
  MaxOwed,       \* how many callbacks a surface may be owed (a bound)
  None           \* no value

\* The battery's charge crosses the threshold, outputs are resized, the
\* compositor releases a buffer only after the callback of the next frame, and
\* a buffer cannot be made or not be rendered into.
Happenings == {"battery", "resize", "late release", "failure"}

\* What a picture is painted on, and what is not known.
Base == {"solid", "now", "old", "none"}

ASSUME PresentAssumption ==
  /\ \A p \in Pictures : p.area \subseteq Regions /\ p.look \notin Base
  /\ NoPicture \in Pictures /\ NoPicture.area = {} /\ Regions # {}
  /\ Animated \in BOOLEAN /\ World \subseteq Happenings
  /\ MaxMatching \in Nat \ {0} /\ MaxOwed \in Nat \ {0} /\ None \notin Sizes

VARIABLES
  locked,
  out,       \* the OutputInfos
  pool,      \* each output's buffers
  screen,    \* what each output shows
  owed,      \* the frame callbacks the compositor owes each surface
  queued,    \* present_queued
  wake,      \* anim_wake_at
  low,       \* low_power
  playing,   \* the sizes for which there is a playlist
  picture

vars == <<locked, out, pool, screen, owed, queued, wake, low, playing, picture>>

Looks == {p.look : p \in Pictures}

\* last_committed_indicator is a set of regions: none of them for None.
OutputInfo == [state : {"new", "plugged", "gone"}, surface : BOOLEAN,
               configured : BOOLEAN, size : Sizes \cup {None},
               pending : BOOLEAN, indicator : SUBSET Regions]

Buffer == [size : Sizes, busy : BOOLEAN, base : Base, picture : Pictures]

TypeOK ==
  /\ locked \in BOOLEAN /\ queued \in BOOLEAN /\ low \in BOOLEAN
  /\ out \in [Outputs -> OutputInfo]
  /\ \A o \in Outputs : out[o].configured => out[o].surface /\ out[o].size # None
  /\ pool \in [Outputs -> Seq(Buffer)]
  /\ screen \in [Outputs -> [size : Sizes \cup {None},
                             pixels : [Regions -> Base \cup Looks]]]
  /\ owed \in [Outputs -> 0 .. MaxOwed]
  /\ wake \in {"none", "later", "due"}
  /\ playing \in SUBSET Sizes
  /\ picture \in Pictures

-----------------------------------------------------------------------------
(* Buffers.                                                                *)

Blank(size) == [size |-> size, busy |-> FALSE, base |-> "none",
                picture |-> NoPicture]

Matching(bufs, size) == {i \in DOMAIN bufs : bufs[i].size = size}

\* Mutant: a buffer is taken whether or not the compositor still reads it.
FreeOrBusy(bufs, size) == Matching(bufs, size)

Free(bufs, size) == {i \in Matching(bufs, size) : ~bufs[i].busy}

\* Mutant: one buffer too many.
FullBeyond(bufs, size) == Cardinality(Matching(bufs, size)) > MaxMatching

Full(bufs, size) == Cardinality(Matching(bufs, size)) >= MaxMatching

\* get_buffer(): the first free buffer of this size, or a new one; 0 when there
\* are too many already or none can be made.  Making room drops the free buffers
\* of other sizes.
GetBuffer(bufs, size, fails) ==
  LET free == Free(bufs, size)
      kept == Retained(bufs, {i \in DOMAIN bufs :
                                bufs[i].busy \/ bufs[i].size = size})
  IN  CASE free # {} ->
             [bufs |-> bufs, at |-> CHOOSE i \in free : \A j \in free : i <= j]
        [] free = {} /\ (Full(kept, size) \/ fails) -> [bufs |-> kept, at |-> 0]
        [] OTHER ->
             [bufs |-> Append(kept, Blank(size)), at |-> Len(kept) + 1]

\* The buffers, with b in place of the i-th.
With(bufs, i, b) == [j \in DOMAIN bufs |-> IF j = i THEN b ELSE bufs[j]]

-----------------------------------------------------------------------------
(* One draw() of one surface.  The handlers' effects are functions of the  *)
(* client's state, a record with the variables they change.                *)

Now == [out |-> out, pool |-> pool, screen |-> screen, owed |-> owed,
        queued |-> queued, wake |-> wake, low |-> low, playing |-> playing,
        picture |-> picture]

Becomes(c) ==
  /\ out' = c.out /\ pool' = c.pool /\ screen' = c.screen /\ owed' = c.owed
  /\ queued' = c.queued /\ wake' = c.wake /\ low' = c.low
  /\ playing' = c.playing /\ picture' = c.picture

Pixels(base, p) == [r \in Regions |-> IF r \in p.area THEN p.look ELSE base]

\* What changes in a buffer: everything if its base does, else its indicator.
Damage(b, base, p) ==
  IF b.base # base THEN Regions ELSE b.picture.area \cup p.area

\* Mutant: the frame that is on screen is forgotten.
SubmittedForgetful(damage, same, last) == damage

\* submitted_damage(): what is declared; {} when there is nothing to commit.
Submitted(damage, same, last) ==
  IF same \/ damage = {} THEN damage \cup last ELSE damage

\* Mutant: frame_pending is set for a frame that is not committed.
UncommittedPending(info) == [info EXCEPT !.pending = TRUE]

\* The output when its frame turns out to be on screen already.
Uncommitted(info) == info

\* An output that has got a buffer: render, and commit unless nothing changed.
Paint(c, o, got, base) ==
  LET info == c.out[o]
      b    == got.bufs[got.at]
      sent == Submitted(Damage(b, base, c.picture), b.base = base,
                        info.indicator)
      held == [b EXCEPT !.base = base, !.picture = c.picture]
      new  == Pixels(base, c.picture)
  IN  IF sent = {}
      THEN [out |-> Uncommitted(info),
            pool |-> With(got.bufs, got.at, held),
            screen |-> c.screen[o], owed |-> c.owed[o]]
      ELSE [out |-> [info EXCEPT !.pending = TRUE,
                                 !.indicator = c.picture.area],
            pool |-> With(got.bufs, got.at, [held EXCEPT !.busy = TRUE]),
            screen |-> [size |-> info.size,
                        pixels |-> [r \in Regions |->
                          IF r \in sent \/ c.screen[o].size # info.size
                          THEN new[r] ELSE c.screen[o].pixels[r]]],
            owed |-> c.owed[o] + 1]

\* After a failed render nothing is known of the pixels of its buffer.
Spoilt(b) == [b EXCEPT !.base = "none", !.picture = NoPicture]

\* An output that has to wait (it keeps its buffers), or whose frame fails.
Skip(c, o, bufs) ==
  [out |-> c.out[o], pool |-> bufs, screen |-> c.screen[o], owed |-> c.owed[o]]

-----------------------------------------------------------------------------
(* draw().                                                                 *)

\* Mutant: a surface is drawn on without waiting for its callback.
ReadyAlways(info) == info.configured

Ready(info)     == info.configured /\ ~info.pending
ReadyOutputs(c) == {o \in Outputs : Ready(c.out[o])}

\* Mutant: outputs that have to wait do not ask for another draw().
NobodyWaits(outs) == FALSE

Waiting(outs) == \E o \in Outputs : outs[o].configured /\ outs[o].pending

Old(x) == IF x = "now" THEN "old" ELSE x

OldBuffers(bufs, S) ==
  [i \in DOMAIN bufs |->
     IF bufs[i].size \in S THEN [bufs[i] EXCEPT !.base = Old(@)] ELSE bufs[i]]

OldScreen(s, S) ==
  IF s.size \in S
  THEN [s EXCEPT !.pixels = [r \in Regions |-> Old(@[r])]] ELSE s

\* The frames of the playlists of S are not the newest any more.
Aged(c, S) ==
  [c EXCEPT !.pool   = [o \in Outputs |-> OldBuffers(c.pool[o], S)],
            !.screen = [o \in Outputs |-> OldScreen(c.screen[o], S)]]

\* advance_animations(): a clock that is due ticks, and an animation may have
\* a new frame before that.
Advanced(c) ==
  IF c.low \/ c.playing = {} THEN {c}
  ELSE {Aged(c, S) : S \in (SUBSET c.playing)
                             \ (IF c.wake = "due" THEN {{}} ELSE {})}

Shown(c) == IF c.low \/ ~Animated THEN "solid" ELSE "now"

\* next_anim_wake(), with a playlist for every size drawn so far.
WithPlaylists(c, drawn) ==
  LET sizes == c.playing \cup (IF Shown(c) = "now"
                               THEN {c.out[o].size : o \in drawn} ELSE {})
  IN  [c EXCEPT !.playing = sizes,
                !.wake = IF ~c.low /\ sizes # {}
                         THEN "later" ELSE "none"]

\* What becomes of the frame of each output that is ready: it is drawn, or its
\* buffer cannot be made, or not be rendered into.
Fates(c) ==
  [ReadyOutputs(c) -> {"drawn"} \cup IF "failure" \in World
                                     THEN {"unmade", "unrendered"} ELSE {}]

\* The outputs of a draw() with at least one surface ready.
Drawn(c, fate) ==
  LET ready == ReadyOutputs(c)
      got   == [o \in ready |-> GetBuffer(c.pool[o], c.out[o].size,
                                         fate[o] = "unmade")]
      taken == {o \in ready : got[o].at # 0}
      drawn == {o \in taken : fate[o] # "unrendered"}
      after == [o \in Outputs |->
                  CASE o \in drawn -> Paint(c, o, got[o], Shown(c))
                    [] o \in taken \ drawn ->
                         Skip(c, o, With(got[o].bufs, got[o].at,
                                         Spoilt(got[o].bufs[got[o].at])))
                    [] o \in ready \ taken -> Skip(c, o, got[o].bufs)
                    [] OTHER -> Skip(c, o, c.pool[o])]
  IN  [WithPlaylists(c, taken) EXCEPT
         !.out    = [o \in Outputs |-> after[o].out],
         !.pool   = [o \in Outputs |-> after[o].pool],
         !.screen = [o \in Outputs |-> after[o].screen],
         !.owed   = [o \in Outputs |-> after[o].owed]]

\* draw() only asks for another one when no surface is ready.
Draw(c) ==
  LET asked == [c EXCEPT !.queued = @ \/ Waiting(c.out)]
  IN  IF ReadyOutputs(c) = {} THEN {asked}
      ELSE {d \in UNION {{Drawn(a, f) : f \in Fates(a)} : a \in Advanced(asked)} :
              \A o \in Outputs : d.owed[o] <= MaxOwed}

\* prune_animation_playlists(): only the sizes in use keep theirs.
Pruned(c) ==
  LET dropped == {s \in c.playing :
                    \A o \in Outputs : c.out[o].configured => c.out[o].size # s}
  IN  [Aged(c, dropped) EXCEPT !.playing = @ \ dropped]

-----------------------------------------------------------------------------
(* Outputs come, change and go.                                            *)

Unbound == [state |-> "new", surface |-> FALSE, configured |-> FALSE,
            size |-> None, pending |-> FALSE, indicator |-> {}]

Dark == [size |-> None, pixels |-> [r \in Regions |-> "none"]]

\* Some outputs are there before the session is locked.
Init ==
  /\ locked = FALSE /\ queued = FALSE /\ wake = "none" /\ low = FALSE
  /\ \E there \in SUBSET Outputs :
       out = [o \in Outputs |-> IF o \in there
                                THEN [Unbound EXCEPT !.state = "plugged"]
                                ELSE Unbound]
  /\ pool = [o \in Outputs |-> <<>>] /\ owed = [o \in Outputs |-> 0]
  /\ screen = [o \in Outputs |-> Dark]
  /\ playing = {} /\ picture = NoPicture

\* create_lock_surface().
WithSurface(info) == [info EXCEPT !.surface = TRUE, !.indicator = {}]

\* The lock is granted: every output there is gets a surface.
Locked ==
  /\ ~locked /\ locked' = TRUE
  /\ Becomes([Now EXCEPT !.out = [o \in Outputs |->
       IF out[o].state = "plugged" THEN WithSurface(out[o]) ELSE out[o]]])

\* Mutant: an output plugged in while locked gets no surface.
PlugBare(o) ==
  /\ out[o].state = "new"
  /\ Becomes([Now EXCEPT !.out[o].state = "plugged"])
  /\ UNCHANGED locked

Plug(o) ==
  /\ out[o].state = "new"
  /\ LET info == [out[o] EXCEPT !.state = "plugged"]
     IN  Becomes([Now EXCEPT !.out[o] = IF locked THEN WithSurface(info)
                                        ELSE info])
  /\ UNCHANGED locked

\* An output's registry name is never used again.
Unplug(o) ==
  /\ out[o].state = "plugged"
  /\ Becomes(Pruned([Now EXCEPT !.out[o] = [Unbound EXCEPT !.state = "gone"],
                                !.pool[o] = <<>>, !.screen[o] = Dark]))
  /\ UNCHANGED locked

\* Mutant: the new size is not kept.
ReconfiguredSizeless(info, size) ==
  [info EXCEPT !.configured = TRUE, !.indicator = {}, !.pending = FALSE]

Reconfigured(info, size) ==
  [info EXCEPT !.configured = TRUE, !.size = size, !.indicator = {},
               !.pending = FALSE]

\* The size of a surface, once or, if outputs are resized, again.
Configure(o, size) ==
  /\ out[o].surface /\ (out[o].configured => "resize" \in World)
  /\ \E c \in Draw(Pruned([Now EXCEPT !.out[o] = Reconfigured(@, size)])) :
       Becomes(c)
  /\ UNCHANGED locked

\* A new output scale: the next draw() needs another size of buffer.
Scale(o, size) ==
  /\ "resize" \in World /\ out[o].configured
  /\ Becomes(Pruned([Now EXCEPT !.out[o].size = size]))
  /\ UNCHANGED locked

-----------------------------------------------------------------------------
(* Frames.                                                                 *)

Busy(o) == {i \in DOMAIN pool[o] : pool[o][i].busy}

\* Mutant: a callback draws only when the animation is due.
CallbackForgets == wake = "due"

\* callback_should_draw().
CallbackDraws == queued \/ wake = "due"

\* A frame callback, also one of a surface that is gone: the output can take
\* a frame again, and one that is wanted by now is drawn.
FrameDone(o) ==
  /\ owed[o] > 0
  /\ "late release" \in World \/ Cardinality(Busy(o)) <= 1
  /\ LET c == [Now EXCEPT !.out[o].pending = FALSE, !.owed[o] = @ - 1]
     IN  IF CallbackDraws
         THEN \E d \in Draw([c EXCEPT !.queued = FALSE]) : Becomes(d)
         ELSE Becomes(c)
  /\ UNCHANGED locked

\* The compositor has read a buffer.
Release(o) ==
  /\ \E i \in Busy(o) :
       Becomes([Now EXCEPT
         !.pool[o] = With(@, i, [pool[o][i] EXCEPT !.busy = FALSE])])
  /\ UNCHANGED locked

\* A key, a modifier or a timer: the indicator may look otherwise now.
Change(p) ==
  /\ \E c \in Draw([Now EXCEPT !.picture = p]) : Becomes(c)
  /\ UNCHANGED locked

\* tick_timers() when the battery has crossed the threshold.
Battery ==
  /\ "battery" \in World
  /\ \E c \in Draw([Now EXCEPT !.low = ~@]) : Becomes(c)
  /\ UNCHANGED locked

\* tick_timers() when the animation is due.
AnimationTick ==
  /\ wake = "due" /\ ReadyOutputs(Now) # {}
  /\ \E c \in Draw(Now) : Becomes(c)
  /\ UNCHANGED locked

FallDue ==
  /\ wake = "later"
  /\ Becomes([Now EXCEPT !.wake = "due"])
  /\ UNCHANGED locked

Next ==
  \/ Locked \/ Battery \/ AnimationTick \/ FallDue
  \/ \E p \in Pictures : Change(p)
  \/ \E o \in Outputs : \/ Plug(o) \/ Unplug(o) \/ FrameDone(o) \/ Release(o)
                        \/ \E s \in Sizes : Configure(o, s) \/ Scale(o, s)

Spec == Init /\ [][Next]_vars

\* An output that is there is on: its callbacks come, its buffers are released.
FairSpec ==
  /\ Spec
  /\ \A o \in Outputs : /\ WF_vars(out[o].state = "plugged" /\ FrameDone(o))
                        /\ WF_vars(Release(o))

-----------------------------------------------------------------------------
(* Properties.                                                             *)

\* While the session is locked every output has a lock surface, whether it was
\* there before or plugged in since (wayland.rs:188-192).
EveryOutputLocked ==
  locked => \A o \in Outputs : out[o].state = "plugged" => out[o].surface

\* A surface waits only for a callback that will come: no step that leaves
\* frame_pending set without a commit silences an output (wayland.rs:83-88).
PendingIsOwed ==
  \A o \in Outputs : out[o].pending => owed[o] > 0

\* Unless a surface is configured again, it never has two frames under way
\* (wayland.rs:83-88, 243-262).
Paced == \A o \in Outputs : owed[o] <= 1

\* No surface has more buffers of a size than the pool allows (pool.rs:191-207).
PoolIsBounded ==
  \A o \in Outputs : \A s \in Sizes :
    Cardinality(Matching(pool[o], s)) <= MaxMatching

\* A buffer is neither drawn into nor dropped before the compositor has
\* released it or its output is gone (pool.rs:178-189).
BusyIsUntouched ==
  [][\A o \in Outputs : \A i \in Busy(o) :
       \/ out'[o].state = "gone"
       \/ \E j \in DOMAIN pool'[o] :
            /\ pool'[o][j].size = pool[o][i].size
            /\ pool'[o][j].picture = pool[o][i].picture
            /\ \/ pool'[o][j].base = pool[o][i].base
               \/ pool[o][i].base = "now" /\ pool'[o][j].base = "old"]_vars

\* What a draw() now would show on an output.
Wanted(o) == [size |-> out[o].size, pixels |-> Pixels(Shown(Now), picture)]

\* Partial damage is enough, and nothing is lost to pacing: an output that does
\* not show what a draw() would is waiting for its callback, which will draw
\* (wayland.rs:51-70, 250-262, 958-980).
NothingIsMissed ==
  \A o \in Outputs :
    out[o].configured /\ screen[o] # Wanted(o) => out[o].pending /\ CallbackDraws
=============================================================================
