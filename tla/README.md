# Verification of baijia-suo

`baijia-suo` is a Wayland screen locker: it takes the session lock of the
compositor (`ext-session-lock-v1`), draws a lock screen on every output, asks
PAM about the passwords that are typed, and unlocks when PAM agrees. This
directory holds TLA+ modules that model the parts of it that have behaviour
worth checking, the TLC runs that check them, and theorems proved with TLAPS.
Source paths are relative to the crate's `src/` unless they start with `docs/`
or `.github/`; `PROJECT.json` maps every definition to the lines it translates.

## 1. The system

| component | state | operations | interacts with |
|---|---|---|---|
| verifier (`auth/verifier.rs`, `auth/ipc.rs`) | helper pid, pipe descriptors, the pending attempt (receiver, worker thread, deadline, cancel flag) | `start`, `poll`, `restart`, `shutdown`, the worker's and the helper's loops | App calls `start`/`poll`; PAM runs in the helper |
| application (`app.rs`) | auth state, password, keystroke times, verification start and completion, PAM message, low-power flag | `handle_key`, `process_auth`, `update_auth`, `clear_auth_failed`, the deadline functions | called by the event loop and the keyboard handler |
| event loop (`wayland.rs`) | `running`, `unlock_on_exit`, timers (repeat, failure clear, idle clear, battery, animation) | `next_timer_ms`, `tick_timers`, `on_key_press`, the dispatch handlers, `run_wayland` | compositor events, signals, `poll(2)` |
| presentation (`wayland.rs`, `render/pool.rs`, `render/mod.rs`) | per output: surface, configured size, `frame_pending`, last committed indicator, buffer pool | registry/configure/callback/release handlers, `draw`, `get_buffer` | compositor, animation |
| password memory (`password/buffer.rs`, `secure/buffer.rs`) | bytes, length, capacity | append, backspace, clear, truncate, `try_push` | App, verifier, `--auth-test` |
| PAM conversation (`auth/pam_ffi.rs`) | the password to hand over once, collected messages | `pam_conv_callback`, `run_pam_auth` | libpam, in the helper |
| animation clock and playlist (`animation/player.rs`, `playlist.rs`) | tick clock, current mode, order, switch time, frame identity | `advance`, `switch_to_next`, `set_size`, `next_wake` | `draw`, the surfaces' copies |
| startup and end (`cli.rs`, `args.rs`, `config.rs`, `wayland.rs`) | options, ready descriptor, daemon flag, signal flag | `run`, `Config::from_args`, `run_wayland` from connecting to unlocking | terminal, files, compositor, whoever waits on the ready descriptor |
| terminal prompt (`cli.rs`) | echo, signal dispositions | `read_password`, `run_auth_test` | terminal, verifier |
| keyboard (`input/keyboard.rs`) | xkb keymap and state | `process_key`, `update_modifiers` | xkbcommon |
| animation modes, indicator styles, glyphs, rng | pixels | drawing | nothing that locks |

One thread runs the event loop and everything but PAM. A key goes to
`App::handle_key`; Enter moves the password into a `SecureBuffer` and calls
`ForkedVerifier::start`, which hands it to a worker thread. The worker writes it
to the pipe of a helper process that was forked before the screen was locked,
and waits for the reply of PAM. The event loop looks for a result each time
`tick_timers` runs, lets the indicator's animation play out and then unlocks or
arms the deadline that clears the failure. `poll(2)` sleeps until the next
deadline, or without a timeout when there is none, so whatever must happen needs
an armed timer or an event. Drawing is paced by frame callbacks, which stop
while an output is off; behind the indicator a playlist of animations keeps its
own clock, which every draw advances.

What is hard here: a hung or dying helper with a request half written or a reply
half read; a late reply racing the deadline; `fork()` in a process with threads;
pipe ends and a ready descriptor that outlive who was to close them; timers that
are armed, cancelled and fired by different handlers; two readings of the clock
in one turn of the loop; signals at every step from `main()` to the unlock
request; a compositor that refuses, revokes or goes away; outputs that come and
go while the lock is being granted; callbacks and releases in any order; partial
damage under buffer rotation; PAM calling as often as it likes; a system call of
a sequence that fails. `PROJECT.json` lists each hazard at its line (`hazards`),
with the properties that cover it or a note why none does.

What makes each component correct:

* verifier: an answer is PAM's verdict on that very attempt; every attempt is
  answered and every drop ends, whatever the helper does; no helper is left
  serving; `fork()` happens with no worker about.
* application and event loop: no unlock without PAM's yes to the last attempt; a
  typed password always has a deadline that wipes it and none is kept once it has
  been submitted; an attempt ends with its own result only; results and deadlines
  are served although the loop sleeps.
* presentation: every output is locked; no output runs ahead of its callbacks or
  waits for one that will not come; a buffer the compositor reads is not
  touched; the screen never keeps pixels that a draw would change, unless a draw
  is on its way.
* password memory and PAM conversation: PAM is given, once, the text that was
  typed and not erased; nothing of it is left in a buffer or in a reply that is
  freed; messages fit the reply that carries them.
* clock and playlist: no burst, no stall, every mode once in a round and none
  twice in a row; a surface that skips a copy has the frame already.
* startup: a file's mistakes never keep the screen unlocked, a command line's
  always do; who is told of the lock is told the truth, and who waits is told.
  Terminal prompt: whatever was changed is changed back.

## 2. The modules

| module | what it is | code |
|---|---|---|
| `AuthService` | abstract: what a verifier promises (`Ask`, `Decide`, `Answer`, `Stop`) | what `auth/verifier.rs` promises `app.rs` |
| `Verifier` | the verifier: main thread, worker thread, helpers, pipes, grandchildren; implements `AuthService` | `auth/verifier.rs`, `auth/ipc.rs` |
| `VerifierInv`, `MCVerifier` | its inductive invariant; the module TLC runs | |
| `VerifierTypes`, `VerifierProofs` | theorems: types, invariant and safety, refinement | |
| `Session` | the main thread: keys, authentication state, timers, `poll`, signals, unlock; composed with `AuthService` (`INSTANCE`) | `app.rs`, `wayland.rs` |
| `MCSession`, `SessionProofs` | liveness and what comments promise; theorems | |
| `Present` | outputs, surfaces, callbacks, buffers, damage | `wayland.rs`, `render/pool.rs`, `app.rs` |
| `DamageRect` | the rectangles that damage is made of, in 32 bits | `render/mod.rs` |
| `MCPresent`, `PresentProofs` | pictures, regions, symmetry, liveness; theorems, of `DamageRect` too | |
| `Rotation` | abstract: modes take turns | what `playlist.rs` promises |
| `AnimationClock` | a player's clock: catch-up, tick budget, re-anchoring, delays that change, interpolation | `animation/player.rs` |
| `Playlist` | the playlist over that clock, its life in the App, a surface that copies frames; implements `Rotation` | `animation/playlist.rs`, `app.rs` |
| `MCPlaylist`, `PlaylistProofs` | modes and lists for TLC, liveness; theorems | |
| `SecureText` | abstract: typed text goes to PAM whole and once | |
| `PasswordBuffer` | bytes of UTF-8 in a buffer of fixed capacity | `password/buffer.rs`, `secure/buffer.rs` |
| `TtyPrompt` | `read_password()`, a system call at a step, with signals | `cli.rs` |
| `PamConversation` | `pam_conv_callback()`, a message at a step | `auth/pam_ffi.rs` |
| `PasswordPath` | composes the three: lock screen or prompt, attempt, PAM; implements `SecureText` | `app.rs`, `cli.rs`, `auth/` |
| `MCPasswordPath`, `PasswordProofs` | keys and messages for TLC; theorems | |
| `Lists`, `ListProofs` | walks over a list as recursive functions: what is retained, sums; lemmas about them and about recursion itself | `Vec::retain` and sums in the modules above |
| `ScreenLock` | abstract: what SECURITY.md promises of the lock | `.github/SECURITY.md` |
| `Startup` | one life of the locker, from the command line to the exit status; implements `ScreenLock` | `cli.rs`, `config.rs`, `args.rs`, `wayland.rs` |
| `MCStartup`, `StartupProofs` | command lines and files for TLC; theorems | |

The components meet in three ways. `Session` holds an `AuthService` and not a
`Verifier`: that this is enough is `Verifier`'s refinement. `PasswordPath` is a
composition by `INSTANCE` of the parts a password goes through. `Startup` sees
an attempt as one step, of which the other two have the details, and follows the
descriptors and processes across the whole life. `Session` has one output that
is drawn on or not; `Present` has many and what they show, with a picture that
changes in any step that calls `draw()`; `Playlist` has what those frames are.

### Verifier

`main` is where the main thread stands: `idle` between calls; `reap`, `join`
inside `restart()` (killed helper, then worker); `wait`, `reapLast`, `joinLast`
inside `shutdown()`; `gone` after a drop or a crash. `pid`, `fds`, `pending`,
`deadline` and `cancel` are the fields of `ForkedVerifier`, `chan` the channel's
content, `dups` the helper whose pipes the worker's duplicated descriptors open.
A helper's number stands for its pid and its pair of pipes. A request is two
frames, its length and its bytes, a reply two, its status and its message: the
units the code writes, reads and can be cancelled between (at a finer grain a
cancelled worker leaves a piece of a frame, in a pipe that only the killed helper
reads). A helper dies at any moment, by itself or after the SIGKILL; `held` says
that a grandchild keeps its pipe ends, so that EOF does not come. `start()` may
fail in `dup()`, a replacement in `fork()`. `Wait` may leave its helper alone:
after `--daemonize` the locker is not the helper's parent and `waitpid()` fails.
PAM's verdict is recorded when it is made (`verdict`), whatever becomes of the
reply, and what `poll()` returns in `answer`. `Service` maps all this to
`AuthService`: an attempt is asked from `start()` on, decided once PAM has, and
answered when `poll()` returns.

### Session

Time passes one unit at a step at every point of the loop; an `Instant` in the
past is an age that stops growing at the duration it is compared with, a deadline
is the time left. `pc` is the loop: `before` computing the timeout, `timed`
between that and `poll()`, `asleep`, `after` while it dispatches. One `Dispatch`
action stands for one handler; `Tick` and `TickAnswered` are the whole of
`tick_timers()`, without and with a result from `update_auth()`, including the
key repeat, the clears, the unlock decision, the edge flags and the one draw.
All events that were read are dispatched before `tick_timers()`, so the loop's
other two calls of `dispatch_pending()` find none and are not modelled.
`HandleKey` and what it calls are operators from an App to the set of Apps it may
become (no memory for a password, none for its copy). `Draw` likewise: a ready
surface gets its frame, or nothing because no pixel changed, or nothing because
`get_buffer()` or the rendering failed, and then no callback is requested either.
`failed` notes the last of these, which the code does not, for the properties only.

A password is its number of characters. Which key a repeat yields is free, as
keymap and modifiers may have changed since, and so is how late a repeat is.
The animation and the low-battery saver are off: the model's timers are all but
those two, which is the configuration with the least to wake the loop (a battery
check every 30 s would wake it, an animation stops with its callbacks). `Redraw`
stands for every other event that calls `draw()`.

### Present

The handlers are functions on a record of the client's state (`Now`, `Becomes`),
so that `Draw` is written once and used after the change each handler makes.
It draws on every output that is ready; `Paint` is what it does to one of them:
what the buffer held, what of it changes, what is declared as damage (`Submitted`
is `submitted_damage()`), and whether there is anything to commit. `Fates` says
what may become of each of them: drawn, no buffer can be made (the surface is
skipped and nothing is owed), or a buffer that could not be rendered into
(`Spoilt`: nothing is known of its pixels afterwards). A surface is a set of
regions and damage a set of them, so that "covers" is exact;
`screen` applies the declared damage only, as a compositor may. That the code's
damage, rectangles of `i32` that are clipped to a buffer and united, cover such
sets is what `DamageRect` and its theorems say. An animation
frame is identified as the newest one, an older one or none, which is all that
comparing `BaseFrame`s tells. `World` chooses what a run's environment does:
resizes, battery, late releases, failures.

### Playlist

A player's clock is `age`, how long ago the last tick was due, `delay` until the
next, and `wake`, the time left until the loop has to draw for it. `Advances` is
`Player::advance()`: `Planned` ticks that make up for the time that has passed,
at most `MaxTicks` of them, each of which may change the delay or stop the clock;
then the clock goes on from where it is or, when it could not catch up,
from now (`Anchor`). A mode that is incremental, interpolates or just ticks says
so in `Incremental` and `Interpolating`; what it draws is left out. `Playlist`
keeps the order, its place in it and the time of the next switch; `NoRepeat` is
the swap at a round's beginning. `newId` is whether a surface's copy was made
under another `frame_id()`, and `player.drawn` whether the buffer was drawn into
since: that the first follows the second is `FrameIdTellsFrames`. `ran` records
the last draw's ticks.

### PasswordPath

A password is its bytes and the memory behind them (`PasswordBuffer`): appends
encode UTF-8 and stop a byte short of the capacity, a backspace walks back to a
character's first byte, and every shrink writes zeros. `PasswordPath` has it
typed at the lock screen, or read at the prompt as a line of bytes which are
decoded and appended one by one, and refused if they are no UTF-8. `Begin`, `Talk` and
`Answered` are the helper's side: the bytes arrive, PAM calls back as often and
with whatever messages it likes, and any message of a call may end it with
replies filled in. `TtyPrompt` has a step for each system call, in order:
handlers, echo, buffer, read, and all of it backwards; any may fail, and SIGINT,
SIGTERM or SIGQUIT may come at any step, to the old disposition or to the handler,
whichever is installed.

### Startup

`locker` is where `run()` stands. `Parse`, `Configure`, `InitAuth`, `Connect`,
`Bind` and `Ask` are its steps to the loop; `Locked` and `Finished` the two events
of the lock that it dispatches, `Reply` and `Revoke` when the compositor causes
them, which is earlier: `session` is the compositor's lock and `events` what the
locker has yet to learn of it. `Fork` gives the helper a copy of the ready
descriptor, `Notify` writes to it and closes the locker's, `Detach` is
`daemon()`. `End` is the unlock request and its roundtrip, either of which may
be lost with the connection. A setting is not given, good or bad, and there are
as many as one likes; a file is missing, broken or parsable.

## 3. The runs

`tlc -config X.cfg M` for each. Twelve in all, three of which find a violation.

| run | module, cfg | what it asks | size (distinct states) |
|---|---|---|---|
| `verifier` | `MCVerifier`, `Verifier.cfg` | `AnswersAreVerdicts`, `RequestsStayFramed`, `NoStrayHelper`, `ForkIsSingleThreaded`, `EveryAttemptAnswered`, `ShutdownTerminates`, `HelpersFollow`, and the refinement `ImplementsService` | 2 helpers, 3 attempts (247 000) |
| `session` | `MCSession`, `Session.cfg` | `UnlockedByVerdict`, `PasswordIsTransient`, `KeystrokesMatch`, `ClearMeetsItsFailure`, `AuthSteps` | 2 attempts, 2 characters (3.7 million) |
| `session_live` | `MCSession`, `SessionLive.cfg` | with the outputs off and draws that fail `VerifyingEnds`, `IdlePasswordWiped`; while callbacks come and draws recover `SuccessUnlocks`, `FailureClears` | 1 attempt, 1 character (329 000) |
| `present` | `MCPresent`, `Present.cfg` | types, `EveryOutputLocked`, `Paced`, `NothingIsMissed` | 2 outputs, 2 sizes, animated (187 000) |
| `present_world` | `MCPresent`, `PresentWorld.cfg` | `PendingIsOwed`, `PoolIsBounded`, `BusyIsUntouched` under resizes, the battery saver, late releases and failures | 1 output, 2 sizes, animated (324 000) |
| `present_live` | `MCPresent`, `PresentLive.cfg` | `CatchesUp` | 2 outputs (4 200) |
| `animation` | `MCPlaylist`, `Animation.cfg` | `FrameIdTellsFrames`, `NeverBlank`, `NoBacklog`, `EveryModeAirs`, and the refinement `ImplementsRotation` | playlists of none to three modes (7 500) |
| `password` | `MCPasswordPath`, `Password.cfg` | `NothingBehind`, `LineIsSent`, `TerminalRestored`, `RepliesAreWhole`, `HandedOnce`, `FreedIsWiped`, and the refinement `ImplementsText` | 5 bytes of capacity, calls of 1 and 2 messages (147 000) |
| `startup` | `MCStartup`, `Startup.cfg` | `ScreenGetsLocked`, `WaiterHears`, and the refinement `ImplementsLock` | 25 command lines, 10 files (141 000) |
| `session_dark`, `session_stuck`, `session_signal` | `MCSession` | a comment the code does not keep: section 6 | 1 attempt, 1 character |

Bounds, and why they are enough:

* `MaxHelper`, `MaxAttempt` (verifier): a reply can be mistaken only between an
  attempt and a later one, by a helper and its replacement. With two helpers and
  three attempts the first or the second helper sees two attempts in a row, and
  an answered, a timed-out and an attempt without a helper follow each other in
  every order. The safety theorems hold for any number.
* Durations (session) are small, in the order that matters: the envelope outlives
  the fade, the idle wipe may come before, during or after an attempt, and a
  deadline may pass at any point of the loop. The theorems hold for all values.
* `MaxTyped` 2 distinguishes empty, part and full; `MaxAttempt` 2 a first attempt
  and what it leaves to a second. `MaxOwed` bounds the callbacks that repeated
  configures leave owed; 1 is what pacing allows without them, 2 lets a stale
  callback meet a newer frame.
* Present: two outputs are one that may be drawn on while the other waits. Two
  sizes are the one in use and the one left behind. `MaxMatching` is 3 in the code
  and in `present`; `present_world` takes 2 to keep late releases within reach
  of TLC: a pool that is full at 2 refuses as one that is full at 3. Its
  properties are about buffers and callbacks, so it has one region only and
  leaves `screen` out of the states' identity (`VIEW ButScreen`): `screen` is
  written and never read by another variable's step. Sizes are interchangeable
  (`SizeSymmetry`): the module compares them and nothing else.
  `present` keeps to one configure per output (`World = {}`), which is where
  `Paced` is promised, and without the battery saver (see 6).
* Playlist: delays of 0 to 3 units against a refresh of 2 and a tick allowance of
  3 reach every branch of the clock: faster than the refresh, slower, stopped, late
  by more than the allowance. An age stops growing at `OldAge`, past every
  comparison made with it. Modes of each kind, a list with an unregistered name, with one mode,
  with none.
* PasswordPath: five bytes are what one character of four bytes fills, with the
  byte kept free, and what two of one and two bytes do not. The keys have one
  character of each length, a surrogate, a number beyond Unicode, DEL and a
  control; the bytes typed at the prompt include halves of a character. Five bytes
  of messages fill up within two calls.
* Startup has no counters; two settings are one that the file may spoil and one
  that the line overrides.

`CHECK_DEADLOCK FALSE` is set where the system ends (verifier, session,
password, startup: `gone`, `ended`, `over`) or may have nothing left to do
(a playlist that was disabled).

Each property has a mutant, a definition named "Mutant" before the one it
replaces: the plausible bug that the property detects.

## 4. Fairness

* Verifier: `WF` of the main thread's steps (the event loop polls again while an
  attempt is pending: `indicator_active()` keeps a timer armed, which
  `VerifyingEnds` checks), of the worker's steps (its `poll()` has a timeout), of
  the deadline, of the helper's own steps, and of the death of a helper that has
  been sent SIGKILL. Nothing is assumed of PAM: a helper in `verify` may stay
  there for ever.
* Session: `WF` of the loop's own steps and of time; `SF` of `TickAnswered`, as
  the service answers an attempt that is polled for ever (`EveryAttemptAnswered`)
  but not each time. `FairSpec` adds `SF` of `FrameDone` (outputs on); `DarkSpec`
  does not (outputs off), and `SuccessUnlocks` and `FailureClears` have
  it as a premise (`FramesCome`) so that one run asks both. Their other premise is
  that draws do not fail for ever (`DrawsRecover`): a failed one is followed by one
  that does not fail, whatever event makes it. The code gives no such guarantee,
  as it does not retry a draw; without the premise TLC refutes both (section 6).
* Present: `WF` of the callbacks of outputs that are plugged in, and of releases.
* Playlist: `WF` of time and of the draw at `next_wake()`, which the loop's
  animation timer makes while outputs are on. `EveryModeAirs` is about playlists
  that stay.
* Startup: `WF` of `run()`'s steps, of the compositor's reply, of dispatching, of
  leaving the loop when nothing is waited for (before the first `poll()`, or with
  `running` false), and of the death of a helper that was killed or, when idle,
  sees end of file after the locker's death. A signal alone may find the loop
  asleep (`session_signal`) and is given no fairness. PAM owes nothing.

## 5. The theorems

All are for any value of the constants under the modules' assumptions
(`BoundsAssumption`, `SessionAssumption`, `PresentAssumption`,
`ClockAssumption`, `ListAssumption`, `CapacityAssumption`, `PathAssumption`,
`InputsAssumption`), by TLAPS. TLC evaluates each assumption for its instance.

*Verifier.* `TypeCorrect` (types), then `Invariance`: `Spec => []IInv`. The
property to prove, `AnswersCorrect`, is not inductive: a reply left over in a
pipe would be credited to the next attempt. `IInv` says that worker, current
helper and pipes are at matching stages of one round trip of the current attempt
(`StageInv`), that what a helper has in hand or in its pipe is of the current
attempt and the attempt has no answer yet (`HelperInv`, `Shape`), and that
between attempts a helper that can still be heard has nothing in hand. Each
action has its lemma, one step per conjunct. `NoneStray`, `Framed` and the action
property `ForkSafe` follow from `IInv`. `ServiceKept` is the refinement without
its fairness: with `IInv` as the premise each action of `Verifier` is a step of
`AuthService` or a stutter under the mapping `Service`.

*Session.* `SessionInvariance`: `Spec => []SInv`. `SInv` adds to the properties
what links them: the App is verifying exactly while the service has been asked
(`AttemptInv`), so that `Success` can only come from the answer to the attempt
under way; start and completion times exist only in a state of an attempt
(`AppInv`), so that a settled attempt is never an old one; and `unlockOnExit`
implies `Success`, which no key can leave (`UnlockInv`). The operators on Apps
(`HandleKey`, `Answered`, `Aged`, ...) have lemmas of their own, used by every
action that calls them. `UnlockIsEarned`, `PasswordLeaves`, `KeystrokesFollow`,
`ClearIsTimely` and the action property `AuthIsOrderly` follow.

*Present.* Pictures, pools and screens are abstracted to the one fact that
matters of a draw (`DrawnOn`): it leaves an output as it is, or marks a ready one
pending and owes it one more callback. `OutputsSound` is the invariant that
follows from it for every handler; `OutputsLocked` and `NoneSilenced` are parts of
it, for any outputs, sizes and worlds. `EachAtItsPace` assumes `"resize" \notin
World`: a configure resets `frame_pending` while a callback is owed, so a
surface may be owed two (`NoneSilenced` says that none is then lost).
`ClipIsExact` and `UnionCovers` are about rectangles: clipping to a buffer gives
exactly the pixels of both also where `x + w` saturates at 2^31 - 1, and a union
covers both parts.

*Playlist.* `PlaylistInvariance` is inductive with the types, among them that
a player's age is below its delay right after its ticks (`NoBurst`), that a
player has been given a size and a frame before it is shown (`FrameIsThere`), and
that what is drawn under an old identity is always announced
(`IdentityTellsFrames`). `ModesTakeTurns` is the whole refinement of `Rotation`:
shuffles are bijections and `NoRepeat` keeps them so, hence what is left of a round
is the set that `Rotation` has. It assumes that no list names a mode twice (see 6).

Buffers come next. `BuffersSound` adds them to the invariant (`SInv`, kept together
with that of `OutputsSound`): every pool is a sequence of buffers, at most
`MaxMatching` of a size, every screen shows something a screen can, an output that
is configured has a size, and no more callbacks are owed than the bound. The lemmas
carry along what a handler does to the busy buffers of the pool it began with
(`Holds`). From it follow `PresentTyped`; `PoolsBounded`, as what is retained of a
pool is no longer than the pool and one more is made below `MaxMatching` only; and
the action property `BusyBuffersHeld`, as retaining keeps every busy buffer with its
pixels. `NothingMissed` is the deepest of them. Its invariant (`NInv`) says that an
output that does not show what a draw would paint has a callback under way that will
draw (`UpToDate`); that its screen is one whole frame, with the indicator it remembers
and, while a buffer with the wanted base is left, on that base (`Frame`), so that
the damage `submitted_damage()` declares covers all that differs; and that between
frames at most one of its buffers is busy, so that one can be had. It assumes
`World = {}` and `MaxMatching > 1`, and needs all of it: TLC refutes
`NothingIsMissed` with a resize, a battery event, a late release or a failure alone,
and with pools of one buffer; the code has three (section 6 has what the code's
comments promise in two of these cases).

*Lists.* Recursive functions are `CHOOSE` terms to the provers, so `ListProofs` begins
with what makes them equations: the least number of a set (`LeastNat`), induction up
to a bound (`UpTo`), and that a recursion over `0 .. n` has a solution
(`RecursionExists`). `RetainedFacts` then gives what the components need: whatever is
retained comes from increasing places of the list, and every place to keep is among
them.

*Password.* `EncodingIsExact`: the bytes of a character begin with a start byte,
and the rest are continuations, so that `BackspaceUndoesAppend`: a backspace
finds the start of the last character and restores the buffer, memory included,
to what it was before it. `NothingLeftBehind` is the invariant that memory
past the text is zero. `TerminalComesBack` rests on an invariant
that pairs what is installed and undone so far with each signal's disposition.
`RepliesAreWiped` follows the password from the buffer to PAM's replies: a call
that fails wipes all it has filled in, whatever the messages were.
`HandedOverOnce` says where the password may be: with the helper, in exactly one
reply of the call under way, or with PAM, and nowhere twice (`HandInv`).
`RepliesFit` has the budget as an equation, `used` being the length of the joined
text, kept by every notice as what is kept of it fits the room (`KeptFits`).
`LineGoesWhole` needs that feeding stops between characters only: `FedInv` says that
what was appended is what the line begins with and that a character starts at the
next byte; a piece of a valid line is the encoding of what it decodes to
(`PieceEnds`, `PieceIs`), so appending the character appends those bytes.
`TextIsKept` is the whole refinement of `SecureText`, for text of any length: reading
bytes that were cut at the start of a character gives the text up to there
(`SameBeginning`), hence an append is one character more (`CharsOfMore`) and a
backspace one less (`CharsOfLess`); and every copy there is, in a request, a reply or
with PAM, is of what was sent (`SentInv`). `PathTyped` collects the types.

*Startup.* `OnlyTheLineIsFatal`: whatever a file says, the configuration fails
exactly when the command line has a bad setting. `StartupInvariance`: what the
locker knows of the lock lags behind the lock itself, and what it does on the
strength of what it knows (take a key, write the newline, detach) stays true
because a granted lock may end but is never one that was not granted
(`WordIsTrue`, `AskedInTime`, `TellsTheTruth`); an unlock has been earned
(`Earned`). `LockKept` is the whole refinement of `ScreenLock`, from these.

The type invariants of `Verifier`, `Session`, `Playlist` and `PasswordPath` are no
properties of a run, as the theorems hold for all instances. Every invariant and
action property of the runs is stated by a theorem.

Model-checked only:

* liveness under fairness, which is out of the prover's reach: `EveryAttemptAnswered`,
  `ShutdownTerminates`, `HelpersFollow`, `VerifyingEnds`, `IdlePasswordWiped`,
  `SuccessUnlocks`, `FailureClears`, `CatchesUp`, `EveryModeAirs`,
  `ScreenGetsLocked`, `WaiterHears`, and the liveness half of `ImplementsService`.

## 6. Where the code and its comments disagree

Checked by a run that finds the violation:

* `session_dark`: with the outputs off, a success that settles between the clock
  readings of `tick_timers()` and `next_timer_ms()` (`wayland.rs:432`) leaves the
  loop in `poll()` without a timeout once the idle deadline is past. A draw that
  fails does the same with the outputs on: see the surface refused a buffer below.
* `session_stuck`: when no locked memory can be had at Enter (`app.rs:412`) the
  failure has no start time, never settles and is never cleared.
* `session_signal`: a signal between the last look at the flag and `poll()`
  (`wayland.rs:1015-1046`) does not end the process until another event does.

Met while modelling, without a run:

* A configure whose free buffer already holds the frame is not followed by a
  commit (`wayland.rs:940-943`).
* A PAM message that times out between the two clock readings is neither redrawn
  away nor given a timer (`app.rs:491`), although `wayland.rs:134-135` promises it.
* The idle wipe is an Escape passed to `handle_key` (`wayland.rs:509`), so it
  counts as an interaction and shows the hidden indicator again (`app.rs:25-26`).
* A helper that hangs or dies does not end the process (`auth/verifier.rs:193`), as
  `.github/SECURITY.md:26-27` says; the attempt fails and the lock is kept. One
  that dies by itself is not replaced either, as `poll()` restarts it on a timeout
  only (`auth/verifier.rs:131, 174-205`): the attempts that follow fail.
* A replacement that is stuck in PAM when the locker dies keeps its inherited copy
  of the Wayland connection open.
* A surface refused a buffer, or one whose buffer cannot be made or rendered into,
  is owed no callback and nothing remembers it, so "the next frame callback
  retries" (`render/pool.rs:195-196`, `wayland.rs:339-358`) need not happen:
  `NothingIsMissed` fails when `World` has `"failure"`. In `Session` it means that
  the frame before a result settles may be one that failed: when the result settles
  between the clock readings, the loop sleeps without a timeout and without a callback
  to come, and neither unlocks nor clears. TLC finds it for `SuccessUnlocks` and
  `FailureClears` without `DrawsRecover`.
* `submitted_damage()` knows the indicator last committed, not the base. When the
  battery saver replaces an animation frame by the solid background, and the free
  buffer still is solid, nothing is committed and the frame stays
  (`wayland.rs:66-68`): `NothingIsMissed` fails when `World` has `"battery"`.
* A seat that loses its keyboard while a key repeats (`wayland.rs:736-740`) leaves
  the repeat running: a repeated key puts off the idle wipe for as long, and
  `IdlePasswordWiped` is stated for repeats that end.
* A frame rate cap is a floor of the delay, and a tick anchored at it is due when
  the next refresh is: with `max_fps = 40` a mode of 16.7 ms still draws at 60
  (`animation/player.rs:141-143, 257`, `docs/baijia-suo.1.scd:122`). A higher
  floor slows the simulation as well as the drawing, as fewer ticks are made up
  for (`animation/player.rs:117-121`).
* A mode that pauses by a long delay (`animation/modes/abstractile.rs:2162-2169`) is
  woken at once by a draw that is late by more than the delay, and re-anchored
  (`animation/player.rs:203-217`).
* A mode listed twice may play twice in a row, within a round
  (`animation/playlist.rs:5-7`): `ModesTakeTurns` assumes it is not.
* A signal between the installation of the prompt's handlers and its `read()` does
  not interrupt the read and is lost (`cli.rs:69-71`).
* The first helper inherits the ready descriptor and keeps its copy: the newline
  is written, but there is no end of file until the helper is gone
  (`wayland.rs:892`, "then close it" in `docs/baijia-suo.1.scd:83-86`).
* The process exits with status 0 when the compositor refuses the lock or a signal
  comes before it is granted (`wayland.rs:908-911, 1012`).
* A config file that does not parse is dropped as a whole, its `daemonize` with it
  (`config.rs:277-292`).

## 7. Not modelled

* Pixels: the animation modes, indicator styles, glyphs and background. Some
  83 500 of the crate's 93 500 lines are these: `render/indicator/glyphs.rs` is
  42 600 generated lines of outlines, the modes are forty thousand lines of
  numeric drawing into a private canvas. They keep no state that another component
  reads but the delay a tick returns and the frame, which `AnimationClock` takes
  as free choices. There is no property of them to state beyond what a picture
  shows. The map covers the other tenth; measured against all the lines its share
  stays small however much of that is modelled.
* The generator of random numbers: a shuffle is any permutation.
* Parsing of option strings, colours and TOML; `--help`, `--version` and
  `--list-animations`, which print and exit; `harden_process()`.
* xkbcommon; pointers; more than one seat; the battery's timer in `Session`
  (`Present` has its effect).
* Locked pages (`mlock`), the wiping of memory that is freed, interior NULs in a
  password and failing arguments of `pam_start()`, which end an attempt before
  the conversation; a `tcsetattr()` that fails when it restores.
* Signals at the prompt that `read_password()` installs no handler for: SIGHUP would
  end it with the echo off.
* A `write()` of the newline that fails: its result is ignored (`wayland.rs:894`),
  and in `Startup` it succeeds. Who waits would get nothing until the helper's copy
  of the descriptor is closed too.
* Sizes whose product overflows, which `draw()` skips.
* Build, packaging, scripts and benches.

## 8. Plan

Done, in the order of what matters: who may unlock (`AuthService`, `Verifier`),
when (`Session`), what is shown meanwhile (`Present`, `DamageRect`), what PAM is
given (`PasswordPath`), what moves on the screen (`Playlist`), and the life of the
process around it (`Startup`).

Left, in this order:

1. `Session` with the animation's and the battery's timers, and with seats that
   lose their keyboard.
2. `NothingMissed` for worlds with resizes, where the claim has to be weakened to
   outputs that have drawn since their last configure.
