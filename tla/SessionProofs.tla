--------------------------- MODULE SessionProofs ----------------------------
(***************************************************************************)
(* SInv is an invariant of Session for every value of the constants, and   *)
(* the safety properties follow from it.                                   *)
(***************************************************************************)
EXTENDS Session, SequenceTheorems, TLAPS

-----------------------------------------------------------------------------
(* The App's operations keep its type and its invariant.                   *)

\* Getting older changes neither whether a time is known nor, once it is over,
\* that a duration is over.
LEMMA OlderOK ==
  ASSUME NEW d \in Nat, NEW age \in Maybe(0 .. d)
  PROVE  /\ Older(age, d) \in Maybe(0 .. d)
         /\ Older(age, d) = None <=> age = None
         /\ Over(age, d) => Over(Older(age, d), d)
  BY SessionAssumption DEF Older, Within, Over, Maybe

LEMMA SoonerOK ==
  ASSUME NEW d \in Nat, NEW left \in Maybe(0 .. d)
  PROVE  Sooner(left) \in Maybe(0 .. d) /\ (Sooner(left) = None <=> left = None)
  BY SessionAssumption DEF Sooner, Maybe

LEMMA AgedOK ==
  ASSUME NEW a \in App, AppInv(a)
  PROVE  /\ Aged(a) \in App /\ AppInv(Aged(a))
         /\ Aged(a).auth = a.auth /\ Aged(a).typed = a.typed
         /\ Settled(a) => Settled(Aged(a))
<1> DEFINE strokes == [i \in DOMAIN a.strokes |->
                         Older(a.strokes[i], KeystrokeSettle)]
           b == Aged(a)
<1>1. strokes \in Seq(0 .. KeystrokeSettle) /\ Len(strokes) = Len(a.strokes)
  <2>1. a.strokes \in Seq(0 .. KeystrokeSettle) BY DEF App
  <2>2. Len(a.strokes) \in Nat /\ DOMAIN a.strokes = 1 .. Len(a.strokes)
    BY <2>1
  <2>3. \A i \in 1 .. Len(a.strokes) :
          Older(a.strokes[i], KeystrokeSettle) \in 0 .. KeystrokeSettle
    <3> TAKE i \in 1 .. Len(a.strokes)
    <3>1. a.strokes[i] \in 0 .. KeystrokeSettle
      <4> DEFINE s == a.strokes
      <4>1. s \in Seq(0 .. KeystrokeSettle) /\ i \in 1 .. Len(s) BY <2>1
      <4> SUFFICES s[i] \in 0 .. KeystrokeSettle OBVIOUS
      <4> HIDE DEF s
      <4> QED BY <4>1, ElementOfSeq
    <3>2. KeystrokeSettle \in Nat BY SessionAssumption
    <3> QED BY <3>1, <3>2 DEF Older, Within
  <2>4. strokes = [i \in 1 .. Len(a.strokes) |->
                     Older(a.strokes[i], KeystrokeSettle)]
    BY <2>2
  <2> HIDE DEF strokes
  <2> QED BY <2>2, <2>3, <2>4
<1>2. /\ Older(a.started, VerifyEnvelope) \in Maybe(0 .. VerifyEnvelope)
      /\ Older(a.done, CompleteFade) \in Maybe(0 .. CompleteFade)
      /\ Older(a.message, MessageTtl) \in Maybe(0 .. MessageTtl)
      /\ Older(a.touched, IdleHide) \in Maybe(0 .. IdleHide)
      /\ Older(a.started, VerifyEnvelope) = None <=> a.started = None
      /\ Older(a.done, CompleteFade) = None <=> a.done = None
      /\ Over(a.started, VerifyEnvelope) =>
           Over(Older(a.started, VerifyEnvelope), VerifyEnvelope)
      /\ Over(a.done, CompleteFade) =>
           Over(Older(a.done, CompleteFade), CompleteFade)
  BY OlderOK, SessionAssumption DEF App
<1>3. /\ b.auth = a.auth /\ b.typed = a.typed /\ b.strokes = strokes
      /\ b.started = Older(a.started, VerifyEnvelope)
      /\ b.done = Older(a.done, CompleteFade)
  <2> DEFINE f == [i \in DOMAIN a.strokes |->
                     Older((a.strokes)[i], KeystrokeSettle)]
  <2>1. f = strokes OBVIOUS
  <2>2. Aged(a) = [a EXCEPT !.strokes = f,
          !.started = Older(a.started, VerifyEnvelope),
          !.done = Older(a.done, CompleteFade),
          !.message = Older(a.message, MessageTtl),
          !.touched = Older(a.touched, IdleHide)]
    BY DEF Aged
  <2> HIDE DEF f, strokes
  <2> QED BY <2>1, <2>2 DEF App
<1>4. Aged(a) \in App
  <2> DEFINE f == [i \in DOMAIN a.strokes |->
                     Older((a.strokes)[i], KeystrokeSettle)]
  <2>1. f = strokes OBVIOUS
  <2>2. Aged(a) = [a EXCEPT !.strokes = f,
          !.started = Older(a.started, VerifyEnvelope),
          !.done = Older(a.done, CompleteFade),
          !.message = Older(a.message, MessageTtl),
          !.touched = Older(a.touched, IdleHide)]
    BY DEF Aged
  <2> HIDE DEF f, strokes
  <2> QED BY <1>1, <1>2, <2>1, <2>2 DEF App
<1>5. AppInv(b)
  <2> HIDE DEF b, strokes
  <2> QED BY <1>1, <1>2, <1>3 DEF AppInv
<1>6. Settled(a) => Settled(b)
  <2> HIDE DEF b
  <2> QED BY <1>2, <1>3 DEF Settled
<1> QED BY <1>3, <1>4, <1>5, <1>6

\* The invariant does not look at messages and interactions.
LEMMA SameInv ==
  ASSUME NEW a, NEW b, AppInv(a), b.auth = a.auth, b.typed = a.typed,
         b.strokes = a.strokes, b.started = a.started, b.done = a.done
  PROVE  AppInv(b)
  BY DEF AppInv

LEMMA FailOK ==
  ASSUME NEW a \in App, a.typed = None
  PROVE  Fail(a) \in App /\ AppInv(Fail(a)) /\ Fail(a).auth = "Invalid"
  BY DEF Fail, App, AppInv, Busy

LEMMA ClearedOK ==
  ASSUME NEW a \in App
  PROVE  /\ Cleared(a) \in App /\ Cleared(a).auth = "Idle"
         /\ Cleared(a).typed = a.typed /\ Cleared(a).strokes = <<>>
         /\ Cleared(a).started = None /\ Cleared(a).done = None
<1>1. <<>> \in Seq(0 .. KeystrokeSettle) OBVIOUS
<1> QED BY <1>1 DEF Cleared, App, Maybe

\* An App that has just been cleared has its invariant if no password is left.
LEMMA BlankOK ==
  ASSUME NEW a, a.typed \in {None, 0}, a.auth = "Idle", a.strokes = <<>>,
         a.started = None, a.done = None
  PROVE  AppInv(a)
<1>1. 0 # None BY SessionAssumption
<1>2. Len(a.strokes) = 0 OBVIOUS
<1> QED BY <1>1, <1>2 DEF AppInv, Busy

LEMMA EscapedOK ==
  ASSUME NEW a \in App
  PROVE  LET b == [Cleared(a) EXCEPT !.typed = 0]
         IN  b \in App /\ AppInv(b) /\ b.auth = "Idle"
<1> DEFINE b == [Cleared(a) EXCEPT !.typed = 0]
<1>1. 0 \in Maybe(0 .. MaxTyped) BY SessionAssumption DEF Maybe
<1>2. b \in App BY <1>1, ClearedOK DEF App
<1>3. /\ b.auth = "Idle" /\ b.typed = 0 /\ b.strokes = <<>>
      /\ b.started = None /\ b.done = None
  BY ClearedOK DEF App
<1> SUFFICES b \in App /\ AppInv(b) /\ b.auth = "Idle" OBVIOUS
<1> HIDE DEF b
<1> QED BY <1>2, <1>3, BlankOK

\* Between attempts, the App's invariant is about the characters typed.
LEMMA TypingOK ==
  ASSUME NEW b \in App, b.auth \in {"Idle", "Typing"},
         b.started = None, b.done = None, b.typed \in Nat,
         Len(b.strokes) = b.typed, b.auth = "Typing" <=> b.typed # 0
  PROVE  AppInv(b)
<1>1. b.typed # None BY SessionAssumption
<1>2. b.auth \notin Busy BY DEF Busy
<1> QED BY <1>1, <1>2 DEF AppInv, Busy

\* What the App's invariant says with a buffer and no attempt.
LEMMA BufferOK ==
  ASSUME NEW a \in App, AppInv(a), a.auth \notin Busy, a.typed # None
  PROVE  /\ a.typed \in 0 .. MaxTyped /\ MaxTyped \in Nat
         /\ a.strokes \in Seq(0 .. KeystrokeSettle)
         /\ Len(a.strokes) = a.typed
         /\ a.started = None /\ a.done = None
         /\ a.auth \in {"Idle", "Typing"}
         /\ a.auth = "Typing" <=> a.typed # 0
<1>1. /\ a.typed \in 0 .. MaxTyped /\ a.auth \in {"Idle", "Typing"}
      /\ a.strokes \in Seq(0 .. KeystrokeSettle)
  BY DEF App, Maybe
<1>2. MaxTyped \in Nat BY SessionAssumption
<1> QED BY <1>1, <1>2 DEF AppInv

LEMMA ErasedOK ==
  ASSUME NEW a \in App, AppInv(a), a.auth \notin Busy, a.typed # None
  PROVE  Erased(a) \in App /\ AppInv(Erased(a))
         /\ Erased(a).auth \in {"Idle", "Typing"}
<1> DEFINE b == Erased(a)
           s == a.strokes
<1>1. CASE a.typed = 0
  <2>1. b = [a EXCEPT !.auth = "Idle"] BY <1>1 DEF Erased
  <2>2. /\ b \in App /\ b.auth = "Idle" /\ b.typed = 0 /\ b.strokes = s
        /\ b.started = a.started /\ b.done = a.done
    BY <1>1, <2>1 DEF App
  <2> HIDE DEF b
  <2>3. AppInv(b) BY <1>1, <2>2, BufferOK, TypingOK
  <2> QED BY <2>2, <2>3 DEF b
<1>2. CASE a.typed # 0
  <2> DEFINE cut == SubSeq(s, 1, Len(s) - 1)
             state == IF a.typed = 1 THEN "Idle" ELSE "Typing"
  <2>1. cut \in Seq(0 .. KeystrokeSettle) /\ Len(cut) = a.typed - 1
    <3>1. s \in Seq(0 .. KeystrokeSettle) /\ Len(s) = a.typed
          /\ a.typed \in Nat \ {0}
      BY <1>2, BufferOK
    <3>2. Len(s) - 1 \in Nat /\ Len(s) - 1 <= Len(s) BY <3>1
    <3> HIDE DEF s
    <3>3. \A i \in 1 .. Len(s) - 1 : s[i] \in 0 .. KeystrokeSettle
      <4> TAKE i \in 1 .. Len(s) - 1
      <4>1. i \in 1 .. Len(s) BY <3>2
      <4> QED BY <3>1, <4>1, ElementOfSeq
    <3>4. cut \in Seq(0 .. KeystrokeSettle) /\ Len(cut) = Len(s) - 1
      BY <3>1, <3>2, <3>3, SubSeqProperties
    <3> QED BY <3>1, <3>4
  <2>2. b = [a EXCEPT !.typed = a.typed - 1, !.strokes = cut, !.auth = state]
    BY <1>2 DEF Erased
  <2>3. a.typed - 1 \in Maybe(0 .. MaxTyped) BY <1>2, BufferOK DEF Maybe
  <2>4. state \in {"Idle", "Typing"} /\ state \in {"Idle", "Typing"} \cup Busy
    OBVIOUS
  <2> HIDE DEF cut, state, b
  <2>5. /\ b \in App /\ b.auth = state /\ b.typed = a.typed - 1
        /\ b.strokes = cut /\ b.started = a.started /\ b.done = a.done
    BY <2>1, <2>2, <2>3, <2>4 DEF App
  <2>6. b.typed \in Nat /\ (b.auth = "Typing" <=> b.typed # 0)
    BY <1>2, <2>5, BufferOK DEF state
  <2>7. AppInv(b) BY <2>1, <2>4, <2>5, <2>6, BufferOK, TypingOK
  <2> QED BY <2>4, <2>5, <2>7 DEF b
<1> QED BY <1>1, <1>2

LEMMA TypedOK ==
  ASSUME NEW a \in App, AppInv(a), a.auth \notin Busy, a.typed # None
  PROVE  Typed(a) \in App /\ AppInv(Typed(a))
         /\ Typed(a).auth \in {"Idle", "Typing"}
<1> DEFINE b == Typed(a)
           s == a.strokes
<1>1. CASE a.typed = MaxTyped
  BY <1>1, BufferOK DEF Typed
<1>2. CASE a.typed # MaxTyped
  <2> DEFINE longer == Append(s, 0)
  <2>1. longer \in Seq(0 .. KeystrokeSettle) /\ Len(longer) = a.typed + 1
    <3>1. 0 \in 0 .. KeystrokeSettle BY SessionAssumption
    <3>2. s \in Seq(0 .. KeystrokeSettle) /\ Len(s) = a.typed BY BufferOK
    <3> HIDE DEF s
    <3> QED BY <3>1, <3>2
  <2>2. b = [a EXCEPT !.typed = a.typed + 1, !.strokes = longer,
                      !.auth = "Typing"]
    BY <1>2 DEF Typed
  <2>3. a.typed + 1 \in Maybe(0 .. MaxTyped) BY <1>2, BufferOK DEF Maybe
  <2> HIDE DEF longer, b
  <2>4. /\ b \in App /\ b.auth = "Typing" /\ b.typed = a.typed + 1
        /\ b.strokes = longer /\ b.started = a.started /\ b.done = a.done
    BY <2>1, <2>2, <2>3 DEF App
  <2>5. b.typed \in Nat /\ b.typed # 0 BY <2>4, BufferOK
  <2>6. AppInv(b) BY <2>1, <2>4, <2>5, BufferOK, TypingOK
  <2> QED BY <2>4, <2>6 DEF b
<1> QED BY <1>1, <1>2

LEMMA ProcessAuthOK ==
  ASSUME NEW a \in App, AppInv(a), a.auth \notin Busy, a.typed # None,
         NEW b \in ProcessAuth(a)
  PROVE  b \in App /\ AppInv(b) /\ b.auth # "Success"
<1>1. CASE a.typed = 0
  BY <1>1 DEF ProcessAuth, Busy
<1>2. CASE a.typed # 0
  <2> DEFINE taken == [a EXCEPT !.typed = None]
  <2>1. taken \in App /\ taken.typed = None BY DEF App, Maybe
  <2>2. b \in {[taken EXCEPT !.auth = "Verifying", !.started = 0, !.done = None],
               Fail(taken)}
    BY <1>2 DEF ProcessAuth
  <2> HIDE DEF taken
  <2>3. CASE b = Fail(taken) BY <2>1, <2>3, FailOK
  <2>4. CASE b = [taken EXCEPT !.auth = "Verifying", !.started = 0,
                               !.done = None]
    <3>1. 0 \in Maybe(0 .. VerifyEnvelope) /\ 0 # None
      BY SessionAssumption DEF Maybe
    <3>2. None \in Maybe(0 .. CompleteFade) BY DEF Maybe
    <3>3. /\ b \in App /\ b.auth = "Verifying" /\ b.typed = None
          /\ b.started = 0 /\ b.done = None
      BY <2>1, <2>4, <3>1, <3>2 DEF App, Busy
    <3> QED BY <3>1, <3>3 DEF AppInv, Busy
  <2> QED BY <2>2, <2>3, <2>4
<1> QED BY <1>1, <1>2

\* Whatever key, the App keeps its invariant; one that is busy with an attempt
\* ignores it, and no key makes an attempt succeed.
LEMMA HandleKeyOK ==
  ASSUME NEW a \in App, AppInv(a), NEW k \in Key, NEW b \in HandleKey(a, k)
  PROVE  /\ b \in App /\ AppInv(b)
         /\ a.auth \in Busy => b = a
         /\ a.auth \notin Busy => b.auth # "Success"
<1>1. CASE a.auth \in Busy BY <1>1 DEF HandleKey
<1>2. CASE a.auth \notin Busy
  <2>1. ASSUME NEW c \in App, AppInv(c), c.auth \notin Busy, c.typed # None,
               b \in KeyEffect(c, k)
        PROVE  b \in App /\ AppInv(b) /\ b.auth # "Success"
    <3>1. CASE k = "enter" BY <2>1, <3>1, ProcessAuthOK DEF KeyEffect
    <3>2. CASE k \in {"escape", "ctrlU"}
      BY <2>1, <3>2, EscapedOK DEF KeyEffect
    <3>3. CASE k = "backspace" BY <2>1, <3>3, ErasedOK DEF KeyEffect
    <3>4. CASE k = "char" BY <2>1, <3>4, TypedOK DEF KeyEffect
    <3>5. CASE k \in {"ctrlC", "control"}
      BY <2>1, <3>5 DEF KeyEffect, Busy
    <3> QED BY <3>1, <3>2, <3>3, <3>4, <3>5 DEF Key
  <2> DEFINE noted == [a EXCEPT !.touched = 0]
             fresh == [noted EXCEPT !.typed = 0]
  <2>2. /\ noted \in App /\ AppInv(noted) /\ noted.auth = a.auth
        /\ noted.typed = a.typed
    <3>1. 0 \in Maybe(0 .. IdleHide) BY SessionAssumption DEF Maybe
    <3>2. /\ noted \in App /\ noted.auth = a.auth /\ noted.typed = a.typed
          /\ noted.strokes = a.strokes /\ noted.started = a.started
          /\ noted.done = a.done
      BY <3>1 DEF App
    <3> HIDE DEF noted
    <3> QED BY <3>2, SameInv
  <2>3. a.typed = None => fresh \in App /\ AppInv(fresh)
                          /\ fresh.auth = a.auth /\ fresh.typed = 0
    <3> SUFFICES ASSUME a.typed = None
                 PROVE  fresh \in App /\ AppInv(fresh)
                        /\ fresh.auth = a.auth /\ fresh.typed = 0
      OBVIOUS
    <3>1. 0 \in Maybe(0 .. MaxTyped) BY SessionAssumption DEF Maybe
    <3>2. /\ a.auth \in {"Idle", "Typing"}
          /\ a.started = None /\ a.done = None
          /\ Len(a.strokes) = 0 /\ ~(a.auth = "Typing")
      BY <1>2 DEF App, AppInv
    <3>3. noted.strokes = a.strokes /\ noted.started = a.started
          /\ noted.done = a.done
      BY DEF App
    <3> HIDE DEF noted
    <3>4. /\ fresh \in App /\ fresh.auth = a.auth /\ fresh.typed = 0
          /\ fresh.strokes = a.strokes /\ fresh.started = a.started
          /\ fresh.done = a.done
      BY <2>2, <3>1, <3>3 DEF App
    <3> HIDE DEF fresh
    <3> QED BY <3>2, <3>4, TypingOK
  <2>4. CASE a.typed = None
    <3>1. b = noted \/ b \in KeyEffect(fresh, k)
      BY <1>2, <2>4 DEF HandleKey
    <3>2. CASE b = noted BY <1>2, <2>2, <3>2 DEF Busy
    <3>3. CASE b \in KeyEffect(fresh, k)
      <4> HIDE DEF fresh, noted
      <4>1. 0 # None BY SessionAssumption
      <4> QED BY <1>2, <2>1, <2>3, <2>4, <3>3, <4>1
    <3> QED BY <1>2, <3>1, <3>2, <3>3
  <2>5. CASE a.typed # None
    <3>1. b \in KeyEffect(noted, k) BY <1>2, <2>5 DEF HandleKey
    <3> HIDE DEF fresh, noted
    <3> QED BY <1>2, <2>1, <2>2, <2>5, <3>1
  <2> QED BY <2>4, <2>5
<1> QED BY <1>1, <1>2

LEMMA AnsweredOK ==
  ASSUME NEW a \in App, AppInv(a), a.auth = "Verifying",
         NEW r \in {"yes", "no", "error"}, NEW b \in Answered(a, r)
  PROVE  /\ b \in App /\ AppInv(b) /\ b.typed = None
         /\ b.auth = IF r = "yes" THEN "Success" ELSE "Invalid"
<1> DEFINE noted == [a EXCEPT !.done = 0, !.touched = 0, !.message = None]
           told  == [noted EXCEPT !.message = 0]
<1>1. a.typed = None BY DEF AppInv, Busy
<1>2. /\ noted \in App /\ noted.typed = None
      /\ told \in App /\ told.typed = None
  <2>1. /\ 0 \in Maybe(0 .. CompleteFade) /\ 0 \in Maybe(0 .. IdleHide)
        /\ 0 \in Maybe(0 .. MessageTtl) /\ None \in Maybe(0 .. MessageTtl)
    BY SessionAssumption DEF Maybe
  <2>2. noted \in App /\ noted.typed = None BY <1>1, <2>1 DEF App
  <2> HIDE DEF noted
  <2> QED BY <2>1, <2>2 DEF App
<1>3. CASE r = "yes"
  <2>1. b = [noted EXCEPT !.auth = "Success"] BY <1>3 DEF Answered
  <2> HIDE DEF noted
  <2> QED BY <1>2, <1>3, <2>1 DEF App, AppInv, Busy
<1>4. CASE r # "yes"
  <2>1. b = Fail(noted) \/ b = Fail(told) BY <1>4 DEF Answered
  <2> HIDE DEF noted, told
  <2>2. Fail(noted).typed = None /\ Fail(told).typed = None
    BY <1>2 DEF Fail, App
  <2> QED BY <1>2, <1>4, <2>1, <2>2, FailOK
<1> QED BY <1>3, <1>4

LEMMA DrawOK ==
  ASSUME NEW s \in Screen, NEW a \in App, NEW t \in Draw(s, a)
  PROVE  t \in Screen
<1> DEFINE n == s.requested + 1
           v == Visible(a)
           m == MessageLive(a)
           frame == [s EXCEPT !.surface = "pending",
                              !.requested = n,
                              !.indicator = v, !.message = m,
                              !.failed = FALSE]
           later == [s EXCEPT !.queued = TRUE]
           undrawn == [s EXCEPT !.failed = TRUE]
           same == [s EXCEPT !.failed = FALSE]
<1>1. v \in BOOLEAN /\ m \in BOOLEAN /\ n \in Nat
  BY DEF Visible, MessageLive, Within, Screen
<1>2. frame \in Screen
  <2> HIDE DEF n, v, m
  <2> QED BY <1>1 DEF Screen
<1>3. later \in Screen /\ undrawn \in Screen /\ same \in Screen
  BY DEF Screen
<1>4. t \in {s, later, frame, undrawn, same} BY DEF Draw, Screen
<1> HIDE DEF frame, later, undrawn, same
<1> QED BY <1>2, <1>3, <1>4
-----------------------------------------------------------------------------
(* What serving the timers leaves behind, from an App a.                   *)

Fits(a) ==
  /\ a \in App /\ AppInv(a)
  /\ clear # None => a.auth = "Invalid" /\ Settled(a)

Served(a) ==
  /\ app' \in App /\ AppInv(app') /\ screen' \in Screen
  /\ clear' \in Maybe(0 .. FailClear)
  /\ clear' # None => app'.auth = "Invalid" /\ Settled(app')
  /\ messageWasLive' \in BOOLEAN /\ indicatorWasVisible' \in BOOLEAN
  /\ running' \in BOOLEAN /\ unlockOnExit' \in BOOLEAN
  /\ unlockOnExit' => unlockOnExit \/ app'.auth = "Success"
  /\ unlockOnExit => unlockOnExit'
  /\ a.auth \in Busy /\ clear # 0 => app'.auth = a.auth
  /\ clear = 0 => app'.auth = "Idle"
  /\ a.auth \notin Busy => app'.auth # "Success"

Timed ==
  /\ wipe' \in Maybe(0 .. IdleClear) /\ repeat' \in Maybe(Nat)
  /\ app'.typed \notin {None, 0} => wipe' # None

LEMMA VisibleOK ==
  ASSUME NEW a PROVE Visible(a) \in BOOLEAN /\ MessageLive(a) \in BOOLEAN
  BY DEF Visible, MessageLive, Within

LEMMA ConcludeOK ==
  ASSUME TypeOK, NEW a \in App, NEW timer \in Maybe(0 .. FailClear),
         timer # None => a.auth = "Invalid" /\ Settled(a),
         NEW changed \in BOOLEAN, Conclude(a, timer, changed)
  PROVE  /\ app' = a /\ screen' \in Screen
         /\ clear' \in Maybe(0 .. FailClear)
         /\ clear' # None => app'.auth = "Invalid" /\ Settled(app')
         /\ messageWasLive' \in BOOLEAN /\ indicatorWasVisible' \in BOOLEAN
         /\ running' \in BOOLEAN /\ unlockOnExit' \in BOOLEAN
         /\ unlockOnExit' => unlockOnExit \/ app'.auth = "Success"
         /\ unlockOnExit => unlockOnExit'
<1>1. app' = a BY DEF Conclude
<1>2. CASE Unlocks(a)
  <2>1. /\ running' = FALSE /\ unlockOnExit' = TRUE /\ clear' = timer
        /\ UNCHANGED <<edgeVars, screen>>
    BY <1>2 DEF Conclude
  <2> QED BY <1>1, <1>2, <2>1 DEF TypeOK, edgeVars, Unlocks
<1>3. CASE ~Unlocks(a)
  <2>1. /\ clear' = ArmClear(a, timer)
        /\ messageWasLive' = MessageLive(a)
        /\ indicatorWasVisible' = Visible(a)
        /\ screen' \in Draw(screen, a) \/ UNCHANGED screen
        /\ UNCHANGED <<running, unlockOnExit>>
    BY <1>3 DEF Conclude
  <2>2. screen' \in Screen BY <2>1, DrawOK DEF TypeOK
  <2>3. clear' \in Maybe(0 .. FailClear)
        /\ (clear' # None => a.auth = "Invalid" /\ Settled(a))
    BY <2>1, SessionAssumption DEF ArmClear, Maybe
  <2> QED BY <1>1, <2>1, <2>2, <2>3, VisibleOK DEF TypeOK
<1> QED BY <1>2, <1>3

\* An Escape leaves nothing typed and starts no attempt.
LEMMA EscapeWipes ==
  ASSUME NEW a \in App, AppInv(a), NEW b \in HandleKey(a, "escape")
  PROVE  b.typed \in {None, 0} /\ b.auth \in {a.auth, "Idle"}
<1>1. CASE a.auth \in Busy BY <1>1 DEF HandleKey, AppInv
<1>2. CASE a.auth \notin Busy
  <2> DEFINE noted == [a EXCEPT !.touched = 0]
             fresh == [noted EXCEPT !.typed = 0]
  <2>1. noted \in App /\ fresh \in App /\ noted.typed = a.typed
        /\ noted.auth = a.auth
    <3>1. 0 \in Maybe(0 .. IdleHide) /\ 0 \in Maybe(0 .. MaxTyped)
      BY SessionAssumption DEF Maybe
    <3>2. /\ noted \in App /\ noted.typed = a.typed /\ noted.auth = a.auth
      BY <3>1 DEF App
    <3> HIDE DEF noted
    <3> QED BY <3>1, <3>2 DEF App
  <2>2. \/ b = noted /\ a.typed = None
        \/ b \in KeyEffect(fresh, "escape")
        \/ b \in KeyEffect(noted, "escape")
    BY <1>2 DEF HandleKey
  <2> HIDE DEF noted, fresh
  <2>3. ASSUME NEW c \in App, b \in KeyEffect(c, "escape")
        PROVE  b.typed = 0 /\ b.auth = "Idle"
    <3>1. b = [Cleared(c) EXCEPT !.typed = 0] BY <2>3 DEF KeyEffect
    <3> QED BY <3>1, ClearedOK DEF App
  <2> QED BY <2>1, <2>2, <2>3
<1> QED BY <1>1, <1>2

LEMMA ExpireOK ==
  ASSUME TypeOK, NEW a, Fits(a), NEW idle \in Maybe(0 .. IdleClear),
         a.typed \notin {None, 0} => idle # None,
         NEW keyed \in BOOLEAN, Expire(a, idle, keyed)
  PROVE  /\ Served(a) /\ wipe' \in Maybe(0 .. IdleClear)
         /\ app'.typed \notin {None, 0} => wipe' # None
<1> DEFINE cleared == IF clear = 0 THEN Cleared(a) ELSE a
           timer   == IF clear = 0 THEN None ELSE clear
<1>1. timer \in Maybe(0 .. FailClear) /\ (clear = 0 => timer = None)
      /\ (clear # 0 => timer = clear)
  BY DEF TypeOK, Maybe
<1>2. 0 # None BY SessionAssumption
<1>3. /\ cleared \in App /\ AppInv(cleared) /\ cleared.typed = a.typed
      /\ clear # 0 => cleared = a
      /\ clear = 0 => cleared.auth = "Idle" /\ a.auth = "Invalid"
  <2>1. CASE clear = 0
    <3>1. a.auth = "Invalid" /\ a.typed = None
      BY <1>2, <2>1 DEF Fits, AppInv, Busy
    <3>2. cleared = Cleared(a) BY <2>1
    <3> HIDE DEF cleared
    <3>3. /\ cleared \in App /\ cleared.auth = "Idle" /\ cleared.typed = a.typed
          /\ cleared.strokes = <<>> /\ cleared.started = None
          /\ cleared.done = None
      BY <3>2, ClearedOK DEF Fits
    <3>4. AppInv(cleared) BY <3>1, <3>3, BlankOK
    <3> QED BY <2>1, <3>1, <3>3, <3>4
  <2>2. CASE clear # 0 BY <2>2 DEF Fits
  <2> QED BY <2>1, <2>2
<1>4. timer # None => cleared = a /\ a.auth = "Invalid" /\ Settled(a)
  BY <1>1, <1>3 DEF Fits
<1>5. CASE idle = 0 /\ wipe' = None
           /\ \E b \in HandleKey(cleared, "escape") : Conclude(b, timer, TRUE)
  <2>1. PICK b \in HandleKey(cleared, "escape") : Conclude(b, timer, TRUE)
    BY <1>5
  <2> HIDE DEF cleared, timer
  <2>2. /\ b \in App /\ AppInv(b) /\ b.typed \in {None, 0}
        /\ b.auth \in {cleared.auth, "Idle"}
        /\ cleared.auth \in Busy => b = cleared
        /\ cleared.auth \notin Busy => b.auth # "Success"
    BY <1>3, <2>1, HandleKeyOK, EscapeWipes DEF Key
  <2>3. timer # None => b.auth = "Invalid" /\ Settled(b)
    BY <1>4, <2>2 DEF Busy
  <2>4. /\ app' = b /\ screen' \in Screen
        /\ clear' \in Maybe(0 .. FailClear)
        /\ clear' # None => app'.auth = "Invalid" /\ Settled(app')
        /\ messageWasLive' \in BOOLEAN /\ indicatorWasVisible' \in BOOLEAN
        /\ running' \in BOOLEAN /\ unlockOnExit' \in BOOLEAN
        /\ unlockOnExit' => unlockOnExit \/ app'.auth = "Success"
        /\ unlockOnExit => unlockOnExit'
    BY <1>1, <2>1, <2>2, <2>3, ConcludeOK
  <2>5. /\ a.auth \in Busy /\ clear # 0 => b.auth = a.auth
        /\ clear = 0 => b.auth = "Idle"
        /\ a.auth \notin Busy => b.auth # "Success"
    BY <1>3, <2>2 DEF Busy
  <2>6. wipe' \in Maybe(0 .. IdleClear) BY <1>5 DEF Maybe
  <2> QED BY <2>2, <2>4, <2>5, <2>6 DEF Served
<1>6. CASE idle # 0 /\ wipe' = idle /\ Conclude(cleared, timer, keyed \/ clear = 0)
  <2> HIDE DEF cleared, timer
  <2>1. timer # None => cleared.auth = "Invalid" /\ Settled(cleared)
    BY <1>4
  <2>2. (keyed \/ clear = 0) \in BOOLEAN OBVIOUS
  <2>3. /\ app' = cleared /\ screen' \in Screen
        /\ clear' \in Maybe(0 .. FailClear)
        /\ clear' # None => app'.auth = "Invalid" /\ Settled(app')
        /\ messageWasLive' \in BOOLEAN /\ indicatorWasVisible' \in BOOLEAN
        /\ running' \in BOOLEAN /\ unlockOnExit' \in BOOLEAN
        /\ unlockOnExit' => unlockOnExit \/ app'.auth = "Success"
        /\ unlockOnExit => unlockOnExit'
    BY <1>1, <1>3, <1>6, <2>1, <2>2, ConcludeOK
  <2>4. /\ a.auth \in Busy /\ clear # 0 => cleared.auth = a.auth
        /\ clear = 0 => cleared.auth = "Idle"
        /\ a.auth \notin Busy => cleared.auth # "Success"
    BY <1>3 DEF Busy
  <2> QED BY <1>3, <1>6, <2>3, <2>4 DEF Served
<1> QED BY <1>5, <1>6 DEF Expire

LEMMA ServeTimersOK ==
  ASSUME TypeOK, NEW a, Fits(a), a.typed \notin {None, 0} => wipe # None,
         ServeTimers(a)
  PROVE  Served(a) /\ Timed
<1>1. wipe \in Maybe(0 .. IdleClear) /\ repeat \in Maybe(Nat) BY DEF TypeOK
<1>2. CASE repeat' \in Maybe(Nat) /\ Expire(a, wipe, FALSE)
  BY <1>1, <1>2, ExpireOK DEF Timed
<1>3. CASE repeat' \in Maybe(Nat)
           /\ \E k \in Key : \E b \in HandleKey(a, k) : Expire(b, IdleClear, TRUE)
  <2>0. PICK k \in Key : \E b \in HandleKey(a, k) : Expire(b, IdleClear, TRUE)
    BY <1>3
  <2>1. PICK b \in HandleKey(a, k) : Expire(b, IdleClear, TRUE) BY <2>0
  <2>2. /\ b \in App /\ AppInv(b) /\ (a.auth \in Busy => b = a)
        /\ a.auth \notin Busy => b.auth # "Success"
    BY <2>1, HandleKeyOK DEF Fits
  <2>3. Fits(b) BY <2>2 DEF Fits, Busy
  <2>4. IdleClear \in Maybe(0 .. IdleClear) /\ IdleClear # None
    <3>1. IdleClear \in Nat /\ None \notin Nat BY SessionAssumption
    <3> QED BY <3>1 DEF Maybe
  <2>5. Served(b) /\ wipe' \in Maybe(0 .. IdleClear)
        /\ (app'.typed \notin {None, 0} => wipe' # None)
    BY <2>1, <2>3, <2>4, ExpireOK
  <2>6. a.auth \notin Busy => app'.auth # "Success"
    BY <2>2, <2>5 DEF Served, Busy, Fits
  <2>7. Served(a) BY <2>2, <2>5, <2>6 DEF Served
  <2> QED BY <1>3, <2>5, <2>7 DEF Timed
<1>4. repeat' \in Maybe(Nat)
  <2>1. RepeatInterval \in Nat BY SessionAssumption
  <2>2. repeat' = repeat \/ repeat' \in Maybe(0 .. RepeatInterval)
    BY DEF ServeTimers
  <2> QED BY <1>1, <2>1, <2>2 DEF Maybe
<1> QED BY <1>2, <1>3, <1>4 DEF ServeTimers
-----------------------------------------------------------------------------
(* Every step keeps the invariant.                                         *)

LEMMA InvInit == Init => SInv
<1> SUFFICES ASSUME Init PROVE SInv OBVIOUS
<1> USE SessionAssumption
<1>1. <<>> \in Seq(0 .. KeystrokeSettle) /\ Len(<<>>) = 0 OBVIOUS
<1>2. app \in App BY <1>1 DEF Init, App, Maybe
<1>3. screen \in Screen BY DEF Init, Screen
<1>4. AppInv(app)
  <2>1. /\ app.auth = "Idle" /\ app.typed = None /\ app.strokes = <<>>
        /\ app.started = None /\ app.done = None
    BY DEF Init
  <2> QED BY <2>1, BlankOK
<1>5. TypeOK
  <2>1. 0 \in 0 .. MaxAttempt OBVIOUS
  <2>2. /\ verdict \in [1 .. MaxAttempt -> {"none", "yes", "no"}]
        /\ answer \in [1 .. MaxAttempt -> {"none", "yes", "no", "error"}]
    BY DEF Init, Service!Init, Service!Attempt
  <2>3. attempt = 0 /\ phase = "ready" BY DEF Init, Service!Init
  <2> QED BY <1>2, <1>3, <2>1, <2>2, <2>3 DEF Init, TypeOK, Maybe
<1>6. AttemptInv BY DEF Init, AttemptInv, Service!Init
<1>7. TimerInv /\ UnlockInv BY DEF Init, TimerInv, UnlockInv
<1> QED BY <1>4, <1>5, <1>6, <1>7 DEF SInv

\* Steps of the verifier alone.
LEMMA StopOK ==
  ASSUME TypeOK, Service!Stop
  PROVE  /\ phase' = "down" /\ attempt' \in 0 .. MaxAttempt
         /\ attempt' = attempt /\ verdict' = verdict /\ answer' = answer
  BY DEF TypeOK, Service!Stop

LEMMA AskOK ==
  ASSUME TypeOK, Service!Ask
  PROVE  /\ phase = "ready" /\ phase' = "asked"
         /\ attempt' \in 0 .. MaxAttempt /\ attempt' # 0
         /\ attempt' = attempt + 1 /\ verdict' = verdict /\ answer' = answer
  BY SessionAssumption DEF TypeOK, Service!Ask

LEMMA AnswerOK ==
  ASSUME TypeOK, attempt # 0, Service!Answer
  PROVE  /\ phase = "asked" /\ phase' = "ready" /\ attempt' = attempt
         /\ verdict' = verdict
         /\ answer' \in [1 .. MaxAttempt -> {"none", "yes", "no", "error"}]
         /\ answer'[attempt] \in {"yes", "no", "error"}
         /\ answer'[attempt] = "yes" => verdict[attempt] = "yes"
<1>1. PICK r \in {verdict[attempt], "error"} \ {"none"} :
        answer' = [answer EXCEPT ![attempt] = r]
  BY DEF Service!Answer
<1>2. attempt \in 1 .. MaxAttempt BY SessionAssumption DEF TypeOK
<1>3. verdict[attempt] \in {"none", "yes", "no"} BY <1>2 DEF TypeOK
<1>4. r \in {"yes", "no", "error"} /\ (r = "yes" => verdict[attempt] = "yes")
  BY <1>1, <1>3
<1>5. /\ answer' \in [1 .. MaxAttempt -> {"none", "yes", "no", "error"}]
      /\ answer'[attempt] = r
  BY <1>1, <1>2, <1>4 DEF TypeOK
<1> QED BY <1>4, <1>5 DEF Service!Answer

LEMMA DecideOK ==
  ASSUME TypeOK, Service!Decide
  PROVE  /\ phase' = phase /\ attempt' = attempt /\ answer' = answer
         /\ answer[attempt] = "none"
         /\ verdict' \in [1 .. MaxAttempt -> {"none", "yes", "no"}]
<1>1. attempt \in 1 .. MaxAttempt
  BY SessionAssumption DEF TypeOK, Service!Decide
<1> QED BY <1>1 DEF TypeOK, Service!Decide

\* The App keeps its state, and what else the invariant reads is kept too.
LEMMA QuietOK ==
  ASSUME SInv, app' = app, wipe' = wipe, UNCHANGED serviceVars,
         clear' \in {clear, None}, screen' \in Screen, repeat' \in Maybe(Nat),
         UNCHANGED edgeVars, pc' \in {"before", "timed", "asleep", "after"},
         pc # "ended", wake' \in Maybe(Nat), running' \in BOOLEAN,
         unlockOnExit' = unlockOnExit, shutdown' \in BOOLEAN,
         session' = session \/ session' = "locked"
  PROVE  SInv' /\ AuthStep
<1>1. TypeOK'
  BY DEF SInv, TypeOK, edgeVars, serviceVars, Maybe
<1>2. AppInv(app)' BY DEF SInv
<1>3. AttemptInv' BY DEF SInv, AttemptInv, serviceVars
<1>4. TimerInv' BY DEF SInv, TimerInv
<1>5. UnlockInv' BY DEF SInv, UnlockInv
<1>6. AuthStep BY DEF AuthStep
<1> QED BY <1>1, <1>2, <1>3, <1>4, <1>5, <1>6 DEF SInv
\* A key handled by the App, with the attempt it may have submitted.
LEMMA SubmitOK ==
  ASSUME SInv, phase # "down", Submit, app' \in App, AppInv(app'),
         app.auth \in {"Verifying", "Success"} => app'.auth = app.auth,
         app.auth = "Invalid" => app'.auth \in {"Invalid", "Idle"},
         app.auth \notin Busy => app'.auth # "Success",
         pc' # "ended"
  PROVE  /\ AttemptInv' /\ AuthStep
         /\ phase' \in {"ready", "asked"} /\ attempt' \in 0 .. MaxAttempt
         /\ verdict' = verdict /\ answer' = answer
<1>1. /\ app.auth \in {"Idle", "Typing"} \cup Busy
      /\ phase \in {"ready", "asked"}
  BY DEF SInv, TypeOK, App
<1>2. AuthStep BY DEF AuthStep
<1>3. CASE app.auth # "Verifying" /\ app'.auth = "Verifying"
  <2>1. Service!Ask BY <1>3 DEF Submit
  <2>2. TypeOK BY DEF SInv
  <2> QED BY <1>2, <1>3, <2>1, <2>2, AskOK DEF AttemptInv
<1>4. CASE ~(app.auth # "Verifying" /\ app'.auth = "Verifying")
  <2>1. UNCHANGED serviceVars BY <1>4 DEF Submit
  <2>2. app'.auth = "Verifying" <=> app.auth = "Verifying" BY <1>4
  <2>3. app'.auth = "Success" => app.auth = "Success"
    BY <1>1 DEF Busy
  <2> QED BY <1>1, <1>2, <2>1, <2>2, <2>3
          DEF SInv, TypeOK, AttemptInv, serviceVars
<1> QED BY <1>3, <1>4

LEMMA TimePassesOK ==
  ASSUME SInv, TimePasses PROVE SInv' /\ AuthStep
<1>1. /\ app' = Aged(app) /\ app \in App /\ AppInv(app)
  BY DEF SInv, TypeOK, TimePasses
<1>2. /\ app' \in App /\ AppInv(app') /\ app'.auth = app.auth
      /\ app'.typed = app.typed /\ (Settled(app) => Settled(app'))
  BY <1>1, AgedOK
<1>3. /\ clear' \in Maybe(0 .. FailClear) /\ (clear' = None <=> clear = None)
      /\ wipe' \in Maybe(0 .. IdleClear) /\ (wipe' = None <=> wipe = None)
  <2>1. FailClear \in Nat /\ IdleClear \in Nat BY SessionAssumption
  <2> QED BY <2>1, SoonerOK DEF SInv, TypeOK, TimePasses
<1>4. \A left \in Maybe(Nat) : Sooner(left) \in Maybe(Nat)
  BY SessionAssumption DEF Sooner, Maybe
<1>5. repeat' \in Maybe(Nat) /\ wake' \in Maybe(Nat)
  BY <1>4 DEF SInv, TypeOK, TimePasses
<1>6. UNCHANGED <<edgeVars, screen, pc, exitVars, serviceVars>>
  BY DEF TimePasses
<1>7. TypeOK'
  BY <1>2, <1>3, <1>5, <1>6
     DEF SInv, TypeOK, edgeVars, exitVars, serviceVars
<1>8. AttemptInv' /\ TimerInv' /\ UnlockInv'
  BY <1>2, <1>3, <1>6
     DEF SInv, AttemptInv, TimerInv, UnlockInv, exitVars, serviceVars
<1>9. AuthStep BY <1>2 DEF AuthStep
<1> QED BY <1>2, <1>7, <1>8, <1>9 DEF SInv

LEMMA PressOK ==
  ASSUME SInv, NEW k \in Key, Press(k) PROVE SInv' /\ AuthStep
<1>1. PICK a \in HandleKey(app, k) : app' = a /\ screen' \in Draw(screen, a)
  BY DEF Press
<1>2. /\ app \in App /\ AppInv(app) /\ screen \in Screen
  BY DEF SInv, TypeOK
<1>3. /\ app' \in App /\ AppInv(app') /\ (app.auth \in Busy => app' = app)
      /\ app.auth \notin Busy => app'.auth # "Success"
  BY <1>1, <1>2, HandleKeyOK
<1>4. screen' \in Screen BY <1>1, <1>2, <1>3, DrawOK
<1>5. /\ pc' = "after" /\ pc # "ended" /\ phase # "down" /\ Submit
      /\ UNCHANGED <<edgeVars, running, shutdown, session, wake, unlockOnExit>>
  BY DEF Press, Dispatch, SInv, AttemptInv
<1>6. /\ repeat' \in {None, RepeatDelay} /\ wipe' = IdleClear
      /\ clear' = (IF app'.auth = "Invalid" THEN clear ELSE None)
  BY DEF Press, OnKeyPress
<1>7. /\ IdleClear \in Nat /\ RepeatDelay \in Nat /\ None \notin Nat
  BY SessionAssumption
<1>8. /\ AttemptInv' /\ AuthStep
      /\ phase' \in {"ready", "asked"} /\ attempt' \in 0 .. MaxAttempt
      /\ verdict' = verdict /\ answer' = answer
  BY <1>3, <1>5, SubmitOK DEF Busy
<1>9. /\ wipe' \in Maybe(0 .. IdleClear) /\ wipe' # None
      /\ repeat' \in Maybe(Nat) /\ clear' \in Maybe(0 .. FailClear)
  BY <1>6, <1>7 DEF Maybe, SInv, TypeOK
<1>10. TypeOK'
  BY <1>3, <1>4, <1>5, <1>8, <1>9 DEF SInv, TypeOK, edgeVars
<1>11. TimerInv'
  <2>1. clear' # None => app'.auth = "Invalid" /\ clear # None BY <1>6
  <2>2. clear # None => app' = app BY <1>3 DEF SInv, TimerInv, Busy
  <2> QED BY <1>9, <2>1, <2>2 DEF SInv, TimerInv
<1>12. UnlockInv' BY <1>3, <1>5 DEF SInv, UnlockInv, Busy
<1> QED BY <1>3, <1>8, <1>10, <1>11, <1>12 DEF SInv

LEMMA TickOK ==
  ASSUME SInv, Tick PROVE SInv' /\ AuthStep
<1>1. TypeOK /\ Fits(app) /\ (app.typed \notin {None, 0} => wipe # None)
  BY DEF SInv, TypeOK, Fits, TimerInv
<1>2. Served(app) /\ Timed BY <1>1, ServeTimersOK DEF Tick
<1>3. /\ pc' = "before" /\ pc = "after" /\ Submit
      /\ UNCHANGED <<wake, shutdown, session>>
  BY DEF Tick
<1>4. phase # "down" BY <1>3 DEF SInv, AttemptInv
<1>5. clear = 0 => app.auth = "Invalid"
  BY SessionAssumption DEF SInv, TimerInv
<1>6. /\ app.auth \in {"Verifying", "Success"} => app'.auth = app.auth
      /\ app.auth = "Invalid" => app'.auth \in {"Invalid", "Idle"}
      /\ app.auth \notin Busy => app'.auth # "Success"
  BY <1>2, <1>5 DEF Served, Busy
<1>7. app' \in App /\ AppInv(app') BY <1>2 DEF Served
<1>8. /\ AttemptInv' /\ AuthStep
      /\ phase' \in {"ready", "asked"} /\ attempt' \in 0 .. MaxAttempt
      /\ verdict' = verdict /\ answer' = answer
  BY <1>3, <1>4, <1>6, <1>7, SubmitOK
<1>9. TypeOK'
  BY <1>1, <1>2, <1>3, <1>8 DEF TypeOK, Served, Timed
<1>10. TimerInv' BY <1>2 DEF TimerInv, Served, Timed
<1>11. UnlockInv' BY <1>2, <1>3, <1>6 DEF SInv, UnlockInv, Served
<1> QED BY <1>7, <1>8, <1>9, <1>10, <1>11 DEF SInv

LEMMA TickAnsweredOK ==
  ASSUME SInv, TickAnswered PROVE SInv' /\ AuthStep
<1>1. TypeOK /\ Service!Answer BY DEF SInv, TickAnswered
<1>2. /\ phase = "asked" /\ app.auth = "Verifying" /\ attempt # 0
      /\ attempt \in 1 .. MaxAttempt
  BY <1>1, SessionAssumption DEF SInv, TypeOK, AttemptInv, Service!Answer
<1>3. /\ phase' = "ready" /\ attempt' = attempt /\ verdict' = verdict
      /\ answer' \in [1 .. MaxAttempt -> {"none", "yes", "no", "error"}]
      /\ answer'[attempt] \in {"yes", "no", "error"}
      /\ answer'[attempt] = "yes" => verdict[attempt] = "yes"
  BY <1>1, <1>2, AnswerOK
<1>4. PICK a \in Answered(app, answer'[attempt]) : ServeTimers(a)
  BY DEF TickAnswered
<1>5. /\ a \in App /\ AppInv(a) /\ a.typed = None
      /\ a.auth = IF answer'[attempt] = "yes" THEN "Success" ELSE "Invalid"
  <2>1. app \in App /\ AppInv(app) BY DEF SInv, TypeOK
  <2> QED BY <1>2, <1>3, <1>4, <2>1, AnsweredOK
<1>6. clear = None BY <1>2 DEF SInv, TimerInv
<1>7. Fits(a) BY <1>5, <1>6 DEF Fits
<1>8. Served(a) /\ Timed BY <1>1, <1>4, <1>5, <1>7, ServeTimersOK
<1>9. app'.auth = IF answer'[attempt] = "yes" THEN "Success" ELSE "Invalid"
  <2>1. clear # 0 BY <1>6, SessionAssumption
  <2>2. a.auth \in Busy BY <1>5 DEF Busy
  <2> QED BY <1>5, <1>8, <2>1, <2>2 DEF Served
<1>10. pc' = "before" /\ pc = "after" /\ UNCHANGED <<wake, shutdown, session>>
  BY DEF TickAnswered
<1>11. TypeOK'
  BY <1>1, <1>3, <1>8, <1>10 DEF TypeOK, Served, Timed
<1>12. AttemptInv'
  <2>1. app'.auth # "Verifying" BY <1>9
  <2>2. app'.auth = "Success" => answer'[attempt] = "yes" BY <1>9
  <2> QED BY <1>2, <1>3, <1>10, <2>1, <2>2 DEF AttemptInv
<1>13. TimerInv' BY <1>8 DEF TimerInv, Served, Timed
<1>14. UnlockInv' BY <1>2, <1>8, <1>10 DEF SInv, UnlockInv, Served
<1>15. AppInv(app)' BY <1>8 DEF Served
<1>16. AuthStep BY <1>2, <1>9 DEF AuthStep
<1> QED BY <1>11, <1>12, <1>13, <1>14, <1>15, <1>16 DEF SInv
LEMMA PlanOK ==
  ASSUME SInv, Plan PROVE SInv' /\ AuthStep
<1>1. wake' \in Maybe(Nat)
  <2>1. PICK w \in (IF Timers = {} THEN {None} ELSE Soonest(Timers)) : wake' = w
    BY DEF Plan
  <2>2. \A t \in Timers : t \in Nat
    <3>1. /\ clear \in Maybe(Nat) /\ wipe \in Maybe(Nat) /\ repeat \in Maybe(Nat)
      BY SessionAssumption DEF SInv, TypeOK, Maybe
    <3>2. MessageLive(app) => MessageTtl - app.message \in Nat
      BY SessionAssumption DEF SInv, TypeOK, App, Maybe, MessageLive, Within
    <3>3. Within(app.touched, IdleHide) => IdleHide - app.touched \in Nat
      BY SessionAssumption DEF SInv, TypeOK, App, Maybe, Within
    <3>4. Frame \in Nat BY SessionAssumption
    <3> QED BY <3>1, <3>2, <3>3, <3>4 DEF Timers, Maybe
  <2> QED BY <2>1, <2>2 DEF Soonest, Maybe
<1>2. screen' \in Screen
  <2> DEFINE n == screen.owed + screen.requested
  <2>1. screen \in Screen BY DEF SInv, TypeOK
  <2>2. n \in Nat BY <2>1 DEF Screen
  <2>3. screen' = [screen EXCEPT !.owed = n, !.requested = 0] BY DEF Plan
  <2> HIDE DEF n
  <2> QED BY <2>1, <2>2, <2>3 DEF Screen
<1> QED
  BY <1>1, <1>2, QuietOK
     DEF Plan, timerVars, exitVars, SInv, TypeOK

LEMMA ConfigureOK ==
  ASSUME SInv, Configure PROVE SInv' /\ AuthStep
<1> DEFINE bare == [screen EXCEPT !.surface = "ready", !.indicator = FALSE]
<1>1. screen \in Screen /\ app \in App BY DEF SInv, TypeOK
<1>2. bare \in Screen BY <1>1 DEF Screen
<1>3. screen' \in Draw(bare, app) BY DEF Configure
<1> HIDE DEF bare
<1>4. screen' \in Screen BY <1>1, <1>2, <1>3, DrawOK
<1> QED
  BY <1>4, QuietOK DEF Configure, Dispatch, timerVars, SInv, TypeOK

LEMMA FrameDoneOK ==
  ASSUME SInv, FrameDone PROVE SInv' /\ AuthStep
<1> DEFINE n == screen.owed - 1
           ready == [screen EXCEPT !.surface = "ready", !.queued = FALSE,
                                   !.owed = n]
<1>1. screen \in Screen /\ app \in App BY DEF SInv, TypeOK
<1>2. n \in Nat BY <1>1 DEF FrameDone, Screen
<1>3. ready \in Screen
  <2> HIDE DEF n
  <2> QED BY <1>1, <1>2 DEF Screen
<1>4. screen' \in Draw(ready, app) \/ screen' = ready BY DEF FrameDone
<1> HIDE DEF ready
<1>5. screen' \in Screen BY <1>1, <1>3, <1>4, DrawOK
<1> QED
  BY <1>5, QuietOK DEF FrameDone, Dispatch, timerVars, SInv, TypeOK

LEMMA RedrawOK ==
  ASSUME SInv, Redraw PROVE SInv' /\ AuthStep
<1>1. screen \in Screen /\ app \in App BY DEF SInv, TypeOK
<1>2. screen' \in Screen BY <1>1, DrawOK DEF Redraw
<1> QED
  BY <1>2, QuietOK DEF Redraw, Dispatch, timerVars, SInv, TypeOK

\* The loop's other steps change nothing but its own state.
LEMMA LoopOK ==
  ASSUME SInv,
         \/ Sleep \/ TimeOut \/ Locked \/ Finished \/ Release \/ Interrupt
         \/ Signal
  PROVE  SInv' /\ AuthStep
<1> USE QuietOK DEF SInv, TypeOK, timerVars, exitVars, Dispatch
<1>1. None \in Maybe(Nat) BY DEF Maybe
<1>2. CASE Sleep BY <1>2 DEF Sleep
<1>3. CASE TimeOut BY <1>3 DEF TimeOut
<1>4. CASE Locked BY <1>4 DEF Locked
<1>5. CASE Finished BY <1>5 DEF Finished
<1>6. CASE Release BY <1>1, <1>6 DEF Release
<1>7. CASE Interrupt BY <1>7 DEF Interrupt
<1>8. CASE Signal BY <1>8 DEF Signal
<1> QED BY <1>2, <1>3, <1>4, <1>5, <1>6, <1>7, <1>8

\* The end of the process.
LEMMA EndOK ==
  ASSUME SInv, Exit \/ Crash PROVE SInv' /\ AuthStep
<1>1. /\ Service!Stop /\ pc' = "ended" /\ app' = app
      /\ UNCHANGED <<timerVars, edgeVars, screen, wake>>
      /\ UNCHANGED <<running, unlockOnExit, shutdown>>
      /\ session' = session \/ (session' = "unlocked" /\ unlockOnExit)
  BY DEF Exit, Crash, exitVars
<1>2. /\ phase' = "down" /\ attempt' \in 0 .. MaxAttempt
      /\ attempt' = attempt /\ verdict' = verdict /\ answer' = answer
  BY <1>1, StopOK DEF SInv
<1>3. TypeOK' BY <1>1, <1>2 DEF SInv, TypeOK, timerVars, edgeVars
<1>4. AttemptInv' BY <1>1, <1>2 DEF SInv, AttemptInv
<1>5. TimerInv' /\ UnlockInv'
  BY <1>1 DEF SInv, TimerInv, UnlockInv, timerVars
<1>6. AppInv(app)' BY <1>1 DEF SInv
<1>7. AuthStep BY <1>1 DEF AuthStep
<1> QED BY <1>3, <1>4, <1>5, <1>6, <1>7 DEF SInv

LEMMA DecidedOK ==
  ASSUME SInv, Decide PROVE SInv' /\ AuthStep
<1>1. /\ Service!Decide /\ app' = app
      /\ UNCHANGED <<timerVars, edgeVars, screen, pc, wake, exitVars>>
  BY DEF Decide
<1>2. /\ phase' = phase /\ attempt' = attempt /\ answer' = answer
      /\ answer[attempt] = "none"
      /\ verdict' \in [1 .. MaxAttempt -> {"none", "yes", "no"}]
  BY <1>1, DecideOK DEF SInv
<1>3. TypeOK' BY <1>1, <1>2 DEF SInv, TypeOK, timerVars, edgeVars, exitVars
<1>4. AttemptInv' BY <1>1, <1>2 DEF SInv, AttemptInv
<1>5. TimerInv' /\ UnlockInv'
  BY <1>1 DEF SInv, TimerInv, UnlockInv, timerVars, exitVars
<1>6. AppInv(app)' BY <1>1 DEF SInv
<1>7. AuthStep BY <1>1 DEF AuthStep
<1> QED BY <1>3, <1>4, <1>5, <1>6, <1>7 DEF SInv

LEMMA InvStep == SInv /\ [Next]_vars => SInv' /\ [AuthStep]_vars
<1> SUFFICES ASSUME SInv, [Next]_vars PROVE SInv' /\ [AuthStep]_vars
  OBVIOUS
<1>1. CASE UNCHANGED vars
  BY <1>1
     DEF vars, timerVars, edgeVars, exitVars, serviceVars, SInv, TypeOK,
         AttemptInv, TimerInv, UnlockInv
<1>2. CASE Next
  <2>1. CASE TimePasses BY <2>1, TimePassesOK
  <2>2. CASE Plan BY <2>2, PlanOK
  <2>3. CASE Sleep \/ TimeOut BY <2>3, LoopOK
  <2>4. CASE TickAnswered BY <2>4, TickAnsweredOK
  <2>5. CASE Tick BY <2>5, TickOK
  <2>6. CASE Event
    BY <2>6, LoopOK, ConfigureOK, FrameDoneOK, RedrawOK, PressOK DEF Event
  <2>7. CASE Exit \/ Crash BY <2>7, EndOK
  <2>8. CASE Decide BY <2>8, DecidedOK
  <2> QED BY <1>2, <2>1, <2>2, <2>3, <2>4, <2>5, <2>6, <2>7, <2>8 DEF Next
<1> QED BY <1>1, <1>2

-----------------------------------------------------------------------------
(* The theorems.                                                           *)

\* The App, its timers, its screen and the verifier always go together as SInv
\* says, for any durations and any number of attempts (app.rs, wayland.rs).
THEOREM SessionInvariance == Spec => []SInv
<1>1. Init => SInv BY InvInit
<1>2. SInv /\ [Next]_vars => SInv' BY InvStep
<1> QED BY <1>1, <1>2, PTL DEF Spec

\* Every variable keeps its type.
THEOREM SessionTypes == Spec => []TypeOK
<1>1. SInv => TypeOK BY DEF SInv
<1> QED BY <1>1, SessionInvariance, PTL

\* The session is unlocked only on PAM's verdict on the last attempt
\* (app.rs:451-455, wayland.rs:47-49, 1062-1067).
THEOREM UnlockIsEarned == Spec => []UnlockedByVerdict
<1>1. SInv => UnlockedByVerdict
  BY DEF SInv, UnlockInv, AttemptInv, UnlockedByVerdict
<1> QED BY <1>1, SessionInvariance, PTL

\* A password in memory has a deadline, and is gone once submitted
\* (wayland.rs:121-123, app.rs:402).
THEOREM PasswordLeaves == Spec => []PasswordIsTransient
<1>1. SInv => PasswordIsTransient
  BY DEF SInv, AppInv, TimerInv, PasswordIsTransient
<1> QED BY <1>1, SessionInvariance, PTL

\* The indicator has one keystroke for each character of the password
\* (app.rs:345-392).
THEOREM KeystrokesFollow == Spec => []KeystrokesMatch
<1>1. SInv => KeystrokesMatch BY DEF SInv, AppInv, KeystrokesMatch
<1> QED BY <1>1, SessionInvariance, PTL

\* The deadline that clears a failure meets that failure
\* (wayland.rs:533-540).
THEOREM ClearIsTimely == Spec => []ClearMeetsItsFailure
<1>1. SInv => ClearMeetsItsFailure
  BY DEF SInv, TimerInv, ClearMeetsItsFailure
<1> QED BY <1>1, SessionInvariance, PTL

\* Only the verifier's answer ends an attempt, and success is final
\* (app.rs:322-329, 440-473).
THEOREM AuthIsOrderly == Spec => AuthSteps
<1>1. SInv /\ [Next]_vars => [AuthStep]_vars BY InvStep
<1> QED BY <1>1, SessionInvariance, PTL DEF Spec, AuthSteps
=============================================================================
