------------------------ MODULE CongestionController ------------------------
(***************************************************************************)
(* The adaptive congestion controller of crates/transport: smoothed round  *)
(* trip time, loss and jitter drive an additive increase and a             *)
(* multiplicative decrease of the encoder's bitrate and frame rate, and    *)
(* the encoder is told only when the change is large enough.               *)
(*                                                                         *)
(* The network decides which samples arrive: any of Offered, or from some  *)
(* moment on the same one again and again.  `applied' is what the encoder  *)
(* was told last.                                                          *)
(***************************************************************************)
EXTENDS Integers, TLAPS

CONSTANTS MinBitrate, MaxBitrate, InitialBitrate,
          MinFps, MaxFps, InitialFps,
          TargetRtt, MaxJitter, LossHigh, LossLow,
          Increase,                     \* additive_increase_bps
          DecreaseNum, DecreaseDen,     \* multiplicative_decrease_scaled / 1_000_000
          BitrateDelta,                 \* reconfigure_bitrate_delta_bps
          HeavyLoss,                    \* 100_000 per million
          FpsBitrate,                   \* 10_000_000 bps
          FpsDown, FpsUp, FpsDelta,     \* 15, 5 and 15 frames per second
          Offered                       \* samples: [rtt, loss, jitter]

\* AdaptiveCongestionConfig::validate.
ASSUME ConfigAssumption ==
  /\ \A n \in {MinBitrate, MaxBitrate, InitialBitrate, MinFps, MaxFps, InitialFps, MaxJitter,
               LossHigh, LossLow, BitrateDelta, HeavyLoss, FpsBitrate} : n \in Nat
  /\ \A n \in {TargetRtt, Increase, DecreaseNum, FpsDown, FpsUp, FpsDelta} : n \in Nat \ {0}
  /\ MinBitrate <= InitialBitrate /\ InitialBitrate <= MaxBitrate
  /\ MinFps <= InitialFps /\ InitialFps <= MaxFps
  /\ DecreaseDen \in Nat /\ DecreaseNum < DecreaseDen
  /\ \A s \in Offered : s.rtt \in Nat /\ s.loss \in Nat /\ s.jitter \in Nat

VARIABLES
  bitrate, fps,               \* current_bitrate_bps, current_fps
  rtt, loss, jitter,          \* the smoothed values
  lastBitrate, lastFps,       \* last_reconfigure_*
  updated,                    \* last_update_ns # 0
  applied,                    \* history: the rates in the latest reconfiguration
  network                     \* the samples that may arrive from now on

vars == <<bitrate, fps, rtt, loss, jitter, lastBitrate, lastFps, updated, applied, network>>

Init ==
  /\ bitrate = InitialBitrate
  /\ fps = InitialFps
  /\ rtt = TargetRtt
  /\ loss = 0
  /\ jitter = 0
  /\ lastBitrate = InitialBitrate
  /\ lastFps = InitialFps
  /\ updated = FALSE
  /\ applied = [bitrate |-> InitialBitrate, fps |-> InitialFps]
  /\ network = Offered

Clamp(x, lo, hi) == IF x < lo THEN lo ELSE IF x > hi THEN hi ELSE x

Distance(x, y) == IF x < y THEN y - x ELSE x - y

Smoothed(old, sample) == (3 * old + sample) \div 4

Reduced(b) == Clamp((b * DecreaseNum) \div DecreaseDen, MinBitrate, MaxBitrate)

Raised(b) == Clamp(b + Increase, MinBitrate, MaxBitrate)

\* saturating_sub, then clamp.
LoweredFps(f) == Clamp(IF f < FpsDown THEN 0 ELSE f - FpsDown, MinFps, MaxFps)

RaisedFps(f, b) == IF b > FpsBitrate /\ f < MaxFps THEN Clamp(f + FpsUp, MinFps, MaxFps) ELSE f

\* Faulty: a congested round trip does not count.
IsCongestedByLoss(r, l, j) == l > LossHigh

IsCongested(r, l, j) == l > LossHigh \/ r > 2 * TargetRtt \/ j > 2 * MaxJitter

IsClean(r, l, j) == l <= LossLow /\ r <= TargetRtt /\ j <= MaxJitter

\* Faulty: a change of the frame rate alone is not announced.
NeedsReconfigureBitrate(b, f, forced) == forced \/ Distance(b, lastBitrate) >= BitrateDelta

NeedsReconfigure(b, f, forced) ==
  forced \/ Distance(b, lastBitrate) >= BitrateDelta \/ Distance(f, lastFps) >= FpsDelta

\* One feedback sample, at a time that may still be zero.
OnSample(s) ==
  LET r == IF rtt = 0 THEN s.rtt ELSE Smoothed(rtt, s.rtt)
      l == IF loss = 0 /\ ~ updated THEN s.loss ELSE Smoothed(loss, s.loss)
      j == IF jitter = 0 /\ ~ updated THEN s.jitter ELSE Smoothed(jitter, s.jitter)
      congested == IsCongested(r, l, j)
      clean == ~ congested /\ IsClean(r, l, j)
      forced == congested /\ l > HeavyLoss
      b == IF congested THEN Reduced(bitrate) ELSE IF clean THEN Raised(bitrate) ELSE bitrate
      f == IF forced THEN LoweredFps(fps) ELSE IF clean THEN RaisedFps(fps, b) ELSE fps
      told == NeedsReconfigure(b, f, forced)
  IN  /\ rtt' = r /\ loss' = l /\ jitter' = j
      /\ bitrate' = b /\ fps' = f
      /\ lastBitrate' = IF told THEN b ELSE lastBitrate
      /\ lastFps' = IF told THEN f ELSE lastFps
      /\ applied' = IF told THEN [bitrate |-> b, fps |-> f] ELSE applied
      /\ updated' \in {updated, TRUE}
      /\ UNCHANGED network

\* A loss reported by the decoder.  The frame rate that is announced here is not
\* remembered in last_reconfigure_fps.
OnLossEvent ==
  /\ network = Offered
  /\ bitrate' = Reduced(bitrate)
  /\ lastBitrate' = Reduced(bitrate)
  /\ applied' = [bitrate |-> Reduced(bitrate), fps |-> fps]
  /\ updated' \in {updated, TRUE}
  /\ UNCHANGED <<fps, rtt, loss, jitter, lastFps, network>>

OnEpochBump ==
  /\ network = Offered
  /\ lastBitrate' = bitrate
  /\ lastFps' = fps
  /\ applied' = [bitrate |-> bitrate, fps |-> fps]
  /\ updated' \in {updated, TRUE}
  /\ UNCHANGED <<bitrate, fps, rtt, loss, jitter, network>>

Feedback == \E s \in network : OnSample(s)

NetworkSettles ==
  /\ network = Offered
  /\ network' \in {{s} : s \in Offered}
  /\ UNCHANGED <<bitrate, fps, rtt, loss, jitter, lastBitrate, lastFps, updated, applied>>

Next == Feedback \/ OnLossEvent \/ OnEpochBump \/ NetworkSettles

Spec == Init /\ [][Next]_vars

-----------------------------------------------------------------------------
(* Properties.                                                             *)

MaxBitrateBps == Clamp((bitrate * 12) \div 10, 0, MaxBitrate)

\* The targets stay within the configured range on every path, and the burst
\* limit given with a target is never below the target.
RatesInRange ==
  /\ bitrate \in MinBitrate .. MaxBitrate
  /\ fps \in MinFps .. MaxFps
  /\ MaxBitrateBps >= bitrate
  /\ updated \in BOOLEAN

\* The rates the encoder was told last never lag the current targets by a whole
\* reconfiguration step, although on_loss_event does not record the frame rate
\* it announces.
EncoderTracksTarget ==
  /\ Distance(bitrate, applied.bitrate) < IF BitrateDelta = 0 THEN 1 ELSE BitrateDelta
  /\ Distance(fps, applied.fps) < FpsDelta

\* Both: the targets stay in their range and the rates the encoder was told last
\* never lag them by a whole reconfiguration step (on_feedback, on_loss_event).
EncoderInStep == RatesInRange /\ EncoderTracksTarget

Settled(s) == network = {s}

\* floor((3x + s) / 4) climbs towards s only up to s - 3, so a sample is sure to be
\* felt when one of its values exceeds the threshold by four units or more.
Exceeds(r, l, j, by) == r >= 2 * TargetRtt + by \/ l >= LossHigh + by \/ j >= 2 * MaxJitter + by
Felt(s) == Exceeds(s.rtt, s.loss, s.jitter, 4)

\* Once only one clean sample arrives, at the thresholds or below, the integer
\* smoothing forgets the past and the targets climb back to their maxima.
Recovers ==
  (\E s \in Offered : Settled(s) /\ IsClean(s.rtt, s.loss, s.jitter))
    ~> bitrate = MaxBitrate /\ (MaxBitrate > FpsBitrate => fps = MaxFps)

\* Once only one sample arrives that exceeds a threshold by four units or more, the
\* bitrate falls to its floor.
BacksOff == (\E s \in Offered : Settled(s) /\ Felt(s)) ~> bitrate = MinBitrate

\* The other side of that edge: samples up to three units above the thresholds are
\* never felt by a controller that runs and is not congested already, and its
\* bitrate does not fall.
SlightlyAbove ==
  \A s \in Offered :
    Settled(s) /\ ~ Felt(s) /\ updated /\ rtt # 0 /\ ~ Exceeds(rtt, loss, jitter, 1) =>
      bitrate' >= bitrate /\ ~ Exceeds(rtt', loss', jitter', 1)

-----------------------------------------------------------------------------
(* Proofs.                                                                 *)

Step == IF BitrateDelta = 0 THEN 1 ELSE BitrateDelta

\* Why on_loss_event may leave last_reconfigure_fps alone: a frame rate falls only
\* in a step that announces it, so since the last recorded announcement it only
\* rose, and whatever was announced in between lies between that and the target.
RatesInStep ==
  /\ bitrate \in MinBitrate .. MaxBitrate
  /\ fps \in MinFps .. MaxFps
  /\ lastBitrate \in Int /\ lastFps \in Int
  /\ applied \in [bitrate : Int, fps : Int]
  /\ applied.bitrate = lastBitrate
  /\ Distance(bitrate, lastBitrate) < Step
  /\ lastFps <= applied.fps /\ applied.fps <= fps
  /\ fps - lastFps < FpsDelta

StepInv == updated \in BOOLEAN /\ RatesInStep

USE SMTT(40)

\* What the assumption says of the constants the rates are computed from.
LEMMA ConfigFacts ==
  /\ MinBitrate \in Nat /\ MaxBitrate \in Nat /\ InitialBitrate \in Nat
  /\ MinFps \in Nat /\ MaxFps \in Nat /\ InitialFps \in Nat
  /\ MinBitrate <= InitialBitrate /\ InitialBitrate <= MaxBitrate
  /\ MinFps <= InitialFps /\ InitialFps <= MaxFps
  /\ BitrateDelta \in Nat /\ FpsBitrate \in Nat
  /\ Increase \in Nat /\ FpsUp \in Nat /\ FpsDown \in Nat
  /\ FpsDelta \in Nat /\ FpsDelta > 0
  /\ DecreaseNum \in Nat /\ DecreaseDen \in Nat /\ DecreaseDen > 0
<1>1. /\ MinBitrate \in Nat /\ MaxBitrate \in Nat /\ InitialBitrate \in Nat
      /\ MinFps \in Nat /\ MaxFps \in Nat /\ InitialFps \in Nat
      /\ BitrateDelta \in Nat /\ FpsBitrate \in Nat
  BY ConfigAssumption, Zenon
<1>2. /\ Increase \in Nat \ {0} /\ FpsUp \in Nat \ {0} /\ FpsDown \in Nat \ {0}
      /\ FpsDelta \in Nat \ {0} /\ DecreaseNum \in Nat \ {0}
  BY ConfigAssumption, Zenon
<1>3. /\ MinBitrate <= InitialBitrate /\ InitialBitrate <= MaxBitrate
      /\ MinFps <= InitialFps /\ InitialFps <= MaxFps
      /\ DecreaseDen \in Nat /\ DecreaseNum < DecreaseDen
  BY ConfigAssumption, Zenon
<1> QED
  BY <1>1, <1>2, <1>3

\* Clamp returns a value of the range it is given.
LEMMA ClampInRange ==
  ASSUME NEW x \in Int, NEW lo \in Int, NEW hi \in Int, lo <= hi
  PROVE  Clamp(x, lo, hi) \in lo .. hi
BY DEF Clamp

\* Whatever a step does to a rate, the result is a rate of the configured range,
\* and a frame rate that is raised does not fall (on_feedback, on_loss_event).
LEMMA RatesStayInRange ==
  ASSUME NEW b \in MinBitrate .. MaxBitrate, NEW f \in MinFps .. MaxFps,
         NEW c \in MinBitrate .. MaxBitrate
  PROVE  /\ Reduced(b) \in MinBitrate .. MaxBitrate
         /\ Raised(b) \in MinBitrate .. MaxBitrate
         /\ LoweredFps(f) \in MinFps .. MaxFps
         /\ RaisedFps(f, c) \in MinFps .. MaxFps
         /\ RaisedFps(f, c) >= f
<1> USE ConfigFacts
<1>1. b * DecreaseNum \in Int
  OBVIOUS
<1>2. (b * DecreaseNum) \div DecreaseDen \in Int
  BY <1>1
<1>3. Reduced(b) \in MinBitrate .. MaxBitrate
  BY <1>2, ClampInRange DEF Reduced
<1>4. Raised(b) \in MinBitrate .. MaxBitrate
  BY ClampInRange DEF Raised
<1>5. LoweredFps(f) \in MinFps .. MaxFps
  BY DEF LoweredFps, Clamp
<1>6. RaisedFps(f, c) \in MinFps .. MaxFps /\ RaisedFps(f, c) >= f
  BY DEF RaisedFps, Clamp
<1> QED
  BY <1>3, <1>4, <1>5, <1>6

\* StepInv holds when the controller is created.
LEMMA StepInvInit == Init => StepInv
<1> SUFFICES ASSUME Init
             PROVE  StepInv
  OBVIOUS
<1>1. RatesInStep
  BY ConfigFacts DEF Init, RatesInStep, Distance, Step
<1> QED
  BY ZenonT(40), <1>1 DEF Init, StepInv

\* Every call of the controller preserves StepInv.
LEMMA StepInvNext == StepInv /\ [Next]_vars => StepInv'
<1> USE ConfigFacts
<1> SUFFICES ASSUME StepInv, [Next]_vars
             PROVE  StepInv'
  OBVIOUS
<1> USE DEF StepInv
<1>1. ASSUME NEW s \in network, OnSample(s)
      PROVE  RatesInStep'
  <2> DEFINE r == IF rtt = 0 THEN s.rtt ELSE Smoothed(rtt, s.rtt)
             l == IF loss = 0 /\ ~ updated THEN s.loss ELSE Smoothed(loss, s.loss)
             j == IF jitter = 0 /\ ~ updated THEN s.jitter ELSE Smoothed(jitter, s.jitter)
             congested == IsCongested(r, l, j)
             clean == ~ congested /\ IsClean(r, l, j)
             forced == congested /\ l > HeavyLoss
             b == IF congested THEN Reduced(bitrate) ELSE IF clean THEN Raised(bitrate) ELSE bitrate
             f == IF forced THEN LoweredFps(fps) ELSE IF clean THEN RaisedFps(fps, b) ELSE fps
             told == NeedsReconfigure(b, f, forced)
  <2>1. /\ bitrate' = b /\ fps' = f
        /\ lastBitrate' = IF told THEN b ELSE lastBitrate
        /\ lastFps' = IF told THEN f ELSE lastFps
        /\ applied' = IF told THEN [bitrate |-> b, fps |-> f] ELSE applied
        /\ updated' \in {updated, TRUE}
    BY ZenonT(40), <1>1 DEF OnSample
  <2> HIDE DEF r, l, j, congested, clean
  <2>2. b \in MinBitrate .. MaxBitrate
    BY RatesStayInRange DEF RatesInStep
  <2> HIDE DEF b, forced
  <2>3. f \in MinFps .. MaxFps /\ (~ forced => f >= fps)
    BY <2>2, RatesStayInRange DEF RatesInStep
  <2> HIDE DEF f
  <2>4. ~ told => ~ forced /\ Distance(b, lastBitrate) < Step /\ Distance(f, lastFps) < FpsDelta
    BY <2>2, <2>3 DEF NeedsReconfigure, RatesInStep, Distance, Step
  <2> HIDE DEF told
  <2>5. CASE told
    BY <2>1, <2>2, <2>3, <2>5 DEF RatesInStep, Distance, Step
  <2>6. CASE ~ told
    BY <2>1, <2>2, <2>3, <2>4, <2>6 DEF RatesInStep, Distance, Step
  <2> QED
    BY <2>5, <2>6
<1>2. ASSUME OnLossEvent
      PROVE  RatesInStep'
  <2>1. Reduced(bitrate) \in MinBitrate .. MaxBitrate
    BY RatesStayInRange DEF RatesInStep
  <2> QED
    BY <1>2, <2>1 DEF OnLossEvent, RatesInStep, Distance, Step
<1>3. ASSUME OnEpochBump
      PROVE  RatesInStep'
  BY <1>3 DEF OnEpochBump, RatesInStep, Distance, Step
<1>4. ASSUME NetworkSettles
      PROVE  RatesInStep'
  BY <1>4 DEF NetworkSettles, RatesInStep, Distance, Step
<1>5. ASSUME UNCHANGED vars
      PROVE  RatesInStep'
  BY <1>5 DEF vars, RatesInStep, Distance, Step
<1>6. updated' \in BOOLEAN
  <2>1. ASSUME NEW s \in network, OnSample(s)
        PROVE  updated' \in {updated, TRUE}
    BY ZenonT(40), <2>1 DEF OnSample
  <2>2. updated' \in {updated, TRUE}
    BY ZenonT(40), <2>1 DEF Next, Feedback, OnLossEvent, OnEpochBump, NetworkSettles, vars
  <2> QED
    BY ZenonT(40), <2>2
<1>7. RatesInStep'
  BY <1>1, <1>2, <1>3, <1>4, <1>5 DEF Next, Feedback
<1> QED
  BY <1>6, <1>7

\* StepInv says what EncoderInStep says, and why.
LEMMA StepInvImplies == StepInv => EncoderInStep
<1> USE ConfigFacts
<1> SUFFICES ASSUME StepInv
             PROVE  EncoderInStep
  OBVIOUS
<1>1. MaxBitrateBps >= bitrate
  BY DEF MaxBitrateBps, Clamp, StepInv, RatesInStep
<1>2. EncoderTracksTarget
  BY DEF EncoderTracksTarget, StepInv, RatesInStep, Distance, Step
<1> QED
  BY <1>1, <1>2 DEF EncoderInStep, RatesInRange, StepInv, RatesInStep

\* For every configuration that validate accepts and every order of samples,
\* losses and epoch bumps, the rates stay in range and the encoder is never a
\* whole reconfiguration step behind them.
THEOREM EncoderStaysInStep == Spec => []EncoderInStep
BY StepInvInit, StepInvNext, StepInvImplies, PTL DEF Spec

=============================================================================
