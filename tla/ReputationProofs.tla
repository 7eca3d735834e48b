-------------------------- MODULE ReputationProofs --------------------------
(***************************************************************************)
(* The rules of warming.rs and reputation.rs for every value of the        *)
(* delivery signals.                                                       *)
(***************************************************************************)
EXTENDS Reputation, TLAPS

(***************************************************************************)
(* evaluate_health and decide_volume, written apart, agree on every        *)
(* signal: an IP that the one quarantines the other stops.                 *)
(***************************************************************************)
THEOREM JudgesAgree ==
  ASSUME NEW s \in Signals
  PROVE  HealthAgreesWithVolume(s)
  BY DEF HealthAgreesWithVolume, evaluate_health, decide_volume, Stopped

\* Over the same sends, t tells nothing better of the IP than s.
Worse(t, s) ==
  /\ t.sent_7d = s.sent_7d /\ t.sent_24h = s.sent_24h /\ t.age = s.age
  /\ t.bounce_7d >= s.bounce_7d /\ t.complaint_7d >= s.complaint_7d
  /\ t.bounce_24h >= s.bounce_24h /\ t.deferred_24h >= s.deferred_24h
  /\ s.blocked_48h => t.blocked_48h
  /\ s.dnsbl_listed => t.dnsbl_listed
  /\ t.health = s.health \/ t.health = "quarantine"

LEMMA RatesGrow ==
  ASSUME NEW whole \in Nat, NEW p \in Nat, NEW q \in Nat, p <= q
  PROVE  /\ RateAbove(p, whole, 1, 1000) => RateAbove(q, whole, 1, 1000)
         /\ RateAbove(p, whole, 5, 100) => RateAbove(q, whole, 5, 100)
         /\ RateAbove(p, whole, 3, 100) => RateAbove(q, whole, 3, 100)
         /\ RateAbove(p, whole, 2, 100) => RateAbove(q, whole, 2, 100)
         /\ RateAbove(p, whole, 20, 100) => RateAbove(q, whole, 20, 100)
         /\ RateBelow(q, whole, 1, 100) => RateBelow(p, whole, 1, 100)
         /\ RateBelow(q, whole, 5, 100) => RateBelow(p, whole, 5, 100)
  BY DEF RateAbove, RateBelow

(***************************************************************************)
(* Bad news never raises the volume: over the same sends, more bounces,    *)
(* complaints or deferrals, a block, a listing or a quarantine never let   *)
(* an IP send more, whichever rule of decide_volume decided before.        *)
(***************************************************************************)
THEOREM BadNewsLowersVolume ==
  ASSUME NEW s \in Signals, NEW t \in Signals, Worse(t, s)
  PROVE  Multiplier[decide_volume(t)] <= Multiplier[decide_volume(s)]
<1> DEFINE S == Stopped(s)
           T == Stopped(t)
<1>1. Stopped(s) => Stopped(t)
  BY RatesGrow DEF Worse, Stopped, Complaining, Bouncing, Signals
<1>2. BouncingToday(s) => BouncingToday(t)
  BY RatesGrow DEF Worse, BouncingToday, Signals
<1>3. PushedBack(s) => PushedBack(t)
  BY RatesGrow DEF Worse, PushedBack, Signals
<1>4. Clean(t) => Clean(s) \/ Stopped(t)
  <2> SUFFICES ASSUME Clean(t), ~Stopped(t) PROVE Clean(s)
    OBVIOUS
  <2>1. s.health = "active" /\ ~s.dnsbl_listed /\ s.sent_7d >= 500 /\ s.complaint_7d = 0
    BY DEF Worse, Clean, Stopped, Signals
  <2>2. RateBelow(s.bounce_7d, s.sent_7d, 1, 100) /\ RateBelow(s.deferred_24h, s.sent_24h, 5, 100)
    BY RatesGrow DEF Worse, Clean, Signals
  <2> QED
    BY <2>1, <2>2 DEF Clean
<1> QED
  BY <1>1, <1>2, <1>3, <1>4 DEF decide_volume, Multiplier

(***************************************************************************)
(* apply_volume turns a volume of stop into no sends at all, and lets only *)
(* a push exceed the quota, by at most a fifth.                            *)
(***************************************************************************)
THEOREM VolumeWithinQuota ==
  ASSUME NEW left \in Nat, NEW d \in Decisions
  PROVE  /\ apply_volume(left, "stop") = 0
         /\ d # "push" => apply_volume(left, d) <= left
         /\ 5 * apply_volume(left, d) <= 6 * left
<1>1. Multiplier[d] \in {0, 25, 50, 100, 120} /\ (d # "push" => Multiplier[d] <= 100)
  BY DEF Multiplier, Decisions
<1>2. Multiplier["stop"] = 0
  BY DEF Multiplier
<1>3. CASE Multiplier[d] = 0
  BY <1>2, <1>3 DEF apply_volume
<1>4. CASE Multiplier[d] = 25
  BY <1>2, <1>4 DEF apply_volume
<1>5. CASE Multiplier[d] = 50
  BY <1>2, <1>5 DEF apply_volume
<1>6. CASE Multiplier[d] = 100
  BY <1>2, <1>6 DEF apply_volume
<1>7. CASE Multiplier[d] = 120
  BY <1>1, <1>2, <1>7 DEF apply_volume
<1> QED
  BY <1>1, <1>3, <1>4, <1>5, <1>6, <1>7

(***************************************************************************)
(* How much each decision withholds at the gate of enqueue_raw, which only *)
(* asks whether apply_volume is 0: a cut to 25% holds back the last three  *)
(* sends of a quota of any size, a slow-down to 50% the last one, a hold   *)
(* and a push none.                                                        *)
(***************************************************************************)
THEOREM GateWithholds ==
  ASSUME NEW left \in Nat
  PROVE  /\ apply_volume(left, "cut") = 0 <=> left <= 3
         /\ apply_volume(left, "slow") = 0 <=> left <= 1
         /\ apply_volume(left, "hold") = 0 <=> left = 0
         /\ apply_volume(left, "push") = 0 <=> left = 0
<1>1. /\ Multiplier["cut"] = 25 /\ Multiplier["slow"] = 50
      /\ Multiplier["hold"] = 100 /\ Multiplier["push"] = 120
  BY DEF Multiplier
<1>2. apply_volume(left, "cut") = 0 <=> left <= 3
  BY <1>1 DEF apply_volume
<1>3. apply_volume(left, "slow") = 0 <=> left <= 1
  BY <1>1 DEF apply_volume
<1>4. apply_volume(left, "hold") = 0 <=> left = 0
  BY <1>1 DEF apply_volume
<1>5. apply_volume(left, "push") = 0 <=> left = 0
  BY <1>1 DEF apply_volume
<1> QED
  BY <1>2, <1>3, <1>4, <1>5

\* The step of the curve a number of days has reached.
IsStep(s, age) == s \in Curve /\ s[1] <= age /\ \A t \in Curve : t[1] <= age => s[1] >= t[1]

LEMMA StepReached ==
  ASSUME NEW age \in Nat
  PROVE  \E s \in Curve : IsStep(s, age)
<1>1. CASE age <= 7
  <2>1. \/ age = 0 \/ age = 1 \/ age = 2 \/ age = 3
        \/ age = 4 \/ age = 5 \/ age = 6 \/ age = 7
    BY <1>1
  <2>2. \E s \in Curve : s[1] = age
    BY <2>1 DEF Curve
  <2> QED
    BY <2>2 DEF IsStep, Curve
<1>2. CASE age \in 8 .. 10
  <2>1. IsStep(<<8, 2000>>, age)
    BY <1>2 DEF IsStep, Curve
  <2> QED
    BY <2>1 DEF IsStep
<1>3. CASE age \in 11 .. 13
  <2>1. IsStep(<<11, 3500>>, age)
    BY <1>3 DEF IsStep, Curve
  <2> QED
    BY <2>1 DEF IsStep
<1>4. CASE age \in 14 .. 20
  <2>1. IsStep(<<14, 6000>>, age)
    BY <1>4 DEF IsStep, Curve
  <2> QED
    BY <2>1 DEF IsStep
<1>5. CASE age \in 21 .. 29
  <2>1. IsStep(<<21, 12000>>, age)
    BY <1>5 DEF IsStep, Curve
  <2> QED
    BY <2>1 DEF IsStep
<1>6. CASE age >= 30
  <2>1. IsStep(<<30, 50000>>, age)
    BY <1>6 DEF IsStep, Curve
  <2> QED
    BY <2>1 DEF IsStep
<1> QED
  BY <1>1, <1>2, <1>3, <1>4, <1>5, <1>6

LEMMA CapOfStep ==
  ASSUME NEW age \in Nat, NEW isp \in Isps
  PROVE  \E s \in Curve : /\ IsStep(s, age)
                          /\ warmup_daily_cap(age, isp) = (s[2] * IspFactor[isp]) \div 100
<1> DEFINE step == CHOOSE s \in Curve : /\ s[1] <= age
                                        /\ \A t \in Curve : t[1] <= age => s[1] >= t[1]
<1>1. IsStep(step, age)
  BY StepReached DEF IsStep
<1>2. warmup_daily_cap(age, isp) = (step[2] * IspFactor[isp]) \div 100
  BY DEF warmup_daily_cap
<1> HIDE DEF step
<1>3. step \in Curve
  BY <1>1 DEF IsStep
<1> WITNESS step \in Curve
<1> QED
  BY <1>1, <1>2

LEMMA CapType ==
  ASSUME NEW age \in Nat, NEW isp \in Isps
  PROVE  warmup_daily_cap(age, isp) \in Nat
<1>1. PICK s \in Curve : warmup_daily_cap(age, isp) = (s[2] * IspFactor[isp]) \div 100
  BY CapOfStep
<1>2. s[2] \in Nat
  BY DEF Curve
<1>3. IspFactor[isp] \in {100, 80, 70, 50, 110}
  BY DEF IspFactor, Isps
<1> QED
  BY <1>1, <1>2, <1>3

(***************************************************************************)
(* The test ramp_is_monotonic for every pair of ages and every provider:   *)
(* an older IP or domain never has a smaller daily cap.                    *)
(***************************************************************************)
THEOREM RampIsMonotonic ==
  ASSUME NEW a \in Nat, NEW b \in Nat, a <= b, NEW isp \in Isps
  PROVE  warmup_daily_cap(a, isp) <= warmup_daily_cap(b, isp)
<1>1. PICK s \in Curve : /\ IsStep(s, a)
                         /\ warmup_daily_cap(a, isp) = (s[2] * IspFactor[isp]) \div 100
  BY CapOfStep
<1>2. PICK t \in Curve : /\ IsStep(t, b)
                         /\ warmup_daily_cap(b, isp) = (t[2] * IspFactor[isp]) \div 100
  BY CapOfStep
<1>3. \A x \in Curve : x[1] \in Nat /\ x[2] \in Nat
  BY DEF Curve
<1>4. s[1] <= t[1]
  BY <1>1, <1>2, <1>3 DEF IsStep
<1>5. \A x, y \in Curve : x[1] <= y[1] => x[2] <= y[2]
  BY DEF Curve
<1>6. s[2] <= t[2] /\ s[2] \in Nat /\ t[2] \in Nat
  BY <1>3, <1>4, <1>5
<1>7. \A f \in {100, 80, 70, 50, 110} : (s[2] * f) \div 100 <= (t[2] * f) \div 100
  BY <1>6
<1>8. IspFactor[isp] \in {100, 80, 70, 50, 110}
  BY DEF IspFactor, Isps
<1> QED
  BY <1>1, <1>2, <1>7, <1>8

(***************************************************************************)
(* remaining_quota is the greatest number of further sends that keeps the  *)
(* caps of the IP's day, the domain's day and the IP's hour.               *)
(***************************************************************************)
THEOREM QuotaKeepsEveryCap ==
  ASSUME NEW a \in Nat, NEW b \in Nat, NEW h \in Healths, NEW isp \in Isps,
         NEW ip \in Nat, NEW dom \in Nat, NEW hour \in Nat,
         NEW more \in Nat \ {0}
  PROVE  more <= remaining_quota(a, b, h, isp, ip, dom, hour)
           <=> /\ h # "quarantine"
               /\ ip + more <= warmup_daily_cap(a, isp)
               /\ dom + more <= warmup_daily_cap(b, isp)
               /\ hour + more <= isp_hourly_cap(isp, h)
<1>1. isp_hourly_cap(isp, h) \in Nat
  <2>1. HourlyActive[isp] \in Nat
    BY DEF HourlyActive, Isps
  <2> QED
    BY <2>1 DEF isp_hourly_cap, Healths
<1>2. \A cap, used \in Nat : more <= SaturatingSub(cap, used) <=> used + more <= cap
  BY DEF SaturatingSub
<1>3. \A x, y \in Nat : more <= Least(x, y) <=> more <= x /\ more <= y
  BY DEF Least
<1>4. \A cap, used \in Nat : SaturatingSub(cap, used) \in Nat
  BY DEF SaturatingSub
<1>5. \A x, y \in Nat : Least(x, y) \in Nat
  BY DEF Least
<1> DEFINE left_ip     == SaturatingSub(warmup_daily_cap(a, isp), ip)
           left_domain == SaturatingSub(warmup_daily_cap(b, isp), dom)
           left_hour   == SaturatingSub(isp_hourly_cap(isp, h), hour)
<1>6. /\ left_ip \in Nat /\ left_domain \in Nat /\ left_hour \in Nat
      /\ more <= left_ip <=> ip + more <= warmup_daily_cap(a, isp)
      /\ more <= left_domain <=> dom + more <= warmup_daily_cap(b, isp)
      /\ more <= left_hour <=> hour + more <= isp_hourly_cap(isp, h)
  BY <1>1, <1>2, <1>4, CapType
<1>7. remaining_quota(a, b, h, isp, ip, dom, hour) =
        IF h = "quarantine" THEN 0 ELSE Least(Least(left_ip, left_domain), left_hour)
  BY DEF remaining_quota
<1> HIDE DEF left_ip, left_domain, left_hour
<1>8. more <= Least(Least(left_ip, left_domain), left_hour)
        <=> more <= left_ip /\ more <= left_domain /\ more <= left_hour
  BY <1>3, <1>5, <1>6
<1> QED
  BY <1>6, <1>7, <1>8

(***************************************************************************)
(* The retry schedule of warming.rs backs off: it ends after LastRetry     *)
(* retries, and until then no delay is shorter than the one before.        *)
(***************************************************************************)
THEOREM RetriesBackOff ==
  ASSUME NEW n \in Nat
  PROVE  /\ retry_delay_secs(n) = NoRetry <=> n > LastRetry
         /\ n < LastRetry => retry_delay_secs(n) <= retry_delay_secs(n + 1)
<1>1. CASE n > 7
  BY <1>1 DEF retry_delay_secs, NoRetry, LastRetry
<1>2. CASE n <= 7
  <2>1. n = 0 \/ n = 1 \/ n = 2 \/ n = 3 \/ n = 4 \/ n = 5 \/ n = 6 \/ n = 7
    BY <1>2
  <2>2. \A k \in 1 .. 7 : RetryDelays[k] \in Nat
    BY DEF RetryDelays
  <2>3. \A k \in 1 .. 6 : RetryDelays[k] <= RetryDelays[k + 1]
    BY DEF RetryDelays
  <2> QED
    BY <2>1, <2>2, <2>3 DEF retry_delay_secs, NoRetry, LastRetry
<1> QED
  BY <1>1, <1>2

-----------------------------------------------------------------------------
(* The provider of a domain *)

LEMMA LastLabelsType ==
  ASSUME NEW L, NEW d \in Seq(L), NEW n \in Nat
  PROVE  LastLabels(d, n) \in Seq(L) /\ Len(LastLabels(d, n)) <= n
<1>1. CASE Len(d) <= n
  BY <1>1 DEF LastLabels
<1>2. CASE Len(d) > n
  <2>1. LastLabels(d, n) = SubSeq(d, Len(d) - n + 1, Len(d))
    BY <1>2 DEF LastLabels
  <2>2. SubSeq(d, Len(d) - n + 1, Len(d)) \in Seq(L)
        /\ Len(SubSeq(d, Len(d) - n + 1, Len(d))) = n
    BY <1>2
  <2> QED
    BY <2>1, <2>2
<1> QED
  BY <1>1, <1>2

(***************************************************************************)
(* classify_isp compares two labels, whatever names are in its lists: the  *)
(* clause on the last three never holds.                                   *)
(***************************************************************************)
LEMMA ThirdLabelIsIdle ==
  ASSUME NEW d \in Seq(STRING)
  PROVE  LastLabels(d, 3) # <<"mail", "protection", "outlook", "com">>
<1> DEFINE name == <<"mail", "protection", "outlook", "com">>
           last == LastLabels(d, 3)
<1>1. Len(last) <= 3
  BY LastLabelsType
<1>2. Len(name) = 4
  OBVIOUS
<1> HIDE DEF name, last
<1>3. last # name
  BY <1>1, <1>2
<1> QED
  BY <1>3 DEF name, last

(***************************************************************************)
(* Two domains with the same last two labels are one provider's.           *)
(***************************************************************************)
THEOREM LastTwoLabelsDecide ==
  ASSUME NEW d \in Seq(STRING), NEW e \in Seq(STRING),
         LastLabels(d, 2) = LastLabels(e, 2)
  PROVE  classify_isp(d) = classify_isp(e)
  BY ThirdLabelIsIdle DEF classify_isp

(***************************************************************************)
(* classify_isp names hotmail.co.uk, live.co.uk and yahoo.co.uk            *)
(* (warming.rs:163), but no domain under co.uk is ever counted for a       *)
(* provider of its own.                                                    *)
(***************************************************************************)
THEOREM CoUkIsOther ==
  ASSUME NEW d \in Seq(STRING), LastLabels(d, 2) = <<"co", "uk">>
  PROVE  classify_isp(d) = "other"
<1>1. LastLabels(d, 2) \notin GmailDomains
  BY DEF GmailDomains
<1>2. LastLabels(d, 2) \notin MicrosoftDomains
  BY DEF MicrosoftDomains
<1>3. LastLabels(d, 2) \notin YahooDomains
  BY DEF YahooDomains
<1>4. LastLabels(d, 2) \notin AppleDomains
  BY DEF AppleDomains
<1>5. LastLabels(d, 2) # <<"office365", "com">>
  OBVIOUS
<1> QED
  BY <1>1, <1>2, <1>3, <1>4, <1>5, ThirdLabelIsIdle DEF classify_isp
=============================================================================
