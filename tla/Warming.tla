------------------------------- MODULE Warming -------------------------------
(***************************************************************************)
(* The pure rules of src/src/warming.rs: how much an IP may send, when it  *)
(* is quarantined or graduated, and when a message is tried again.         *)
(*                                                                         *)
(* Rates are compared by cross-multiplication.  The code divides two u32   *)
(* as f64 and compares with a decimal literal: division and literals are   *)
(* correctly rounded and the operands have 32 bits, so both agree.         *)
(*                                                                         *)
(* An operator named Faulty_X is X with a plausible mistake; no            *)
(* specification uses it.                                                  *)
(***************************************************************************)
EXTENDS Integers, Sequences

Isps    == {"gmail", "microsoft", "yahoo", "apple", "other"}
Roles   == {"transactional", "marketing", "canary"}
Healths == {"warmup", "active", "quarantine"}

-----------------------------------------------------------------------------
(* Quotas *)

\* First day of each step of the curve and its base volume.
Curve == {<<0, 20>>, <<1, 50>>, <<2, 100>>, <<3, 180>>, <<4, 300>>, <<5, 500>>,
          <<6, 800>>, <<7, 1200>>, <<8, 2000>>, <<11, 3500>>, <<14, 6000>>,
          <<21, 12000>>, <<30, 50000>>}

\* Percentage of the base volume, per mailbox provider.
IspFactor == [gmail |-> 100, microsoft |-> 80, yahoo |-> 70, apple |-> 50,
              other |-> 110]

warmup_daily_cap(age, isp) ==
  LET step == CHOOSE s \in Curve : /\ s[1] <= age
                                   /\ \A t \in Curve : t[1] <= age => s[1] >= t[1]
  IN  (step[2] * IspFactor[isp]) \div 100

HourlyActive == [gmail |-> 4000, microsoft |-> 2500, yahoo |-> 1500,
                 apple |-> 800, other |-> 3000]

isp_hourly_cap(isp, health) ==
  CASE health = "active"     -> HourlyActive[isp]
    [] health = "warmup"     -> HourlyActive[isp] \div 8
    [] health = "quarantine" -> 0

Least(a, b) == IF a <= b THEN a ELSE b
SaturatingSub(a, b) == IF a >= b THEN a - b ELSE 0

\* The sends of the domain are not compared with its own cap.
Faulty_remaining_quota(ip_age, domain_age, health, isp, ip_today, domain_today, ip_hour) ==
  IF health = "quarantine" THEN 0
  ELSE Least(SaturatingSub(warmup_daily_cap(ip_age, isp), ip_today),
             SaturatingSub(isp_hourly_cap(isp, health), ip_hour))

\* What is left of the tightest of the three caps.
remaining_quota(ip_age, domain_age, health, isp, ip_today, domain_today, ip_hour) ==
  IF health = "quarantine" THEN 0
  ELSE Least(Least(SaturatingSub(warmup_daily_cap(ip_age, isp), ip_today),
                   SaturatingSub(warmup_daily_cap(domain_age, isp), domain_today)),
             SaturatingSub(isp_hourly_cap(isp, health), ip_hour))

-----------------------------------------------------------------------------
(* Health *)

\* part / whole > per / mille, and <; a rate over no sends is 0.
RateAbove(part, whole, per, mille) == whole > 0 /\ part * mille > per * whole
RateBelow(part, whole, per, mille) == whole = 0 \/ part * mille < per * whole

Complaining(s) == s.sent_7d >= 100 /\ RateAbove(s.complaint_7d, s.sent_7d, 1, 1000)
Bouncing(s)    == s.sent_7d >= 100 /\ RateAbove(s.bounce_7d, s.sent_7d, 5, 100)

Graduated(s) ==
  /\ s.age >= 14
  /\ s.sent_7d >= 500
  /\ RateBelow(s.bounce_7d, s.sent_7d, 2, 100)
  /\ RateBelow(s.complaint_7d, s.sent_7d, 8, 10000)
  /\ ~s.blocked_48h

\* A quarantined IP is judged like any other.
Faulty_evaluate_health(s) ==
  IF s.blocked_48h \/ Complaining(s) \/ Bouncing(s) THEN "quarantine"
  ELSE IF Graduated(s) THEN "active"
  ELSE "warmup"

evaluate_health(s) ==
  IF s.health = "quarantine" \/ s.blocked_48h \/ Complaining(s) \/ Bouncing(s)
    THEN "quarantine"
  ELSE IF Graduated(s) THEN "active"
  ELSE "warmup"

-----------------------------------------------------------------------------
(* Retries: delays in seconds before attempt n + 1; none after the last *)

RetryDelays == <<120, 600, 1800, 7200, 28800, 86400, 86400>>
LastRetry == 7

NoRetry == -1

retry_delay_secs(n) ==
  IF n = 0 THEN 0 ELSE IF n <= LastRetry THEN RetryDelays[n] ELSE NoRetry

-----------------------------------------------------------------------------
(***************************************************************************)
(* classify_isp.  A domain is the sequence of its labels, already lower    *)
(* case and without a trailing dot.  The code compares the last two labels *)
(* with each name, so a name of three labels in that list is never equal   *)
(* to them; and "mail.protection.outlook.com" has four, so it is never     *)
(* equal to the last three.                                                *)
(***************************************************************************)
LastLabels(d, n) ==
  IF Len(d) <= n THEN d ELSE SubSeq(d, Len(d) - n + 1, Len(d))

GmailDomains == {<<"gmail", "com">>, <<"googlemail", "com">>, <<"google", "com">>}
MicrosoftDomains ==
  {<<"outlook", "com">>, <<"hotmail", "com">>, <<"live", "com">>, <<"msn", "com">>,
   <<"outlook", "fr">>, <<"hotmail", "co", "uk">>, <<"live", "co", "uk">>}
YahooDomains ==
  {<<"yahoo", "com">>, <<"yahoo", "co", "uk">>, <<"yahoo", "fr">>,
   <<"ymail", "com">>, <<"aol", "com">>, <<"rocketmail", "com">>}
AppleDomains == {<<"icloud", "com">>, <<"me", "com">>, <<"mac", "com">>}

classify_isp(d) ==
  LET two == LastLabels(d, 2) three == LastLabels(d, 3) IN
  CASE two \in GmailDomains     -> "gmail"
    [] two \in MicrosoftDomains -> "microsoft"
    [] two \in YahooDomains     -> "yahoo"
    [] two \in AppleDomains     -> "apple"
    [] three = <<"mail", "protection", "outlook", "com">>
       \/ two = <<"office365", "com">> -> "microsoft"
    [] OTHER -> "other"
=============================================================================
