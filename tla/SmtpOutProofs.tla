--------------------------- MODULE SmtpOutProofs ----------------------------
(***************************************************************************)
(* The invariants of SmtpOut for any hosts, MX answers and replies, and    *)
(* any number of hosts tried in a call and of calls.                       *)
(***************************************************************************)
EXTENDS SmtpOut, FiniteSetTheorems, TLAPS

-----------------------------------------------------------------------------
(* The rules of bounce.rs and of the MX order *)

(***************************************************************************)
(* Every reply has a verdict.                                              *)
(***************************************************************************)
LEMMA VerdictType ==
  ASSUME NEW text
  PROVE  classify_error(text) \in Classes
<1> DEFINE code == extract_code(text.numbers)
<1>1. classify_smtp(code, text.words) \in Classes
  <2> HIDE DEF code
  <2> QED
    BY DEF classify_smtp, Classes
<1> QED
  BY <1>1 DEF classify_error

(***************************************************************************)
(* The code is found behind numbers that do not read as one.               *)
(***************************************************************************)
LEMMA CodeFound ==
  ASSUME NEW numbers \in Seq(Nat), NEW c \in 200 .. 599,
         \A i \in DOMAIN numbers : numbers[i] \notin 200 .. 599
  PROVE  extract_code(numbers \o <<c>>) = c
<1> DEFINE s == numbers \o <<c>>
           n == Len(numbers) + 1
           codes == {i \in DOMAIN s : s[i] \in 200 .. 599}
<1>1. n \in DOMAIN s /\ s[n] = c /\ n \in Nat
  OBVIOUS
<1>2. ASSUME NEW i \in DOMAIN s, s[i] \in 200 .. 599 PROVE i = n
  <2>1. i \in 1 .. n
    OBVIOUS
  <2>2. i \in 1 .. Len(numbers) => s[i] = numbers[i] /\ i \in DOMAIN numbers
    OBVIOUS
  <2> QED
    BY <1>2, <2>1, <2>2
<1>3. extract_code(s) = IF codes = {} THEN 450
                        ELSE s[CHOOSE i \in codes : \A k \in codes : i <= k]
  BY DEF extract_code
<1> HIDE DEF n, s
<1>4. n \in codes /\ \A i \in codes : i = n
  BY <1>1, <1>2
<1> HIDE DEF codes
<1>5. (CHOOSE i \in codes : \A k \in codes : i <= k) = n
  BY <1>1, <1>4
<1>6. extract_code(s) = c
  BY <1>1, <1>3, <1>4, <1>5
<1> QED
  BY <1>6 DEF s

LEMMA NoCode ==
  ASSUME NEW numbers, \A i \in DOMAIN numbers : numbers[i] \notin 200 .. 599
  PROVE  extract_code(numbers) = 450
  BY DEF extract_code

LEMMA SilenceDefers == classify_smtp(450, {}) = "defer"
<1>1. ~is_block(450, {}) /\ ~is_hard({}) /\ ~Permanent(450)
  BY DEF is_block, is_hard, Permanent
<1> QED
  BY <1>1 DEF classify_smtp

LEMMA NoSuccess ==
  ASSUME NEW code \in 400 .. 599, NEW words
  PROVE  classify_smtp(code, words) # "success"
<1>1. code \notin 200 .. 299
  OBVIOUS
<1> QED
  BY <1>1 DEF classify_smtp

(***************************************************************************)
(* Which replies end the retries (finish gives up on Hard and Block): one  *)
(* with a phrase of the block or of the hard rule, however temporary its   *)
(* code, or a permanent one without a phrase of the soft rule.             *)
(***************************************************************************)
Final(class) == class \in {"hard", "block"}

THEOREM FinalByPhraseOrCode ==
  ASSUME NEW code \in Nat, NEW words
  PROVE  Final(classify_smtp(code, words)) <=>
           /\ code \notin 200 .. 299
           /\ \/ is_block(code, words) \/ is_hard(words)
              \/ Permanent(code) /\ ~is_soft(words)
<1>1. CASE code \in 200 .. 299
  BY <1>1 DEF classify_smtp, Final
<1>2. CASE code \notin 200 .. 299 /\ (is_block(code, words) \/ is_hard(words))
  BY <1>2 DEF classify_smtp, Final
<1>3. CASE code \notin 200 .. 299 /\ ~is_block(code, words) /\ ~is_hard(words)
  BY <1>3 DEF classify_smtp, Final
<1> QED
  BY <1>1, <1>2, <1>3

(***************************************************************************)
(* A longer text is no milder: what a host adds to a reply that is final   *)
(* leaves it final, unless it is one of the six phrases of the soft rule.  *)
(***************************************************************************)
THEOREM LongerTextStaysFinal ==
  ASSUME NEW code \in Nat, NEW words, NEW more,
         words \subseteq more, (more \ words) \cap SoftPhrases = {},
         Final(classify_smtp(code, words))
  PROVE  Final(classify_smtp(code, more))
<1>1. is_block(code, words) => is_block(code, more)
  BY DEF is_block
<1>2. is_hard(words) => is_hard(more)
  BY DEF is_hard
<1>3. is_soft(more) => is_soft(words)
  BY DEF is_soft
<1> QED
  BY <1>1, <1>2, <1>3, FinalByPhraseOrCode

LEMMA ReplyVerdict ==
  ASSUME NEW r \in Replies
  PROVE  /\ classify_error(TextOf(r)) = classify_smtp(r.code, r.words)
         /\ r.code \in 400 .. 599
<1>1. r.code \in 400 .. 599
  BY DeliveryAssumption
<1> DEFINE c == r.code
           none == <<>>
<1>2. none \in Seq(Nat) /\ \A i \in DOMAIN none : none[i] \notin 200 .. 599
  OBVIOUS
<1>3. c \in 200 .. 599
  BY <1>1
<1>4. none \o <<c>> = <<c>>
  OBVIOUS
<1> HIDE DEF c, none
<1>5. extract_code(<<c>>) = c
  BY <1>2, <1>3, <1>4, CodeFound
<1>6. TextOf(r).numbers = <<c>> /\ TextOf(r).words = r.words
  BY DEF TextOf, c
<1>7. classify_error(TextOf(r)) = classify_smtp(c, r.words)
  BY <1>5, <1>6 DEF classify_error
<1> QED
  BY <1>1, <1>7 DEF c

(***************************************************************************)
(* A name that reads as no code and has no phrase of the rules changes     *)
(* nothing: silence is temporary and a reply speaks for itself.            *)
(***************************************************************************)
LEMMA HonestVerdicts ==
  ASSUME NEW h \in Hosts, NameText[h].words = {},
         \A i \in DOMAIN NameText[h].numbers : NameText[h].numbers[i] \notin 200 .. 599
  PROVE  /\ classify_error(Named(h, Silence)) = "defer"
         /\ \A r \in Replies :
              classify_error(Named(h, TextOf(r))) = classify_error(TextOf(r))
<1> DEFINE name == NameText[h].numbers
<1>1. name \in Seq(Nat)
  BY DeliveryAssumption
<1> HIDE DEF name
<1>8. \A i \in DOMAIN name : name[i] \notin 200 .. 599
  BY DEF name
<1>2. Named(h, Silence) = [numbers |-> name \o <<>>, words |-> {}]
  BY DEF Named, Silence, name
<1>3. \A r \in Replies : Named(h, TextOf(r)) = [numbers |-> name \o <<r.code>>, words |-> r.words]
  BY DEF Named, TextOf, name
<1>4. name \o <<>> = name
  BY <1>1
<1>5. extract_code(name) = 450
  BY <1>8, NoCode
<1>6. classify_error(Named(h, Silence)) = "defer"
  BY <1>2, <1>4, <1>5, SilenceDefers DEF classify_error
<1>7. ASSUME NEW r \in Replies
      PROVE  classify_error(Named(h, TextOf(r))) = classify_error(TextOf(r))
  <2>1. r.code \in 400 .. 599 /\ classify_error(TextOf(r)) = classify_smtp(r.code, r.words)
    BY ReplyVerdict
  <2> DEFINE c == r.code
  <2>2. c \in 200 .. 599
    BY <2>1
  <2>3. Named(h, TextOf(r)).numbers = name \o <<c>> /\ Named(h, TextOf(r)).words = r.words
    BY <1>3
  <2>4. classify_error(TextOf(r)) = classify_smtp(c, r.words)
    BY <2>1
  <2> HIDE DEF c
  <2>5. extract_code(name \o <<c>>) = c
    BY <1>1, <1>8, <2>2, CodeFound
  <2> QED
    BY <2>3, <2>4, <2>5 DEF classify_error
<1> QED
  BY <1>6, <1>7

(***************************************************************************)
(* What a host says or leaves unsaid is no success; silence is no bounce.  *)
(***************************************************************************)
LEMMA FailuresAreFailures ==
  /\ classify_error(Silence) = "defer"
  /\ \A r \in Replies : classify_error(TextOf(r)) # "success"
<1>1. extract_code(<<>>) = 450
  BY NoCode
<1>2. classify_error(Silence) = "defer"
  BY <1>1, SilenceDefers DEF classify_error, Silence
<1>3. ASSUME NEW r \in Replies
      PROVE  classify_error(TextOf(r)) # "success"
  <2>1. r.code \in 400 .. 599 /\ classify_error(TextOf(r)) = classify_smtp(r.code, r.words)
    BY ReplyVerdict
  <2> QED
    BY <2>1, NoSuccess
<1> QED
  BY <1>2, <1>3

(***************************************************************************)
(* What deliver_inner makes of an MX answer: at least one host and at most *)
(* HostLimit.                                                              *)
(***************************************************************************)
LEMMA WalkFacts ==
  ASSUME NEW answer \in MxAnswers, NEW s \in Walks(answer)
  PROVE  /\ s \in Seq(Hosts) /\ Len(s) \in Nat
         /\ Len(s) >= 1 /\ Len(s) <= HostLimit
<1> DEFINE n == Len(answer)
           m == IF n < HostLimit THEN n ELSE HostLimit
<1>1. answer \in Seq([preference : Nat, exchange : Hosts])
  BY DeliveryAssumption
<1>2. n \in Nat
  BY <1>1
<1>3. CASE n = 0
  <2>1. s = <<Domain>>
    BY <1>3 DEF Walks
  <2> QED
    BY <2>1, DeliveryAssumption
<1>4. CASE n # 0
  <2>1. PICK p \in [1 .. m -> 1 .. n] : s = [i \in 1 .. m |-> answer[p[i]].exchange]
    BY <1>4 DEF Walks
  <2>2. m \in Nat /\ m >= 1 /\ m <= HostLimit
    BY <1>2, <1>4, DeliveryAssumption
  <2>3. ASSUME NEW i \in 1 .. m
        PROVE  answer[p[i]].exchange \in Hosts
    <3>1. p[i] \in 1 .. Len(answer)
      BY <2>1
    <3> DEFINE R == [preference : Nat, exchange : Hosts]
    <3>2. answer \in Seq(R)
      BY <1>1
    <3> HIDE DEF R
    <3>3. answer[p[i]] \in R
      BY <3>1, <3>2
    <3> QED
      BY <3>3 DEF R
  <2> HIDE DEF m
  <2>4. s \in Seq(Hosts) /\ Len(s) = m
    BY <2>1, <2>2, <2>3
  <2> QED
    BY <2>2, <2>4
<1> QED
  BY <1>3, <1>4

(***************************************************************************)
(* How many of the first n places of a walk are host h.                    *)
(***************************************************************************)
Count(s, n, h) == Cardinality({i \in 1 .. n : s[i] = h})

LEMMA CountType ==
  ASSUME NEW s, NEW n \in Nat, NEW h
  PROVE  Count(s, n, h) \in Nat
<1> DEFINE places == {i \in 1 .. n : s[i] = h}
<1>1. IsFiniteSet(1 .. n)
  BY FS_Interval
<1>2. places \subseteq 1 .. n
  OBVIOUS
<1>3. IsFiniteSet(places)
  BY <1>1, <1>2, FS_Subset
<1> QED
  BY <1>3, FS_CardinalityType DEF Count

LEMMA CountNone ==
  ASSUME NEW s, NEW h
  PROVE  Count(s, 0, h) = 0
<1>1. {i \in 1 .. 0 : s[i] = h} = {}
  OBVIOUS
<1> QED
  BY <1>1, FS_EmptySet DEF Count

LEMMA CountStep ==
  ASSUME NEW s, NEW n \in Nat \ {0}, NEW h
  PROVE  Count(s, n, h) = Count(s, n - 1, h) + (IF s[n] = h THEN 1 ELSE 0)
<1> DEFINE before == {i \in 1 .. n - 1 : s[i] = h}
           places == {i \in 1 .. n : s[i] = h}
<1>0. IsFiniteSet(1 .. n - 1) /\ before \subseteq 1 .. n - 1
  BY FS_Interval
<1>1. IsFiniteSet(before) /\ n \notin before
  <2>1. IsFiniteSet(before)
    BY <1>0, FS_Subset
  <2>2. n \notin before
    OBVIOUS
  <2> QED
    BY <2>1, <2>2
<1>2. places = IF s[n] = h THEN before \cup {n} ELSE before
  OBVIOUS
<1> HIDE DEF before, places
<1>3. Cardinality(before) \in Nat /\ Cardinality(before \cup {n}) = Cardinality(before) + 1
  BY <1>1, FS_CardinalityType, FS_AddElement
<1>4. Cardinality(places) = Cardinality(before) + (IF s[n] = h THEN 1 ELSE 0)
  BY <1>2, <1>3
<1> QED
  BY <1>4 DEF Count, before, places

-----------------------------------------------------------------------------
(* The inductive invariant *)

AtHost == {"tls", "tls_send", "plain", "plain_send"}

\* The walk is one that an answer allows, and the call is at a place in it.
WalkInStep ==
  /\ at > 0 => \E answer \in MxAnswers : walk \in Walks(answer)
  /\ pc \in AtHost => at > 0
  /\ pc = "deliver" => at = 0
  /\ pc # "done" => result = Pending

\* Copies that the present host may hold.
Held(step) ==
  IF step = "done" THEN 2 ELSE IF step \in {"plain", "plain_send"} THEN 1 ELSE 0

\* A host has a copy at most for each time the walk was at it before, and what
\* it took at the present place.
CopiesInStep ==
  \A h \in Hosts :
    IF at = 0 THEN copies[h] = 0
    ELSE copies[h] <= Count(walk, at - 1, h) + (IF h = host THEN Held(pc) ELSE 0)

SmtpInv == TypeOK /\ WalkInStep /\ CopiesInStep /\ AckedOnce /\ VerdictNeedsReply

LEMMA WalkPlace ==
  ASSUME SmtpInv, pc \in AtHost
  PROVE  /\ at \in 1 .. Len(walk) /\ at \in Nat \ {0} /\ host \in Hosts
         /\ walk \in Seq(Hosts) /\ copies \in [Hosts -> Nat]
<1>1. TypeOK /\ WalkInStep
  BY DEF SmtpInv
<1>2. at > 0
  BY <1>1 DEF WalkInStep
<1>3. walk \in Seq(Hosts) /\ copies \in [Hosts -> Nat] /\ at \in 1 .. Len(walk)
  BY <1>1, <1>2 DEF TypeOK
<1> QED
  BY <1>2, <1>3 DEF host

\* The present host has taken a copy, or none, and the call goes on at it.
LEMMA CopiesAtHost ==
  ASSUME SmtpInv, pc \in AtHost, pc' \in Steps, UNCHANGED <<walk, at>>,
         \/ copies' = copies /\ Held(pc) <= Held(pc')
         \/ Takes /\ Held(pc) + 1 <= Held(pc')
  PROVE  CopiesInStep' /\ copies' \in [Hosts -> Nat]
<1>1. /\ at \in Nat \ {0} /\ host \in Hosts /\ host' = host
      /\ copies \in [Hosts -> Nat]
  BY WalkPlace DEF host
<1>2. Held(pc) \in Nat /\ Held(pc') \in Nat
  BY DEF Held
<1>3. copies' \in [Hosts -> Nat]
  BY <1>1 DEF Takes
<1>4. ASSUME NEW h \in Hosts
      PROVE  copies'[h] <= Count(walk, at - 1, h) + (IF h = host THEN Held(pc') ELSE 0)
  <2>1. copies[h] <= Count(walk, at - 1, h) + (IF h = host THEN Held(pc) ELSE 0)
    BY <1>1 DEF SmtpInv, CopiesInStep
  <2>2. Count(walk, at - 1, h) \in Nat /\ copies[h] \in Nat
    BY <1>1, CountType
  <2>3. CASE copies' = copies /\ Held(pc) <= Held(pc')
    BY <1>2, <2>1, <2>2, <2>3
  <2>4. CASE Takes /\ Held(pc) + 1 <= Held(pc')
    <3>1. copies'[h] = copies[h] + (IF h = host THEN 1 ELSE 0)
      BY <1>1, <2>2, <2>4 DEF Takes
    <3> QED
      BY <1>2, <2>1, <2>2, <2>4, <3>1
  <2> QED
    BY <2>3, <2>4
<1> QED
  BY <1>1, <1>3, <1>4 DEF CopiesInStep

\* The walk goes on to the next host.
LEMMA CopiesAhead ==
  ASSUME SmtpInv, pc = "plain", pc' = "tls", at < Len(walk), at' = at + 1,
         UNCHANGED <<walk, copies>>
  PROVE  CopiesInStep'
<1>1. /\ at \in Nat \ {0} /\ copies \in [Hosts -> Nat]
  BY WalkPlace DEF AtHost
<1>2. Held(pc) = 1 /\ Held(pc') = 0
  BY DEF Held
<1>3. at' # 0 /\ at' - 1 = at
  BY <1>1
<1>4. ASSUME NEW h \in Hosts
      PROVE  copies'[h] <= Count(walk', at' - 1, h) + (IF h = host' THEN Held(pc') ELSE 0)
  <2>1. copies[h] <= Count(walk, at - 1, h) + (IF h = host THEN 1 ELSE 0)
    BY <1>1, <1>2 DEF SmtpInv, CopiesInStep
  <2>2. /\ Count(walk, at, h) = Count(walk, at - 1, h) + (IF walk[at] = h THEN 1 ELSE 0)
        /\ Count(walk, at, h) \in Nat /\ copies[h] \in Nat
    BY <1>1, CountStep, CountType
  <2>3. copies[h] <= Count(walk, at, h)
    BY <2>1, <2>2 DEF host
  <2> QED
    BY <1>2, <1>3, <2>2, <2>3
<1> QED
  BY <1>3, <1>4 DEF CopiesInStep

\* A call that is not over has no verdict, and nothing is acknowledged.
LEMMA NotOver ==
  ASSUME SmtpInv, pc # "done"
  PROVE  result = Pending /\ acked = 0
<1>1. TypeOK /\ WalkInStep /\ AckedOnce
  BY DEF SmtpInv
<1> QED
  BY <1>1 DEF TypeOK, WalkInStep, AckedOnce

LEMMA HonestHost ==
  ASSUME SmtpInv, ~Misled
  PROVE  /\ classify_error(Named(Domain, Silence)) = "defer"
         /\ pc \in AtHost =>
              /\ classify_error(Named(host, Silence)) = "defer"
              /\ \A r \in Replies :
                   classify_error(Named(host, TextOf(r))) = classify_error(TextOf(r))
<1>1. Domain \in Hosts
  BY DeliveryAssumption
<1>2. /\ NameText[Domain].words = {}
      /\ \A i \in DOMAIN NameText[Domain].numbers : NameText[Domain].numbers[i] \notin 200 .. 599
  BY DEF Misled
<1>3. classify_error(Named(Domain, Silence)) = "defer"
  BY <1>1, <1>2, HonestVerdicts
<1>4. CASE pc \in AtHost
  <2>1. at \in 1 .. Len(walk) /\ host \in Hosts /\ walk \in Seq(Hosts)
    BY <1>4, WalkPlace
  <2>2. host \in Contacted
    BY <2>1 DEF Contacted, host
  <2>3. /\ NameText[host].words = {}
        /\ \A i \in DOMAIN NameText[host].numbers : NameText[host].numbers[i] \notin 200 .. 599
    BY <2>2 DEF Misled
  <2> QED
    BY <1>3, <2>1, <2>3, HonestVerdicts
<1> QED
  BY <1>3, <1>4

-----------------------------------------------------------------------------
(* Every step keeps the invariant *)

LEMMA NoCopies ==
  ASSUME Start
  PROVE  WalkInStep /\ CopiesInStep /\ VerdictNeedsReply
<1>1. WalkInStep
  BY DEF Start, WalkInStep, AtHost
<1>2. CopiesInStep
  BY DEF Start, CopiesInStep
<1>3. VerdictNeedsReply
  BY DEF Start, VerdictNeedsReply, Pending
<1> QED
  BY <1>1, <1>2, <1>3

LEMMA InitInv == Init => SmtpInv
<1> SUFFICES ASSUME Init PROVE SmtpInv
  OBVIOUS
<1>1. WalkInStep /\ CopiesInStep /\ VerdictNeedsReply
  BY NoCopies DEF Init
<1>2. AckedOnce
  BY DEF Init, AckedOnce
<1>3. TypeOK
  BY DeliveryAssumption DEF Init, Start, TypeOK, Steps
<1> QED
  BY <1>1, <1>2, <1>3 DEF SmtpInv

LEMMA SkipInv ==
  ASSUME SmtpInv, Skip
  PROVE  SmtpInv'
<1> USE DEF Skip, Done
<1>1. TypeOK /\ WalkInStep /\ CopiesInStep
  BY DEF SmtpInv
<1>2. at = 0
  BY <1>1 DEF WalkInStep
<1>3. TypeOK'
  BY <1>1 DEF TypeOK, Steps, Classes
<1>4. WalkInStep' /\ CopiesInStep'
  BY <1>1, <1>2 DEF WalkInStep, CopiesInStep, AtHost
<1>5. AckedOnce' /\ VerdictNeedsReply'
  BY NotOver DEF AckedOnce, VerdictNeedsReply
<1> QED
  BY <1>3, <1>4, <1>5 DEF SmtpInv

LEMMA LookupInv ==
  ASSUME SmtpInv, Lookup
  PROVE  SmtpInv'
<1> USE DEF Lookup
<1>1. TypeOK /\ WalkInStep /\ CopiesInStep
  BY DEF SmtpInv
<1>2. PICK answer \in MxAnswers : walk' \in Walks(answer)
  OBVIOUS
<1>3. walk' \in Walks(answer)
  BY <1>2
<1>4. walk' \in Seq(Hosts) /\ Len(walk') >= 1 /\ Len(walk') \in Nat
  BY <1>3, WalkFacts
<1>5. TypeOK'
  BY <1>1, <1>4 DEF TypeOK, Steps
<1>6. result' = Pending /\ acked' = 0
  BY NotOver
<1>7. WalkInStep'
  BY <1>3, <1>6 DEF WalkInStep, AtHost
<1>8. CopiesInStep'
  <2>1. \A h \in Hosts : copies'[h] = 0
    BY <1>1 DEF WalkInStep, CopiesInStep
  <2>2. at' - 1 = 0 /\ at' # 0 /\ Held(pc') = 0
    BY DEF Held
  <2>3. \A h \in Hosts : Count(walk', at' - 1, h) = 0
    BY <2>2, CountNone
  <2> QED
    BY <2>1, <2>2, <2>3 DEF CopiesInStep
<1>9. AckedOnce' /\ VerdictNeedsReply'
  BY <1>6 DEF AckedOnce, VerdictNeedsReply, Pending
<1> QED
  BY <1>5, <1>7, <1>8, <1>9 DEF SmtpInv

LEMMA LookupFailsInv ==
  ASSUME SmtpInv, LookupFails
  PROVE  SmtpInv'
<1> USE DEF LookupFails, Done
<1>1. TypeOK /\ WalkInStep /\ CopiesInStep
  BY DEF SmtpInv
<1>2. at = 0 /\ acked = 0
  BY <1>1, NotOver DEF WalkInStep
<1>3. result' \in Classes
  BY VerdictType
<1>4. TypeOK'
  BY <1>1, <1>3 DEF TypeOK, Steps
<1>5. WalkInStep' /\ CopiesInStep'
  BY <1>1, <1>2 DEF WalkInStep, CopiesInStep, AtHost
<1>6. AckedOnce'
  BY <1>2 DEF AckedOnce
<1>7. VerdictNeedsReply'
  <2>1. ASSUME ~Misled' PROVE result' = "defer"
    <3>1. ~Misled
      BY <2>1 DEF Misled, Contacted
    <3> QED
      BY <3>1, HonestHost
  <2> QED
    BY <2>1 DEF VerdictNeedsReply
<1> QED
  BY <1>4, <1>5, <1>6, <1>7 DEF SmtpInv

\* A call that goes on at a host.
LEMMA GoesOn ==
  ASSUME SmtpInv, pc \in AtHost, pc' \in AtHost,
         UNCHANGED <<dry_run, walk, result, acked, calls>>,
         at' \in 1 .. Len(walk), copies' \in [Hosts -> Nat],
         heard' \subseteq Replies, CopiesInStep'
  PROVE  SmtpInv'
<1>1. TypeOK /\ WalkInStep
  BY DEF SmtpInv
<1>2. result = Pending /\ acked = 0
  BY NotOver DEF AtHost
<1>3. TypeOK'
  <2>1. pc' \in Steps
    BY DEF AtHost, Steps
  <2>2. at' \in 0 .. Len(walk')
    OBVIOUS
  <2> QED
    BY <1>1, <2>1, <2>2 DEF TypeOK
<1>4. WalkInStep'
  <2>1. at > 0 /\ at' > 0
    BY <1>1 DEF WalkInStep, TypeOK
  <2> QED
    BY <1>1, <1>2, <2>1 DEF WalkInStep, AtHost
<1>5. AckedOnce' /\ VerdictNeedsReply'
  BY <1>2 DEF AckedOnce, VerdictNeedsReply, Pending
<1> QED
  BY <1>3, <1>4, <1>5 DEF SmtpInv

\* A call that ends at a host.
LEMMA GetsVerdict ==
  ASSUME SmtpInv, pc \in AtHost, pc' = "done",
         UNCHANGED <<dry_run, walk, at, calls>>,
         copies' \in [Hosts -> Nat], CopiesInStep',
         heard' \subseteq Replies, result' \in Classes,
         acked' = acked \/ (acked' = acked + 1 /\ result' = "success"),
         acked' = acked /\ ~Misled =>
           /\ result' # "success"
           /\ result' \in {"hard", "block"} =>
                \E r \in heard' : classify_error(TextOf(r)) = result'
  PROVE  SmtpInv'
<1>1. TypeOK /\ WalkInStep
  BY DEF SmtpInv
<1>2. acked = 0
  BY NotOver DEF AtHost
<1>3. TypeOK'
  BY <1>1, <1>2 DEF TypeOK, Steps
<1>4. WalkInStep'
  BY <1>1 DEF WalkInStep, AtHost
<1>5. AckedOnce'
  BY <1>2 DEF AckedOnce
<1>6. Misled' <=> Misled
  BY DEF Misled, Contacted
<1>7. VerdictNeedsReply'
  BY <1>2, <1>6 DEF VerdictNeedsReply
<1> QED
  BY <1>3, <1>4, <1>5, <1>7 DEF SmtpInv

LEMMA TlsConnectInv ==
  ASSUME SmtpInv, TlsConnect
  PROVE  SmtpInv'
<1> USE DEF TlsConnect
<1>1. pc \in AtHost /\ pc' \in AtHost /\ pc' \in Steps /\ Held(pc) <= Held(pc')
  BY DEF AtHost, Steps, Held
<1>2. heard' \subseteq Replies
  BY DEF SmtpInv, TypeOK
<1>3. at \in 1 .. Len(walk)
  BY <1>1, WalkPlace
<1>4. CopiesInStep' /\ copies' \in [Hosts -> Nat]
  BY <1>1, CopiesAtHost
<1> QED
  BY <1>1, <1>2, <1>3, <1>4, GoesOn

LEMMA AcceptedInv ==
  ASSUME SmtpInv, pc \in {"tls_send", "plain_send"}, Accepted,
         UNCHANGED <<dry_run, walk, at, calls>>
  PROVE  SmtpInv'
<1> USE DEF Accepted, Done
<1>1. pc \in AtHost /\ pc' \in Steps /\ Held(pc) + 1 <= Held(pc')
  BY DEF AtHost, Steps, Held
<1>2. CopiesInStep' /\ copies' \in [Hosts -> Nat]
  BY <1>1, CopiesAtHost
<1>3. result' \in Classes /\ heard' \subseteq Replies
  BY DEF Classes, SmtpInv, TypeOK
<1> QED
  BY <1>1, <1>2, <1>3, GetsVerdict

LEMMA TlsSendInv ==
  ASSUME SmtpInv, TlsSend
  PROVE  SmtpInv'
<1> USE DEF TlsSend
<1>1. CASE Accepted
  BY <1>1, AcceptedInv
<1>2. CASE ~Accepted
  <2>1. pc = "tls_send" /\ pc' = "plain" /\ UNCHANGED <<dry_run, walk, at, calls, result, acked>>
    BY <1>2
  <2>2. Takes \/ UNCHANGED copies
    BY <1>2
  <2>3. heard' \subseteq Replies
    BY <1>2 DEF SmtpInv, TypeOK
  <2>4. /\ pc \in AtHost /\ pc' \in AtHost /\ pc' \in Steps
        /\ Held(pc) + 1 <= Held(pc') /\ Held(pc) <= Held(pc')
    BY <2>1 DEF AtHost, Steps, Held
  <2>5. CopiesInStep' /\ copies' \in [Hosts -> Nat]
    BY <2>1, <2>2, <2>4, CopiesAtHost
  <2>6. at \in 1 .. Len(walk)
    BY <2>4, WalkPlace
  <2> QED
    BY <2>1, <2>3, <2>4, <2>5, <2>6, GoesOn
<1> QED
  BY <1>1, <1>2

\* A failed plain text connection, with the text it ends in.
LEMMA NextHostInv ==
  ASSUME SmtpInv, pc = "plain", NEW text, NextHost(text),
         UNCHANGED <<dry_run, walk, copies, acked, calls>>,
         heard' \subseteq Replies,
         ~Misled => LET verdict == classify_error(text) IN
                    /\ verdict # "success"
                    /\ verdict \in {"hard", "block"} =>
                         \E r \in heard' : classify_error(TextOf(r)) = verdict
  PROVE  SmtpInv'
<1>1. pc \in AtHost
  BY DEF AtHost
<1>2. at \in 1 .. Len(walk) /\ copies \in [Hosts -> Nat] /\ walk \in Seq(Hosts)
  BY <1>1, WalkPlace
<1>3. CASE at < Len(walk)
  <2>1. at' = at + 1 /\ pc' = "tls" /\ UNCHANGED result
    BY <1>3 DEF NextHost
  <2>2. at' \in 1 .. Len(walk) /\ pc' \in AtHost
    BY <1>2, <1>3, <2>1 DEF AtHost
  <2>3. CopiesInStep'
    BY <1>3, <2>1, CopiesAhead
  <2> QED
    BY <1>1, <1>2, <2>1, <2>2, <2>3, GoesOn
<1>4. CASE ~(at < Len(walk))
  <2>1. pc' = "done" /\ result' = classify_error(text) /\ UNCHANGED at
    BY <1>4 DEF NextHost, Done
  <2>2. pc' \in Steps /\ Held(pc) <= Held(pc')
    BY <2>1 DEF Steps, Held
  <2>3. CopiesInStep' /\ copies' \in [Hosts -> Nat]
    BY <1>1, <2>1, <2>2, CopiesAtHost
  <2>4. result' \in Classes
    BY <2>1, VerdictType
  <2> QED
    BY <1>1, <2>1, <2>3, <2>4, GetsVerdict
<1> QED
  BY <1>3, <1>4

LEMMA PlainConnectInv ==
  ASSUME SmtpInv, PlainConnect
  PROVE  SmtpInv'
<1> USE DEF PlainConnect
<1>1. pc = "plain" /\ UNCHANGED <<dry_run, walk, copies, acked, calls>>
  OBVIOUS
<1>2. pc \in AtHost
  BY <1>1 DEF AtHost
<1>3. heard \subseteq Replies
  BY DEF SmtpInv, TypeOK
<1>4. CASE pc' = "plain_send" /\ UNCHANGED <<at, result, heard>>
  <2>1. pc' \in AtHost /\ pc' \in Steps /\ Held(pc) <= Held(pc')
    BY <1>1, <1>4 DEF AtHost, Steps, Held
  <2>2. CopiesInStep' /\ copies' \in [Hosts -> Nat]
    BY <1>1, <1>2, <1>4, <2>1, CopiesAtHost
  <2>3. at \in 1 .. Len(walk)
    BY <1>2, WalkPlace
  <2> QED
    BY <1>1, <1>2, <1>3, <1>4, <2>1, <2>2, <2>3, GoesOn
<1>5. CASE NextHost(Named(host, Silence)) /\ UNCHANGED heard
  <2>1. ~Misled => classify_error(Named(host, Silence)) = "defer"
    BY <1>2, HonestHost
  <2> QED
    BY <1>1, <1>3, <1>5, <2>1, NextHostInv
<1>6. ASSUME NEW r \in Replies, NextHost(Named(host, TextOf(r))), heard' = heard \cup {r}
      PROVE  SmtpInv'
  <2>1. ~Misled => classify_error(Named(host, TextOf(r))) = classify_error(TextOf(r))
    BY <1>2, HonestHost
  <2>2. classify_error(TextOf(r)) # "success"
    BY FailuresAreFailures
  <2>3. r \in heard' /\ heard' \subseteq Replies
    BY <1>3, <1>6
  <2> QED
    BY <1>1, <1>6, <2>1, <2>2, <2>3, NextHostInv
<1> QED
  BY <1>4, <1>5, <1>6

LEMMA PlainSendInv ==
  ASSUME SmtpInv, PlainSend
  PROVE  SmtpInv'
<1> USE DEF PlainSend
<1>1. pc = "plain_send" /\ UNCHANGED <<dry_run, walk, at, calls>>
  OBVIOUS
<1>2. heard \subseteq Replies
  BY DEF SmtpInv, TypeOK
<1>3. CASE Accepted
  BY <1>1, <1>3, AcceptedInv
<1>4. ASSUME Takes \/ UNCHANGED copies, NEW text, Done(classify_error(text)),
             UNCHANGED acked, heard' \subseteq Replies,
             classify_error(text) # "success",
             classify_error(text) \in {"hard", "block"} =>
               \E r \in heard' : classify_error(TextOf(r)) = classify_error(text)
      PROVE  SmtpInv'
  <2>1. pc' = "done" /\ result' = classify_error(text)
    BY <1>4 DEF Done
  <2>2. pc \in AtHost /\ pc' \in Steps /\ Held(pc) + 1 <= Held(pc') /\ Held(pc) <= Held(pc')
    BY <1>1, <2>1 DEF AtHost, Steps, Held
  <2>3. CopiesInStep' /\ copies' \in [Hosts -> Nat]
    BY <1>1, <1>4, <2>2, CopiesAtHost
  <2>4. result' \in Classes
    BY <2>1, VerdictType
  <2> QED
    BY <1>1, <1>4, <2>1, <2>2, <2>3, <2>4, GetsVerdict
<1>5. CASE /\ Takes \/ UNCHANGED copies
           /\ Done(classify_error(Silence)) /\ UNCHANGED <<acked, heard>>
  <2>1. classify_error(Silence) = "defer"
    BY FailuresAreFailures
  <2> QED
    BY <1>2, <1>4, <1>5, <2>1
<1>6. ASSUME NEW r \in Replies, Done(classify_error(TextOf(r))),
             heard' = heard \cup {r}, UNCHANGED <<copies, acked>>
      PROVE  SmtpInv'
  <2>1. classify_error(TextOf(r)) # "success"
    BY FailuresAreFailures
  <2>2. r \in heard' /\ heard' \subseteq Replies
    BY <1>2, <1>6
  <2> QED
    BY <1>4, <1>6, <2>1, <2>2
<1> QED
  BY <1>3, <1>5, <1>6

LEMMA AgainInv ==
  ASSUME SmtpInv, Again
  PROVE  SmtpInv'
<1> USE DEF Again
<1>1. TypeOK /\ AckedOnce
  BY DEF SmtpInv
<1>2. acked = 0
  BY <1>1 DEF TypeOK, AckedOnce
<1>3. TypeOK'
  BY <1>1, DeliveryAssumption DEF TypeOK, Steps
<1>4. WalkInStep'
  BY DEF WalkInStep, AtHost
<1>5. CopiesInStep'
  BY DEF CopiesInStep
<1>6. AckedOnce' /\ VerdictNeedsReply'
  BY <1>2 DEF AckedOnce, VerdictNeedsReply, Pending
<1> QED
  BY <1>3, <1>4, <1>5, <1>6 DEF SmtpInv

LEMMA NextInv == SmtpInv /\ [Next]_vars => SmtpInv'
<1> SUFFICES ASSUME SmtpInv, [Next]_vars PROVE SmtpInv'
  OBVIOUS
<1>1. CASE UNCHANGED vars
  <2>1. CopiesInStep'
    <3>1. host' = host
      BY <1>1 DEF vars, host
    <3> QED
      BY <1>1, <3>1 DEF vars, SmtpInv, CopiesInStep
  <2>2. VerdictNeedsReply'
    BY <1>1 DEF vars, SmtpInv, VerdictNeedsReply, Misled, Contacted
  <2>3. TypeOK' /\ WalkInStep' /\ AckedOnce'
    BY <1>1 DEF vars, SmtpInv, TypeOK, WalkInStep, AckedOnce
  <2> QED
    BY <2>1, <2>2, <2>3 DEF SmtpInv
<1>2. CASE Work
  BY <1>2, SkipInv, LookupInv, LookupFailsInv, TlsConnectInv, TlsSendInv,
     PlainConnectInv, PlainSendInv DEF Work
<1>3. CASE Again
  BY <1>3, AgainInv
<1> QED
  BY <1>1, <1>2, <1>3 DEF Next

-----------------------------------------------------------------------------
(* What is shown for every specification instance *)

(***************************************************************************)
(* The invariant of a delivery and its retries, for any hosts, MX answers, *)
(* names and replies.                                                      *)
(***************************************************************************)
THEOREM DeliveryInvariant == Spec => []SmtpInv
  BY InitInv, NextInv, PTL DEF Spec

(***************************************************************************)
(* Every variable keeps its type; the call stays within the walk.          *)
(***************************************************************************)
THEOREM TypeCorrect == Spec => []TypeOK
<1>1. SmtpInv => TypeOK
  BY DEF SmtpInv
<1> QED
  BY <1>1, DeliveryInvariant, PTL

(***************************************************************************)
(* However many exchangers fail in whatever way, and however often an MX   *)
(* answer lists one of them, a host takes a copy each time it is tried at  *)
(* most, and the one tried last one more.                                  *)
(***************************************************************************)
THEOREM FewCopies == Spec => []CopiesBounded
<1>1. SmtpInv => CopiesBounded
  <2> SUFFICES ASSUME SmtpInv, NEW h \in Hosts
               PROVE  copies[h] <= Tried(h) + (IF at > 0 /\ h = host THEN 1 ELSE 0)
    BY DEF CopiesBounded
  <2>1. TypeOK /\ CopiesInStep
    BY DEF SmtpInv
  <2>2. at \in Nat /\ copies[h] \in Nat /\ Tried(h) = Count(walk, at, h)
    BY <2>1 DEF TypeOK, Tried, Count
  <2>3. Count(walk, at, h) \in Nat
    BY <2>2, CountType
  <2>4. CASE at = 0
    BY <2>1, <2>2, <2>3, <2>4 DEF CopiesInStep
  <2>5. CASE at # 0
    <3>1. copies[h] <= Count(walk, at - 1, h) + (IF h = host THEN Held(pc) ELSE 0)
      BY <2>1, <2>5 DEF CopiesInStep
    <3>2. /\ Count(walk, at, h) = Count(walk, at - 1, h) + (IF walk[at] = h THEN 1 ELSE 0)
          /\ Count(walk, at - 1, h) \in Nat
      BY <2>2, <2>5, CountStep, CountType
    <3>3. Held(pc) \in 0 .. 2
      BY DEF Held
    <3>4. host = walk[at] /\ at > 0
      BY <2>2, <2>5 DEF host
    <3> QED
      BY <2>2, <3>1, <3>2, <3>3, <3>4
  <2> QED
    BY <2>4, <2>5
<1> QED
  BY <1>1, DeliveryInvariant, PTL

(***************************************************************************)
(* An acknowledgement is the last thing a message hears, for any number of *)
(* retries.                                                                *)
(***************************************************************************)
THEOREM OneAcknowledgement == Spec => []AckedOnce
<1>1. SmtpInv => AckedOnce
  BY DEF SmtpInv
<1> QED
  BY <1>1, DeliveryInvariant, PTL

(***************************************************************************)
(* A verdict that cannot be undone rests on what a host said, unless the   *)
(* name of a host in the error text reads as a code or has a phrase that   *)
(* the rules look for.                                                     *)
(***************************************************************************)
THEOREM VerdictsRestOnReplies == Spec => []VerdictNeedsReply
<1>1. SmtpInv => VerdictNeedsReply
  BY DEF SmtpInv
<1> QED
  BY <1>1, DeliveryInvariant, PTL

-----------------------------------------------------------------------------
(* The call runs down *)

\* Where a call stands, in numbers.
LEMMA CallNumbers ==
  ASSUME SmtpInv
  PROVE  /\ HostLimit \in Nat
         /\ pc \in AtHost => /\ at \in Nat /\ Len(walk) \in Nat
                             /\ at >= 1 /\ at <= Len(walk)
<1>1. ASSUME pc \in AtHost
      PROVE  at \in 1 .. Len(walk) /\ Len(walk) \in Nat
  BY <1>1, WalkPlace
<1> QED
  BY <1>1, DeliveryAssumption

\* A step at a host ends the call, or leads on at the host or to the next.
LEMMA StepsAtHost ==
  ASSUME SmtpInv, TlsConnect \/ TlsSend \/ PlainConnect \/ PlainSend
  PROVE  /\ OperationsLeft' < OperationsLeft
         /\ calls' = calls
<1>1. /\ pc \in AtHost /\ UNCHANGED <<walk, calls>>
      /\ \/ pc' = "done"
         \/ pc = "tls" /\ pc' \in {"tls_send", "plain"} /\ at' = at
         \/ pc = "tls_send" /\ pc' = "plain" /\ at' = at
         \/ pc = "plain" /\ pc' = "plain_send"
         \/ pc = "plain" /\ pc' = "tls" /\ at' = at + 1
  BY DEF TlsConnect, TlsSend, PlainConnect, PlainSend, NextHost, Accepted, Done, AtHost
<1>2. at \in Nat /\ Len(walk) \in Nat /\ at >= 1 /\ at <= Len(walk)
  BY <1>1, CallNumbers
<1>3. Len(walk') = Len(walk)
  BY <1>1
<1> QED
  BY <1>1, <1>2, <1>3 DEF OperationsLeft, AtHost

\* Each network operation leaves fewer, and only a deferral begins again.
LEMMA NextRunsDown ==
  ASSUME SmtpInv, Next
  PROVE  IF calls' = calls
           THEN OperationsLeft' < OperationsLeft
           ELSE pc = "done" /\ result \in {"defer", "soft"}
<1>1. CASE Skip \/ LookupFails
  <2>1. pc = "deliver" /\ pc' = "done" /\ calls' = calls
    BY <1>1 DEF Skip, LookupFails, Done
  <2> QED
    BY <2>1, CallNumbers DEF OperationsLeft
<1>2. CASE Lookup
  <2>1. /\ pc = "deliver" /\ pc' = "tls" /\ at' = 1 /\ calls' = calls
        /\ \E answer \in MxAnswers : walk' \in Walks(answer)
    BY <1>2 DEF Lookup
  <2>2. Len(walk') \in Nat /\ Len(walk') <= HostLimit
    BY <2>1, WalkFacts
  <2> QED
    BY <2>1, <2>2, CallNumbers DEF OperationsLeft
<1>3. CASE TlsConnect \/ TlsSend \/ PlainConnect \/ PlainSend
  BY <1>3, StepsAtHost
<1>4. CASE Again
  <2>1. pc = "done" /\ result \in {"defer", "soft"} /\ calls' = calls + 1 /\ calls \in Nat
    BY <1>4, DeliveryAssumption DEF Again, SmtpInv, TypeOK
  <2> QED
    BY <2>1
<1> QED
  BY <1>1, <1>2, <1>3, <1>4 DEF Next, Work

(***************************************************************************)
(* A call of deliver has at most 3 * HostLimit + 2 network operations,     *)
(* whatever the resolver names and the hosts do, and only finish's retry   *)
(* begins another.                                                         *)
(***************************************************************************)
THEOREM CallsRunDown == Spec => CallRunsDown
<1>1. SmtpInv /\ [Next]_vars =>
        [IF calls' = calls
           THEN OperationsLeft' < OperationsLeft
           ELSE pc = "done" /\ result \in {"defer", "soft"}]_vars
  BY NextRunsDown
<1> QED
  BY <1>1, DeliveryInvariant, PTL DEF Spec, CallRunsDown
=============================================================================
