---------------------------- MODULE IntakeProofs -----------------------------
(***************************************************************************)
(* The invariants of the two ways into the queue, for any mailboxes,       *)
(* bounce reports, requests and lists of recipients.                       *)
(***************************************************************************)
EXTENDS Intake, FiniteSetTheorems, TLAPS

-----------------------------------------------------------------------------
(* The SMTP session *)

AtMessage == {"loop", "passed", "stored", "refused"}

\* What the session holds was given after it last forgot.
SessionInStep ==
  /\ state \in {"data"} \cup AtMessage => turn \in Turns
  /\ state # "closed" => since >= 1 /\ since <= turn
  /\ mail_from # 0 => since <= mail_from
  /\ \A i \in DOMAIN rcpt : since <= rcpt[i].turn
  /\ state = "closed" => mail_from = 0 /\ rcpt = <<>> /\ owed = 0
  /\ data = IF state \in AtMessage THEN {turn} ELSE {}
  /\ state = "loop" => at \in 1 .. Len(rcpt) + 1
  /\ state \in {"passed", "stored", "refused"} =>
       at \in 1 .. Len(rcpt) /\ rcpt[at].to \in Boxes

\* What is stored of the present mail is behind the loop.
StoredInStep ==
  /\ \A m \in stored : m.turn <= turn
  /\ state \in {"command", "data"} => \A m \in stored : m.turn < turn
  /\ state \in {"loop", "passed", "refused"} => \A m \in stored : m.turn = turn => m.at < at
  /\ state = "stored" =>
       /\ ThisMessage \in stored
       /\ \A m \in stored : m.turn = turn => m.at < at \/ m = ThisMessage

\* A usual mail in the loop has one mailbox.
OneBox == state \in AtMessage /\ ~unusual => \E q \in Nat : Ordinary(rcpt) = {q}

SmtpInv ==
  /\ SmtpTypeOK /\ SessionInStep /\ StoredInStep
  /\ NothingOutlivesReset /\ AcksFollowStores
  /\ OneBox /\ RepliesInStep

LEMMA MessageFields ==
  ASSUME NEW m \in Message
  PROVE  m.turn \in Turns /\ m.at \in 1 .. MaxRcpts /\ m.turn \in Nat /\ m.at \in Nat
  BY IntakeAssumption DEF Message, Turns

LEMMA SmtpFacts ==
  ASSUME SmtpTypeOK
  PROVE  /\ Len(rcpt) \in Nat /\ DOMAIN rcpt = 1 .. Len(rcpt)
         /\ turn \in Nat /\ since \in Nat /\ at \in Nat
         /\ \A m \in stored : m.turn \in Nat /\ m.at \in Nat
  BY MessageFields DEF SmtpTypeOK

LEMMA SmtpParts ==
  SmtpInv => /\ SmtpTypeOK /\ SessionInStep
             /\ state \in States /\ mail_from \in 0 .. MaxTurns
             /\ rcpt \in Seq(Rcpt) /\ Len(rcpt) <= MaxRcpts /\ Len(rcpt) \in Nat
             /\ data \subseteq Turns /\ at \in 0 .. MaxRcpts + 1 /\ at \in Nat
             /\ turn \in 0 .. MaxTurns + 1 /\ turn \in Nat
             /\ since \in 0 .. MaxTurns + 1 /\ since \in Nat
             /\ MaxTurns \in Nat /\ MaxRcpts \in Nat /\ owed \in Int
  BY IntakeAssumption, SmtpFacts DEF SmtpInv, SmtpTypeOK

LEMMA SmtpInitInv == SmtpInit => SmtpInv
<1> SUFFICES ASSUME SmtpInit PROVE SmtpInv
  OBVIOUS
<1> USE DEF SmtpInit
<1>1. SmtpTypeOK
  <2>1. unusual \in BOOLEAN
    OBVIOUS
  <2>2. /\ rcpt \in Seq(Rcpt) /\ Len(rcpt) = 0
        /\ mail_from \in 0 .. MaxTurns /\ at \in 0 .. MaxRcpts + 1
        /\ turn \in 0 .. MaxTurns + 1 /\ since \in 0 .. MaxTurns + 1
    BY IntakeAssumption
  <2>3. state \in States /\ data \subseteq Turns /\ stored \subseteq Message
        /\ acked \subseteq Message /\ owed \in Int
    BY DEF States
  <2>4. Len(rcpt) <= MaxRcpts
    BY <2>2, IntakeAssumption
  <2> HIDE DEF SmtpInit
  <2> QED
    BY <2>1, <2>2, <2>3, <2>4 DEF SmtpTypeOK
<1>2. SessionInStep
  BY DEF SessionInStep, AtMessage
<1>3. StoredInStep /\ NothingOutlivesReset /\ AcksFollowStores
  BY DEF StoredInStep, NothingOutlivesReset, AcksFollowStores
<1>4. OneBox /\ RepliesInStep
  BY DEF OneBox, RepliesInStep, AtMessage
<1> QED
  BY <1>1, <1>2, <1>3, <1>4 DEF SmtpInv

-----------------------------------------------------------------------------
(* The messages of a session *)

\* A command of a session that stores nothing.
LEMMA SameMessages ==
  ASSUME SmtpInv, turn' \in {turn, turn + 1}, UNCHANGED <<stored, acked>>,
         state = "command", state' \in {"command", "data"}
  PROVE  StoredInStep' /\ NothingOutlivesReset' /\ AcksFollowStores'
<1>1. SmtpTypeOK /\ StoredInStep /\ NothingOutlivesReset /\ AcksFollowStores
  BY DEF SmtpInv
<1>2. \A m \in stored : m.turn < turn /\ m.turn \in Nat /\ turn \in Nat
  BY <1>1, SmtpFacts DEF StoredInStep
<1>5. \A m \in stored : m.turn < turn' /\ m.turn <= turn' /\ m.turn # turn'
  BY <1>2
<1>3. StoredInStep'
  BY <1>5 DEF StoredInStep
<1>4. NothingOutlivesReset' /\ AcksFollowStores'
  BY <1>1, <1>5 DEF NothingOutlivesReset, AcksFollowStores
<1> QED
  BY <1>3, <1>4

LEMMA NextMail ==
  ASSUME SmtpInv, UNCHANGED <<stored, acked>>, turn' = turn + 1, state' = "command"
  PROVE  StoredInStep' /\ NothingOutlivesReset' /\ AcksFollowStores'
<1>1. SmtpTypeOK /\ StoredInStep /\ NothingOutlivesReset /\ AcksFollowStores
  BY DEF SmtpInv
<1>2. \A m \in stored : m.turn <= turn /\ m.turn \in Nat /\ turn \in Nat
  BY <1>1, SmtpFacts DEF StoredInStep
<1>3. \A m \in stored : m.turn < turn' /\ m.turn <= turn' /\ m.turn # turn'
  BY <1>2
<1>4. StoredInStep'
  BY <1>3 DEF StoredInStep
<1>5. NothingOutlivesReset' /\ AcksFollowStores'
  BY <1>1, <1>3 DEF NothingOutlivesReset, AcksFollowStores
<1> QED
  BY <1>4, <1>5

LEMMA ClosedMessages ==
  ASSUME SmtpInv, UNCHANGED <<turn, stored, acked>>, state' = "closed"
  PROVE  StoredInStep' /\ NothingOutlivesReset' /\ AcksFollowStores'
<1>1. SmtpTypeOK /\ StoredInStep /\ NothingOutlivesReset /\ AcksFollowStores
  BY DEF SmtpInv
<1>2. StoredInStep'
  BY <1>1 DEF StoredInStep
<1>3. NothingOutlivesReset' /\ AcksFollowStores'
  BY <1>1 DEF NothingOutlivesReset, AcksFollowStores
<1> QED
  BY <1>2, <1>3

\* The loop goes on without storing or acknowledging.
LEMMA LoopMessages ==
  ASSUME SmtpInv, UNCHANGED <<turn, stored, acked>>,
         \/ state = "data" /\ state' = "loop"
         \/ /\ state \in {"loop", "passed", "refused"}
            /\ state' \in {"loop", "passed", "refused"}
            /\ at' \in {at, at + 1}
  PROVE  StoredInStep' /\ NothingOutlivesReset' /\ AcksFollowStores'
<1>1. SmtpTypeOK /\ StoredInStep /\ NothingOutlivesReset /\ AcksFollowStores
  BY DEF SmtpInv
<1>2. turn \in Nat /\ at \in Nat /\ \A m \in stored : m.turn \in Nat /\ m.at \in Nat
  BY <1>1, SmtpFacts
<1>3. \A m \in stored : m.turn <= turn /\ (m.turn = turn => state # "data")
  BY <1>1, <1>2 DEF StoredInStep
<1>4. \A m \in stored : m.turn = turn => m.at < at'
  BY <1>1, <1>2, <1>3 DEF StoredInStep
<1>5. StoredInStep'
  BY <1>3, <1>4 DEF StoredInStep
<1>6. \A m \in stored \ acked : m.turn # turn
  BY <1>1, <1>3 DEF AcksFollowStores
<1>7. NothingOutlivesReset' /\ AcksFollowStores'
  BY <1>1, <1>6 DEF NothingOutlivesReset, AcksFollowStores
<1> QED
  BY <1>5, <1>7

\* What enqueue_raw stores was given after the session last forgot.
LEMMA ThisMessageIsWhole ==
  ASSUME SmtpInv, state = "passed", mail_from # 0
  PROVE  /\ ThisMessage \in Message
         /\ ThisMessage.turn = turn /\ ThisMessage.at = at
         /\ ThisMessage.since <= ThisMessage.from
         /\ ThisMessage.since <= ThisMessage.to.turn
         /\ ThisMessage.data = {ThisMessage.turn}
<1>1. SmtpTypeOK /\ SessionInStep
  BY DEF SmtpInv
<1>2. /\ turn \in Turns /\ data = {turn} /\ at \in 1 .. Len(rcpt)
      /\ since <= mail_from /\ since >= 1 /\ since <= turn
  BY <1>1 DEF SessionInStep, AtMessage
<1>3. rcpt \in Seq(Rcpt) /\ Len(rcpt) <= MaxRcpts /\ data \subseteq Turns
  BY <1>1 DEF SmtpTypeOK
<1>4. rcpt[at] \in Rcpt /\ since <= rcpt[at].turn
  BY <1>1, <1>2, <1>3 DEF SessionInStep
<1>6. since \in Turns /\ mail_from \in Turns
  BY <1>1, <1>2, IntakeAssumption, SmtpFacts DEF SmtpTypeOK, Turns
<1>5. at \in 1 .. MaxRcpts
  BY <1>2, <1>3, IntakeAssumption
<1> QED
  BY <1>2, <1>3, <1>4, <1>5, <1>6 DEF ThisMessage, Message

LEMMA StoreMessages ==
  ASSUME SmtpInv, StoreRcpt
  PROVE  StoredInStep' /\ NothingOutlivesReset' /\ AcksFollowStores' /\ stored' \subseteq Message
<1> USE DEF StoreRcpt
<1> DEFINE new == ThisMessage
<1>1. SmtpTypeOK /\ StoredInStep /\ NothingOutlivesReset /\ AcksFollowStores
  BY DEF SmtpInv
<1>2. turn \in Nat /\ at \in Nat /\ \A m \in stored : m.turn \in Nat /\ m.at \in Nat
  BY <1>1, SmtpFacts
<1>3. /\ new \in Message /\ new.turn = turn /\ new.at = at
      /\ new.since <= new.from /\ new.since <= new.to.turn /\ new.data = {new.turn}
  BY ThisMessageIsWhole
<1>4. ThisMessage' = new
  BY DEF ThisMessage
<1>5. stored' = stored \cup {new}
  OBVIOUS
<1> HIDE DEF new
<1>6. \A m \in stored : m.turn <= turn /\ (m.turn = turn => m.at < at)
  BY <1>1 DEF StoredInStep
<1>7. StoredInStep'
  BY <1>2, <1>3, <1>4, <1>5, <1>6 DEF StoredInStep
<1>8. NothingOutlivesReset'
  BY <1>1, <1>3, <1>5 DEF NothingOutlivesReset
<1>9. stored' \subseteq Message
  BY <1>1, <1>3, <1>5 DEF SmtpTypeOK
<1>10. \A m \in stored \ acked : m.turn # turn
  BY <1>1 DEF AcksFollowStores
<1>11. AcksFollowStores'
  <2>1. acked' \subseteq stored'
    BY <1>1, <1>5 DEF AcksFollowStores
  <2>2. ASSUME NEW m \in stored' \ acked'
        PROVE  /\ \A k \in stored' : k.turn = m.turn => k.at <= m.at
               /\ m.turn = turn' => state' \in {"stored", "closed"}
    <3>1. CASE m = new
      BY <1>2, <1>3, <1>5, <1>6, <3>1
    <3>2. CASE m # new
      <4>1. m \in stored \ acked /\ m.turn # turn
        BY <1>5, <1>10, <2>2, <3>2
      <4> QED
        BY <1>1, <1>3, <1>5, <4>1 DEF AcksFollowStores
    <3> QED
      BY <3>1, <3>2
  <2> QED
    BY <2>1, <2>2 DEF AcksFollowStores
<1> QED
  BY <1>7, <1>8, <1>9, <1>11

LEMMA AckMessages ==
  ASSUME SmtpInv, Ack
  PROVE  StoredInStep' /\ NothingOutlivesReset' /\ AcksFollowStores' /\ acked' \subseteq Message
<1> USE DEF Ack
<1> DEFINE new == ThisMessage
<1>1. SmtpTypeOK /\ StoredInStep /\ NothingOutlivesReset /\ AcksFollowStores
  BY DEF SmtpInv
<1>2. turn \in Nat /\ at \in Nat /\ \A m \in stored : m.turn \in Nat /\ m.at \in Nat
  BY <1>1, SmtpFacts
<1>3. /\ new \in stored /\ new.at = at /\ new.turn = turn
      /\ \A m \in stored : m.turn <= turn /\ (m.turn = turn => m.at < at \/ m = new)
  BY <1>1 DEF StoredInStep, ThisMessage
<1>4. acked' = acked \cup {new} /\ UNCHANGED stored
  OBVIOUS
<1> HIDE DEF new
<1>5. StoredInStep'
  BY <1>2, <1>3, <1>4 DEF StoredInStep
<1>6. NothingOutlivesReset'
  BY <1>1, <1>4 DEF NothingOutlivesReset
<1>7. acked' \subseteq stored' /\ acked' \subseteq Message
  BY <1>1, <1>3, <1>4 DEF AcksFollowStores, SmtpTypeOK
<1>8. ASSUME NEW m \in stored' \ acked'
      PROVE  /\ \A k \in stored' : k.turn = m.turn => k.at <= m.at
             /\ m.turn # turn'
  <2>1. m \in stored \ acked /\ m # new
    BY <1>4, <1>8
  <2>2. \A k \in stored : k.turn = m.turn => k.at <= m.at
    BY <1>1, <2>1 DEF AcksFollowStores
  <2>3. m.turn # turn
    BY <1>2, <1>3, <2>1, <2>2
  <2> QED
    BY <1>4, <2>2, <2>3
<1>9. AcksFollowStores'
  BY <1>7, <1>8 DEF AcksFollowStores
<1> QED
  BY <1>5, <1>6, <1>7, <1>9

-----------------------------------------------------------------------------
(* The replies of a session *)

LEMMA LeftOver ==
  ASSUME NEW q \in Nat, NEW S, S = {q}, NEW a \in Nat
  PROVE  Cardinality({i \in S : i >= a}) = IF a <= q THEN 1 ELSE 0
<1>1. CASE a <= q
  <2>1. {i \in S : i >= a} = {q}
    BY <1>1
  <2> QED
    BY <1>1, <2>1, FS_Singleton
<1>2. CASE ~(a <= q)
  <2>1. {i \in S : i >= a} = {}
    BY <1>2
  <2> QED
    BY <1>2, <2>1, FS_EmptySet
<1> QED
  BY <1>1, <1>2

\* A session out of the loop that stays out of it.
LEMMA QuietReplies ==
  ASSUME SmtpInv, state \in {"closed", "command", "data"}, UNCHANGED <<owed, unusual>>,
         state' \in {"command", "data"}
  PROVE  OneBox' /\ RepliesInStep'
<1>1. ~unusual => owed = 0
  BY DEF SmtpInv, SessionInStep, RepliesInStep
<1> QED
  BY <1>1 DEF OneBox, RepliesInStep, AtMessage

\* In the loop, q is the one mailbox of a usual mail.
LEMMA UsualLoop ==
  ASSUME SmtpInv, state \in AtMessage, ~unusual
  PROVE  \E q \in Nat : Ordinary(rcpt) = {q} /\ owed = IF at <= q THEN 1 ELSE 0
<1>1. PICK q \in Nat : Ordinary(rcpt) = {q}
  BY DEF SmtpInv, OneBox
<1>2. owed = Cardinality({i \in Ordinary(rcpt) : i >= at})
  BY DEF SmtpInv, RepliesInStep, AtMessage
<1>3. at \in Nat
  BY SmtpFacts DEF SmtpInv
<1> QED
  BY <1>1, <1>2, <1>3, LeftOver

\* A step in the loop, which answers if it passes the mailbox.
LEMMA LoopReplies ==
  ASSUME SmtpInv, state \in AtMessage, state' \in AtMessage, UNCHANGED <<rcpt, unusual>>,
         at' \in Nat,
         \A q \in Nat : Ordinary(rcpt) = {q} =>
           owed' - owed = (IF at' <= q THEN 1 ELSE 0) - (IF at <= q THEN 1 ELSE 0),
         owed' \in Int
  PROVE  OneBox' /\ RepliesInStep'
<1>1. OneBox'
  BY DEF SmtpInv, OneBox
<1>2. ASSUME ~unusual
      PROVE  owed' = Cardinality({i \in Ordinary(rcpt) : i >= at'})
  <2>1. PICK q \in Nat : Ordinary(rcpt) = {q} /\ owed = IF at <= q THEN 1 ELSE 0
    BY <1>2, UsualLoop
  <2>2. owed' - owed = (IF at' <= q THEN 1 ELSE 0) - (IF at <= q THEN 1 ELSE 0)
    BY <2>1
  <2>3. \A x, y \in {0, 1} : \A o \in Int : o - x = y - x => o = y
    OBVIOUS
  <2>4. owed' = IF at' <= q THEN 1 ELSE 0
    BY <2>1, <2>2, <2>3
  <2> QED
    BY <2>1, <2>4, LeftOver
<1>3. RepliesInStep'
  BY <1>2 DEF RepliesInStep, AtMessage
<1> QED
  BY <1>1, <1>3

LEMMA ClosedReplies ==
  ASSUME state' = "closed"
  PROVE  OneBox' /\ RepliesInStep'
  BY DEF OneBox, RepliesInStep, AtMessage

-----------------------------------------------------------------------------
(* Every step of a session keeps its invariant *)

LEMMA ConnectInv ==
  ASSUME SmtpInv, Connect
  PROVE  SmtpInv'
<1> USE DEF Connect
<1>1. StoredInStep' /\ NothingOutlivesReset' /\ AcksFollowStores'
  BY NextMail
<1>2. OneBox' /\ RepliesInStep'
  BY QuietReplies
<1>3. SmtpTypeOK'
  BY SmtpParts DEF SmtpTypeOK, States
<1>4. SessionInStep'
  BY SmtpParts DEF SessionInStep, AtMessage
<1> QED
  BY <1>1, <1>2, <1>3, <1>4 DEF SmtpInv

LEMMA EhloInv ==
  ASSUME SmtpInv, Ehlo
  PROVE  SmtpInv'
<1> USE DEF Ehlo
<1>1. StoredInStep' /\ NothingOutlivesReset' /\ AcksFollowStores'
  BY SameMessages
<1>2. OneBox' /\ RepliesInStep'
  BY QuietReplies
<1>3. SmtpTypeOK'
  BY SmtpParts DEF SmtpTypeOK, States
<1>4. SessionInStep'
  BY SmtpParts DEF SessionInStep, AtMessage
<1> QED
  BY <1>1, <1>2, <1>3, <1>4 DEF SmtpInv

LEMMA MailFromInv ==
  ASSUME SmtpInv, MailFrom
  PROVE  SmtpInv'
<1> USE DEF MailFrom
<1>1. StoredInStep' /\ NothingOutlivesReset' /\ AcksFollowStores'
  BY SameMessages
<1>2. OneBox' /\ RepliesInStep'
  BY QuietReplies
<1>3. SmtpTypeOK'
  BY SmtpParts DEF SmtpTypeOK, States
<1>4. SessionInStep'
  BY SmtpParts DEF SessionInStep, AtMessage
<1> QED
  BY <1>1, <1>2, <1>3, <1>4 DEF SmtpInv

LEMMA RcptToInv ==
  ASSUME SmtpInv, NEW r \in Boxes \cup Reports, RcptTo(r)
  PROVE  SmtpInv'
<1> USE DEF RcptTo
<1> DEFINE entry == [to |-> r, turn |-> turn]
<1>1. StoredInStep' /\ NothingOutlivesReset' /\ AcksFollowStores'
  BY SameMessages
<1>2. OneBox' /\ RepliesInStep'
  BY QuietReplies
<1>3. entry \in Rcpt /\ entry.turn = turn /\ since <= turn
  BY SmtpParts DEF Rcpt, Turns, SessionInStep
<1>4. rcpt' = Append(rcpt, entry)
  OBVIOUS
<1> HIDE DEF entry
<1>5. rcpt' \in Seq(Rcpt) /\ Len(rcpt') = Len(rcpt) + 1
      /\ \A i \in DOMAIN rcpt' : rcpt'[i] = IF i <= Len(rcpt) THEN rcpt[i] ELSE entry
  BY <1>3, <1>4, SmtpParts
<1>6. SmtpTypeOK'
  BY <1>5, SmtpParts DEF SmtpTypeOK
<1>7. \A i \in DOMAIN rcpt' : since' <= rcpt'[i].turn
  BY <1>3, <1>5, SmtpParts DEF SessionInStep
<1>8. SessionInStep'
  BY <1>7, SmtpParts DEF SessionInStep, AtMessage
<1> QED
  BY <1>1, <1>2, <1>6, <1>8 DEF SmtpInv

LEMMA ResetInv ==
  ASSUME SmtpInv, Reset
  PROVE  SmtpInv'
<1> USE DEF Reset
<1>1. StoredInStep' /\ NothingOutlivesReset' /\ AcksFollowStores'
  BY NextMail
<1>2. OneBox' /\ RepliesInStep'
  BY QuietReplies
<1>3. SmtpTypeOK'
  BY SmtpParts DEF SmtpTypeOK, States
<1>4. SessionInStep'
  BY SmtpParts DEF SessionInStep, AtMessage
<1> QED
  BY <1>1, <1>2, <1>3, <1>4 DEF SmtpInv

LEMMA DataInv ==
  ASSUME SmtpInv, Data
  PROVE  SmtpInv'
<1> USE DEF Data
<1>1. StoredInStep' /\ NothingOutlivesReset' /\ AcksFollowStores'
  BY SameMessages
<1>2. OneBox' /\ RepliesInStep'
  BY QuietReplies
<1>3. SmtpTypeOK'
  BY SmtpParts DEF SmtpTypeOK, States
<1>4. SessionInStep'
  <2>1. turn \in Turns
    BY SmtpParts DEF Turns, SessionInStep
  <2> QED
    BY <2>1, SmtpParts DEF SessionInStep, AtMessage
<1> QED
  BY <1>1, <1>2, <1>3, <1>4 DEF SmtpInv

LEMMA ClearInv ==
  ASSUME SmtpInv, Clear, UNCHANGED <<stored, acked, owed, unusual>>,
         ~unusual => owed = 0, turn <= MaxTurns
  PROVE  SmtpInv'
<1> USE DEF Clear
<1>1. StoredInStep' /\ NothingOutlivesReset' /\ AcksFollowStores'
  BY NextMail
<1>2. OneBox' /\ RepliesInStep'
  BY DEF OneBox, RepliesInStep, AtMessage
<1>3. SmtpTypeOK'
  <2>1. rcpt' \in Seq(Rcpt) /\ Len(rcpt') = 0
    OBVIOUS
  <2>2. Len(rcpt') <= MaxRcpts
    BY <2>1, SmtpParts
  <2> QED
    BY <2>1, <2>2, SmtpParts DEF SmtpTypeOK, States
<1>4. SessionInStep'
  BY SmtpParts DEF SessionInStep, AtMessage
<1> QED
  BY <1>1, <1>2, <1>3, <1>4 DEF SmtpInv

LEMMA OrdinaryPlaces ==
  SmtpInv => Ordinary(rcpt) \subseteq 1 .. Len(rcpt)
  BY SmtpParts DEF Ordinary

LEMMA DotInv ==
  ASSUME SmtpInv, Dot
  PROVE  SmtpInv'
<1>1. state = "data" /\ UNCHANGED <<stored, acked, suppressions>>
  BY DEF Dot
<1>2. turn \in Turns /\ turn <= MaxTurns /\ (~unusual => owed = 0)
  BY <1>1, SmtpParts DEF SessionInStep, SmtpInv, RepliesInStep, Turns
<1>3. CASE rcpt = <<>>
  BY <1>1, <1>2, <1>3, ClearInv DEF Dot
<1>4. CASE rcpt # <<>>
  <2>1. /\ state' = "loop" /\ at' = 1 /\ data' = data \cup {turn} /\ owed' = owed + 1
        /\ unusual' = (unusual \/ Cardinality(Ordinary(rcpt)) # 1)
        /\ UNCHANGED <<mail_from, rcpt, turn, since>>
    BY <1>4 DEF Dot
  <2>2. StoredInStep' /\ NothingOutlivesReset' /\ AcksFollowStores'
    BY <1>1, <2>1, LoopMessages
  <2>3. Len(rcpt) >= 1
    BY <1>4, SmtpParts
  <2>4. SmtpTypeOK'
    <3>1. unusual' \in BOOLEAN
      BY <2>1
    <3>2. state' \in States /\ at' \in 0 .. MaxRcpts + 1 /\ owed' \in Int /\ data' \subseteq Turns
      BY <1>2, <2>1, <2>3, SmtpParts DEF States
    <3> QED
      BY <1>1, <2>1, <3>1, <3>2, SmtpParts DEF SmtpTypeOK
  <2>5. SessionInStep'
    BY <1>2, <2>1, <2>3, SmtpParts DEF SessionInStep, AtMessage
  <2>6. ASSUME ~unusual'
        PROVE  \E q \in Nat : /\ Ordinary(rcpt) = {q}
                              /\ owed' = Cardinality({i \in Ordinary(rcpt) : i >= 1})
    <3>0. ~unusual /\ Cardinality(Ordinary(rcpt)) = 1
      BY <2>1, <2>6
    <3>1. ~unusual /\ Cardinality(Ordinary(rcpt)) = 1 /\ owed' = 1
      BY <1>2, <2>1, <3>0
    <3>2. Ordinary(rcpt) \subseteq 1 .. Len(rcpt)
      BY OrdinaryPlaces
    <3>3. IsFiniteSet(1 .. Len(rcpt))
      BY SmtpParts, FS_Interval
    <3>4. IsFiniteSet(Ordinary(rcpt))
      BY <3>2, <3>3, FS_Subset
    <3>5. PICK q : Ordinary(rcpt) = {q}
      BY <3>1, <3>4, FS_Singleton
    <3>6. q \in Nat /\ 1 <= q
      BY <3>2, <3>5, SmtpParts
    <3>7. Cardinality({i \in Ordinary(rcpt) : i >= 1}) = 1
      BY <3>5, <3>6, LeftOver
    <3> QED
      BY <3>1, <3>5, <3>6, <3>7
  <2>7. OneBox' /\ RepliesInStep'
    BY <2>1, <2>6 DEF OneBox, RepliesInStep
  <2> QED
    BY <2>2, <2>4, <2>5, <2>7 DEF SmtpInv
<1> QED
  BY <1>3, <1>4

\* The recipient in turn is the mailbox, or it is none.
LEMMA InTurn ==
  ASSUME SmtpInv, state \in AtMessage, at \in 1 .. Len(rcpt)
  PROVE  at \in Ordinary(rcpt) <=> rcpt[at].to \in Boxes
  BY SmtpParts DEF Ordinary

LEMMA RefusePlace ==
  ASSUME SmtpInv, InLoop \/ state \in {"passed", "stored", "refused"}
  PROVE  state \in AtMessage /\ at \in 1 .. Len(rcpt) /\ rcpt[at] \in Rcpt /\ turn \in Turns
<1>1. state \in AtMessage /\ at \in 1 .. Len(rcpt)
  BY SmtpParts DEF SessionInStep, InLoop, AtMessage
<1>2. rcpt[at] \in Rcpt
  BY <1>1, SmtpParts
<1>3. turn \in Turns
  BY <1>1, SmtpParts DEF SessionInStep
<1> QED
  BY <1>1, <1>2, <1>3

LEMMA ReportInv ==
  ASSUME SmtpInv, Report
  PROVE  SmtpInv'
<1> USE DEF Report
<1>1. state = "loop" /\ state \in AtMessage /\ state' \in AtMessage
  BY DEF InLoop, AtMessage
<1>2. at \in 1 .. Len(rcpt) /\ at \notin Ordinary(rcpt)
  BY RefusePlace, InTurn, IntakeAssumption
<1>3. StoredInStep' /\ NothingOutlivesReset' /\ AcksFollowStores'
  BY <1>1, LoopMessages
<1>4. OneBox' /\ RepliesInStep'
  <2>1. \A q \in Nat : Ordinary(rcpt) = {q} =>
          (IF at' <= q THEN 1 ELSE 0) = (IF at <= q THEN 1 ELSE 0)
    BY <1>2, SmtpParts
  <2>2. \A q \in Nat : Ordinary(rcpt) = {q} =>
          owed' - owed = (IF at' <= q THEN 1 ELSE 0) - (IF at <= q THEN 1 ELSE 0)
    BY <2>1, SmtpParts
  <2> QED
    BY <1>1, <2>2, LoopReplies, SmtpParts
<1>5. SmtpTypeOK'
  BY <1>2, SmtpParts DEF SmtpTypeOK
<1>6. SessionInStep'
  BY <1>1, <1>2, SmtpParts DEF SessionInStep, AtMessage
<1> QED
  BY <1>3, <1>4, <1>5, <1>6 DEF SmtpInv

LEMMA LookupInv ==
  ASSUME SmtpInv, Lookup
  PROVE  SmtpInv'
<1> USE DEF Lookup
<1>1. state = "loop" /\ state \in AtMessage /\ state' \in AtMessage
  BY DEF InLoop, AtMessage
<1>2. at \in 1 .. Len(rcpt)
  BY RefusePlace
<1>3. StoredInStep' /\ NothingOutlivesReset' /\ AcksFollowStores'
  BY <1>1, LoopMessages
<1>4. OneBox' /\ RepliesInStep'
  BY <1>1, LoopReplies, SmtpParts
<1>5. SmtpTypeOK'
  BY SmtpParts DEF SmtpTypeOK, States
<1>6. SessionInStep'
  BY <1>1, <1>2, SmtpParts DEF SessionInStep, AtMessage
<1> QED
  BY <1>3, <1>4, <1>5, <1>6 DEF SmtpInv

\* A reply to the mailbox in turn.
LEMMA AnswerReplies ==
  ASSUME SmtpInv, state \in AtMessage, state' = "loop", at \in Ordinary(rcpt),
         at' = at + 1, owed' = owed - 1, UNCHANGED <<rcpt, unusual>>
  PROVE  OneBox' /\ RepliesInStep'
<1>1. \A q \in Nat : Ordinary(rcpt) = {q} => at = q
  OBVIOUS
<1>2. owed \in Int /\ at \in Nat
  BY SmtpParts
<1>3. \A q \in Nat : Ordinary(rcpt) = {q} =>
        owed' - owed = (IF at' <= q THEN 1 ELSE 0) - (IF at <= q THEN 1 ELSE 0)
  BY <1>1, <1>2
<1> QED
  BY <1>2, <1>3, LoopReplies DEF AtMessage

LEMMA RefuseRcptInv ==
  ASSUME SmtpInv, RefuseRcpt
  PROVE  SmtpInv'
<1> USE DEF RefuseRcpt
<1>1. state \in {"loop", "passed"} /\ state \in AtMessage /\ state' \in AtMessage
  BY DEF InLoop, AtMessage
<1>2. at \in 1 .. Len(rcpt) /\ rcpt[at].to \in Boxes
  BY RefusePlace, SmtpParts DEF SessionInStep
<1>3. StoredInStep' /\ NothingOutlivesReset' /\ AcksFollowStores'
  BY <1>1, LoopMessages
<1>4. OneBox' /\ RepliesInStep'
  BY <1>1, LoopReplies, SmtpParts
<1>5. SmtpTypeOK'
  BY SmtpParts DEF SmtpTypeOK, States
<1>6. SessionInStep'
  BY <1>1, <1>2, SmtpParts DEF SessionInStep, AtMessage
<1> QED
  BY <1>3, <1>4, <1>5, <1>6 DEF SmtpInv

LEMMA DenyInv ==
  ASSUME SmtpInv, Deny
  PROVE  SmtpInv'
<1> USE DEF Deny
<1>1. state = "refused" /\ state \in AtMessage /\ state' = "loop"
  BY DEF AtMessage
<1>2. at \in 1 .. Len(rcpt) /\ rcpt[at].to \in Boxes /\ turn \in Turns
  BY RefusePlace, SmtpParts DEF SessionInStep
<1>3. StoredInStep' /\ NothingOutlivesReset' /\ AcksFollowStores'
  BY <1>1, LoopMessages
<1>4. OneBox' /\ RepliesInStep'
  BY <1>1, <1>2, InTurn, AnswerReplies
<1>5. SmtpTypeOK'
  BY <1>2, SmtpParts DEF SmtpTypeOK, States
<1>6. SessionInStep'
  BY <1>1, <1>2, SmtpParts DEF SessionInStep, AtMessage
<1> QED
  BY <1>3, <1>4, <1>5, <1>6 DEF SmtpInv

LEMMA StoreRcptInv ==
  ASSUME SmtpInv, StoreRcpt
  PROVE  SmtpInv'
<1> USE DEF StoreRcpt
<1>1. state = "passed" /\ state \in AtMessage /\ state' \in AtMessage
  BY DEF AtMessage
<1>2. at \in 1 .. Len(rcpt) /\ rcpt[at].to \in Boxes /\ turn \in Turns
  BY RefusePlace, SmtpParts DEF SessionInStep
<1>3. StoredInStep' /\ NothingOutlivesReset' /\ AcksFollowStores' /\ stored' \subseteq Message
  BY StoreMessages
<1>4. OneBox' /\ RepliesInStep'
  BY <1>1, LoopReplies, SmtpParts
<1>5. SmtpTypeOK'
  BY <1>3, SmtpParts DEF SmtpTypeOK, States
<1>6. SessionInStep'
  BY <1>1, <1>2, SmtpParts DEF SessionInStep, AtMessage
<1> QED
  BY <1>3, <1>4, <1>5, <1>6 DEF SmtpInv

LEMMA AckInv ==
  ASSUME SmtpInv, Ack
  PROVE  SmtpInv'
<1> USE DEF Ack
<1>1. state = "stored" /\ state \in AtMessage /\ state' = "loop"
  BY DEF AtMessage
<1>2. at \in 1 .. Len(rcpt) /\ rcpt[at].to \in Boxes /\ turn \in Turns
  BY RefusePlace, SmtpParts DEF SessionInStep
<1>3. StoredInStep' /\ NothingOutlivesReset' /\ AcksFollowStores' /\ acked' \subseteq Message
  BY AckMessages
<1>4. OneBox' /\ RepliesInStep'
  BY <1>1, <1>2, InTurn, AnswerReplies
<1>5. SmtpTypeOK'
  BY <1>2, <1>3, SmtpParts DEF SmtpTypeOK, States
<1>6. SessionInStep'
  BY <1>1, <1>2, SmtpParts DEF SessionInStep, AtMessage
<1> QED
  BY <1>3, <1>4, <1>5, <1>6 DEF SmtpInv

LEMMA EndOfLoopInv ==
  ASSUME SmtpInv, EndOfLoop
  PROVE  SmtpInv'
<1> USE DEF EndOfLoop
<1>1. state \in AtMessage /\ turn <= MaxTurns
  BY SmtpParts DEF AtMessage, SessionInStep, Turns
<1>2. ~unusual => owed = 0
  <2>1. \A q \in Nat : Ordinary(rcpt) = {q} => q <= Len(rcpt)
    BY OrdinaryPlaces
  <2> QED
    BY <1>1, <2>1, UsualLoop, SmtpParts
<1> QED
  BY <1>1, <1>2, ClearInv

LEMMA CloseInv ==
  ASSUME SmtpInv, Close
  PROVE  SmtpInv'
<1> USE DEF Close
<1>1. StoredInStep' /\ NothingOutlivesReset' /\ AcksFollowStores'
  BY ClosedMessages
<1>2. OneBox' /\ RepliesInStep'
  BY ClosedReplies
<1>3. SmtpTypeOK'
  <2>1. rcpt' \in Seq(Rcpt) /\ Len(rcpt') = 0
    OBVIOUS
  <2>2. Len(rcpt') <= MaxRcpts
    BY <2>1, SmtpParts
  <2>3. unusual' \in BOOLEAN
    OBVIOUS
  <2>4. /\ state' \in States /\ mail_from' \in 0 .. MaxTurns /\ data' \subseteq Turns
        /\ at' \in 0 .. MaxRcpts + 1 /\ owed' \in Int
    BY SmtpParts DEF States
  <2> QED
    BY <2>1, <2>2, <2>3, <2>4, SmtpParts DEF SmtpTypeOK
<1>4. SessionInStep'
  BY SmtpParts DEF SessionInStep, AtMessage
<1> QED
  BY <1>1, <1>2, <1>3, <1>4 DEF SmtpInv

LEMMA SmtpNextInv ==
  ASSUME SmtpInv, SmtpNext
  PROVE  SmtpInv'
<1>1. CASE Connect \/ Ehlo \/ MailFrom \/ Reset \/ Data \/ Dot \/ Hangup
  BY <1>1, ConnectInv, EhloInv, MailFromInv, ResetInv, DataInv, DotInv, CloseInv DEF Hangup
<1>2. CASE \E r \in Boxes \cup Reports : RcptTo(r)
  BY <1>2, RcptToInv
<1>3. CASE SmtpWork
  BY <1>3, ReportInv, LookupInv, RefuseRcptInv, StoreRcptInv, EndOfLoopInv DEF SmtpWork
<1>4. CASE SmtpReply
  BY <1>4, AckInv, DenyInv DEF SmtpReply
<1> QED
  BY <1>1, <1>2, <1>3, <1>4 DEF SmtpNext

LEMMA SmtpSame ==
  ASSUME SmtpInv, UNCHANGED smtpVars
  PROVE  SmtpInv'
  BY DEF smtpVars, SmtpInv, SmtpTypeOK, SessionInStep, StoredInStep, NothingOutlivesReset,
         AcksFollowStores, OneBox, RepliesInStep, ThisMessage

-----------------------------------------------------------------------------
(* The requests *)

\* The recipients before the place of the loop have the copy of this try, the
\* others have not.
CopiesInStep ==
  \A r \in Requests : answer[r] \in Open =>
    /\ place[r] \in DOMAIN To[r]
    /\ \A k \in DOMAIN To[r] :
         /\ k >= place[r] => copies[r][k] < tries[r]
         /\ k >= place[r] => \A j \in 1 .. place[r] - 1 : copies[r][j] > copies[r][k]

HttpInv == HttpTypeOK /\ CopiesInStep /\ CopiesFollowTries

LEMMA HttpParts ==
  ASSUME HttpTypeOK, NEW r \in Requests
  PROVE  /\ To[r] \in Seq(Addresses) /\ Len(To[r]) \in Nat /\ DOMAIN To[r] = 1 .. Len(To[r])
         /\ copies[r] \in [DOMAIN To[r] -> Nat] /\ tries[r] \in Nat /\ place[r] \in Nat
         /\ \A k \in DOMAIN To[r] : copies[r][k] \in Nat
<1>1. To[r] \in Seq(Addresses)
  BY ApiAssumption
<1>2. copies[r] \in [DOMAIN To[r] -> 0 .. MaxTries] /\ MaxTries \in Nat
  BY ApiAssumption DEF HttpTypeOK
<1>3. tries[r] \in Nat /\ place[r] \in Nat
  BY ApiAssumption DEF HttpTypeOK
<1> QED
  BY <1>1, <1>2, <1>3

LEMMA HttpInitInv == HttpInit => HttpInv
<1> SUFFICES ASSUME HttpInit PROVE HttpInv
  OBVIOUS
<1> USE DEF HttpInit
<1>1. HttpTypeOK
  <2>1. \A r \in Requests : copies[r] \in [DOMAIN To[r] -> 0 .. MaxTries]
    BY ApiAssumption
  <2> QED
    BY <2>1, ApiAssumption DEF HttpTypeOK, Answers, Open
<1>2. CopiesInStep
  BY DEF CopiesInStep, Open
<1>3. CopiesFollowTries
  <2>1. ASSUME NEW r \in Requests, NEW k \in DOMAIN To[r], NEW j \in 1 .. k
        PROVE  j \in DOMAIN To[r]
    BY ApiAssumption
  <2>2. \A r \in Requests : \A k \in DOMAIN To[r] : copies[r][k] = 0
    OBVIOUS
  <2> QED
    BY <2>1, <2>2 DEF CopiesFollowTries
<1> QED
  BY <1>1, <1>2, <1>3 DEF HttpInv

\* A step that stores nothing: what must hold of a request that it changes.
LEMMA NothingStored ==
  ASSUME HttpInv, UNCHANGED copies, keys' \subseteq Keys,
         answer' \in [Requests -> Answers], place' \in [Requests -> Nat],
         tries' \in [Requests -> 0 .. MaxTries],
         \A r \in Requests : tries'[r] >= tries[r],
         \A r \in Requests :
           \/ answer'[r] \notin Open \cup {"ok"} /\ place'[r] = 0
           \/ /\ answer'[r] = answer[r] \/ (answer[r] = "loop" /\ answer'[r] = "checked")
              /\ place'[r] = place[r] /\ tries'[r] = tries[r]
           \/ /\ answer'[r] = "loop" /\ place'[r] = 1 /\ To[r] # <<>>
              /\ tries'[r] > tries[r]
  PROVE  HttpInv'
<1>1. HttpTypeOK /\ CopiesInStep /\ CopiesFollowTries
  BY DEF HttpInv
<1>2. ASSUME NEW r \in Requests
      PROVE  IF answer'[r] \in Open THEN place'[r] \in DOMAIN To[r] ELSE place'[r] = 0
  BY <1>1, HttpParts DEF HttpTypeOK, Open
<1>3. HttpTypeOK'
  BY <1>1, <1>2 DEF HttpTypeOK
<1>4. ASSUME NEW r \in Requests, answer'[r] \in Open
      PROVE  /\ place'[r] \in DOMAIN To[r]
             /\ \A k \in DOMAIN To[r] :
                  /\ k >= place'[r] => copies[r][k] < tries'[r]
                  /\ k >= place'[r] => \A j \in 1 .. place'[r] - 1 : copies[r][j] > copies[r][k]
  <2>1. CASE answer[r] \in Open /\ place'[r] = place[r] /\ tries'[r] = tries[r]
    BY <1>1, <1>2, <1>4, <2>1 DEF CopiesInStep
  <2>2. CASE place'[r] = 1 /\ tries'[r] > tries[r]
    <3>1. \A k \in DOMAIN To[r] : copies[r][k] <= tries[r] /\ copies[r][k] \in Nat
      BY <1>1, HttpParts DEF CopiesFollowTries
    <3>2. tries[r] \in Nat /\ tries'[r] \in Nat
      BY <1>1, <1>3, HttpParts, ApiAssumption DEF HttpTypeOK
    <3> QED
      BY <1>2, <1>4, <2>2, <3>1, <3>2
  <2> QED
    BY <1>4, <2>1, <2>2 DEF Open
<1>5. CopiesInStep'
  BY <1>4 DEF CopiesInStep
<1>6. ASSUME NEW r \in Requests, NEW k \in DOMAIN To[r]
      PROVE  /\ copies[r][k] <= tries'[r]
             /\ \A j \in 1 .. k : copies[r][j] >= copies[r][k]
             /\ answer'[r] = "ok" => copies[r][k] > 0
  <2>1. /\ copies[r][k] <= tries[r]
        /\ \A j \in 1 .. k : copies[r][j] >= copies[r][k]
        /\ answer[r] = "ok" => copies[r][k] > 0
    BY <1>1 DEF CopiesFollowTries
  <2>2. copies[r][k] \in Nat /\ tries[r] \in Nat /\ tries'[r] \in Nat
    BY <1>1, HttpParts, ApiAssumption DEF HttpTypeOK
  <2>3. answer'[r] = "ok" => answer[r] = "ok"
    OBVIOUS
  <2> QED
    BY <2>1, <2>2, <2>3
<1>7. CopiesFollowTries'
  BY <1>6 DEF CopiesFollowTries
<1> QED
  BY <1>3, <1>5, <1>7 DEF HttpInv

LEMMA HttpSame ==
  ASSUME HttpInv, UNCHANGED httpVars
  PROVE  HttpInv'
  BY DEF httpVars, HttpInv, HttpTypeOK, CopiesInStep, CopiesFollowTries

LEMMA SendInv ==
  ASSUME HttpInv, NEW r \in Requests, Send(r)
  PROVE  HttpInv'
<1> USE DEF Send
<1>1. HttpTypeOK
  BY DEF HttpInv
<1>2. MaxTries \in Nat /\ tries \in [Requests -> 0 .. MaxTries]
  BY <1>1, ApiAssumption DEF HttpTypeOK
<1>3. /\ tries' \in [Requests -> 0 .. MaxTries] /\ tries'[r] > tries[r]
      /\ \A q \in Requests : tries'[q] >= tries[q] /\ (q # r => tries'[q] = tries[q])
  BY <1>2
<1>4. /\ answer' \in [Requests -> Answers] /\ place' \in [Requests -> Nat]
      /\ \A q \in Requests : q # r => answer'[q] = answer[q] /\ place'[q] = place[q]
  BY <1>1 DEF HttpTypeOK, Answers
<1>5. \/ answer'[r] = "loop" /\ place'[r] = 1 /\ To[r] # <<>>
      \/ answer'[r] = "error" /\ place'[r] = 0
  BY <1>1 DEF HttpTypeOK
<1>6. keys' \subseteq Keys
  BY <1>1 DEF HttpTypeOK
<1> QED
  BY <1>3, <1>4, <1>5, <1>6, NothingStored DEF Open

LEMMA CheckInv ==
  ASSUME HttpInv, NEW r \in Requests, Check(r)
  PROVE  HttpInv'
<1> USE DEF Check
<1>1. HttpTypeOK
  BY DEF HttpInv
<1>2. /\ answer' \in [Requests -> Answers]
      /\ \A q \in Requests : answer'[q] = IF q = r THEN "checked" ELSE answer[q]
  BY <1>1 DEF HttpTypeOK, Answers
<1>3. \A q \in Requests : tries[q] >= tries[q]
  BY <1>1, HttpParts
<1> QED
  BY <1>1, <1>2, <1>3, NothingStored DEF HttpTypeOK

LEMMA EndInv ==
  ASSUME HttpInv, NEW r \in Requests, End(r, "error") \/ End(r, "gone"),
         UNCHANGED <<keys, copies, tries>>
  PROVE  HttpInv'
<1> USE DEF End
<1>1. HttpTypeOK
  BY DEF HttpInv
<1>2. PICK how \in {"error", "gone"} : answer' = [answer EXCEPT ![r] = how]
  OBVIOUS
<1>3. /\ answer' \in [Requests -> Answers] /\ place' \in [Requests -> Nat]
      /\ \A q \in Requests : /\ answer'[q] = IF q = r THEN how ELSE answer[q]
                             /\ place'[q] = IF q = r THEN 0 ELSE place[q]
  BY <1>1, <1>2 DEF HttpTypeOK, Answers
<1>4. \A q \in Requests : tries[q] >= tries[q]
  BY <1>1, HttpParts
<1> QED
  BY <1>1, <1>2, <1>3, <1>4, NothingStored DEF HttpTypeOK, Open

LEMMA StoreInv ==
  ASSUME HttpInv, NEW r \in Requests, Store(r)
  PROVE  HttpInv'
<1> USE DEF Store
<1> DEFINE p == place[r]
           n == Len(To[r])
<1>1. HttpTypeOK /\ CopiesInStep /\ CopiesFollowTries
  BY DEF HttpInv
<1>2. /\ n \in Nat /\ DOMAIN To[r] = 1 .. n /\ p \in 1 .. n
      /\ tries[r] \in Nat /\ \A k \in 1 .. n : copies[r][k] \in Nat
  BY <1>1, HttpParts DEF HttpTypeOK, Open
<1>3. /\ \A k \in 1 .. n : k >= p => copies[r][k] < tries[r]
      /\ \A k \in 1 .. n : k >= p => \A j \in 1 .. p - 1 : copies[r][j] > copies[r][k]
  BY <1>1, <1>2 DEF CopiesInStep, Open
<1>4. \A k \in 1 .. n : /\ copies[r][k] <= tries[r]
                        /\ \A j \in 1 .. k : copies[r][j] >= copies[r][k]
  BY <1>1, <1>2 DEF CopiesFollowTries
<1>5. /\ \A q \in Requests : q # r => copies'[q] = copies[q]
      /\ \A k \in 1 .. n : copies'[r][k] = IF k = p THEN copies[r][k] + 1 ELSE copies[r][k]
      /\ DOMAIN copies'[r] = DOMAIN copies[r]
  <2>1. copies' = [copies EXCEPT ![r] = [copies[r] EXCEPT ![p] = copies[r][p] + 1]]
    OBVIOUS
  <2>2. copies[r] \in [1 .. n -> Nat] /\ DOMAIN copies = Requests
    BY <1>1, <1>2, HttpParts DEF HttpTypeOK
  <2> HIDE DEF p, n
  <2> QED
    BY <2>1, <2>2
<1>6. /\ \A q \in Requests : q # r => answer'[q] = answer[q] /\ place'[q] = place[q]
      /\ answer' \in [Requests -> Answers] /\ place' \in [Requests -> Nat]
      /\ p < n => answer'[r] = "loop" /\ place'[r] = p + 1
      /\ ~(p < n) => answer'[r] = "ok" /\ place'[r] = 0
  <2>1. answer \in [Requests -> Answers] /\ place \in [Requests -> Nat]
    BY <1>1 DEF HttpTypeOK
  <2>2. CASE p < n
    <3>1. /\ answer' = [answer EXCEPT ![r] = "loop"]
          /\ place' = [place EXCEPT ![r] = p + 1]
      BY <2>2
    <3> HIDE DEF p, n
    <3>2. "loop" \in Answers /\ p + 1 \in Nat
      BY <1>2 DEF Answers
    <3> QED
      BY <2>1, <2>2, <3>1, <3>2
  <2>3. CASE ~(p < n)
    <3>1. answer' = [answer EXCEPT ![r] = "ok"] /\ place' = [place EXCEPT ![r] = 0]
      BY <2>3 DEF End
    <3> HIDE DEF p, n
    <3>2. "ok" \in Answers /\ 0 \in Nat
      BY DEF Answers
    <3> QED
      BY <2>1, <2>3, <3>1, <3>2
  <2> QED
    BY <2>2, <2>3
<1>7. DOMAIN copies = Requests /\ copies[r] \in [1 .. n -> 0 .. MaxTries]
      /\ MaxTries \in Nat /\ tries[r] <= MaxTries
  BY <1>1, <1>2, ApiAssumption DEF HttpTypeOK
<1> HIDE DEF p, n
<1>8. \A k \in 1 .. n : copies'[r][k] <= tries[r] /\ copies'[r][k] \in 0 .. MaxTries
  BY <1>2, <1>3, <1>4, <1>5, <1>7
<1>9. HttpTypeOK'
  <2>1. copies'[r] \in [DOMAIN To[r] -> 0 .. MaxTries]
    BY <1>2, <1>5, <1>7, <1>8
  <2>2. \A q \in Requests : copies'[q] \in [DOMAIN To[q] -> 0 .. MaxTries]
    BY <1>1, <1>5, <2>1 DEF HttpTypeOK
  <2>3. DOMAIN copies' = Requests
    BY <1>7
  <2>4. IF answer'[r] \in Open THEN place'[r] \in DOMAIN To[r] ELSE place'[r] = 0
    BY <1>2, <1>6 DEF Open
  <2>5. \A q \in Requests : IF answer'[q] \in Open THEN place'[q] \in DOMAIN To[q]
                            ELSE place'[q] = 0
    BY <1>1, <1>6, <2>4 DEF HttpTypeOK
  <2> QED
    BY <1>1, <1>6, <2>2, <2>3, <2>5 DEF HttpTypeOK
<1>10. CopiesInStep'
  <2>1. ASSUME p < n, NEW k \in 1 .. n, k >= p + 1
        PROVE  /\ copies'[r][k] < tries[r]
               /\ \A j \in 1 .. p : copies'[r][j] > copies'[r][k]
    <3>1. copies'[r][k] = copies[r][k] /\ copies[r][k] < tries[r]
      BY <1>2, <1>3, <1>5, <2>1
    <3>2. ASSUME NEW j \in 1 .. p PROVE copies'[r][j] > copies[r][k]
      <4>1. CASE j = p
        BY <1>2, <1>4, <1>5, <2>1, <4>1
      <4>2. CASE j \in 1 .. p - 1
        BY <1>2, <1>3, <1>5, <2>1, <4>2
      <4> QED
        BY <1>2, <4>1, <4>2
    <3> QED
      BY <3>1, <3>2
  <2>2. ASSUME NEW q \in Requests, answer'[q] \in Open
        PROVE  /\ place'[q] \in DOMAIN To[q]
               /\ \A k \in DOMAIN To[q] :
                    /\ k >= place'[q] => copies'[q][k] < tries'[q]
                    /\ k >= place'[q] =>
                         \A j \in 1 .. place'[q] - 1 : copies'[q][j] > copies'[q][k]
    <3>1. CASE q = r
      <4>1. p < n /\ place'[r] = p + 1 /\ tries'[r] = tries[r]
        BY <1>6, <2>2, <3>1 DEF Open
      <4>2. p + 1 \in 1 .. n /\ (p + 1) - 1 = p
        BY <1>2, <4>1
      <4> QED
        BY <1>2, <2>1, <3>1, <4>1, <4>2
    <3>2. CASE q # r
      BY <1>1, <1>5, <1>6, <2>2, <3>2 DEF CopiesInStep
    <3> QED
      BY <3>1, <3>2
  <2> QED
    BY <2>2 DEF CopiesInStep
<1>11. CopiesFollowTries'
  <2>1. ASSUME NEW k \in 1 .. n
        PROVE  /\ copies'[r][k] <= tries[r]
               /\ \A j \in 1 .. k : copies'[r][j] >= copies'[r][k]
               /\ answer'[r] = "ok" => copies'[r][k] > 0
    <3>1. ASSUME NEW j \in 1 .. k PROVE copies'[r][j] >= copies'[r][k]
      <4>1. j \in 1 .. n
        BY <1>2
      <4>2. CASE k = p /\ j # p
        <5>1. j \in 1 .. p - 1
          BY <1>2, <4>2
        <5>2. copies[r][j] > copies[r][p]
          BY <1>2, <1>3, <5>1
        <5> QED
          BY <1>2, <1>5, <4>1, <4>2, <5>2
      <4>3. CASE ~(k = p /\ j # p)
        BY <1>2, <1>4, <1>5, <4>1, <4>3
      <4> QED
        BY <4>2, <4>3
    <3>2. ASSUME answer'[r] = "ok" PROVE copies'[r][k] > 0
      <4>1. p = n
        BY <1>2, <1>6, <3>2
      <4>2. CASE k = p
        BY <1>2, <1>5, <4>2
      <4>3. CASE k # p
        <5>1. k \in 1 .. p - 1
          BY <1>2, <4>1, <4>3
        <5>2. copies[r][k] > copies[r][p]
          BY <1>2, <1>3, <5>1
        <5> QED
          BY <1>2, <1>5, <4>3, <5>2
      <4> QED
        BY <4>2, <4>3
    <3> QED
      BY <1>8, <3>1, <3>2
  <2>2. ASSUME NEW q \in Requests, NEW k \in DOMAIN To[q]
        PROVE  /\ copies'[q][k] <= tries'[q]
               /\ \A j \in 1 .. k : copies'[q][j] >= copies'[q][k]
               /\ answer'[q] = "ok" => copies'[q][k] > 0
    <3>1. CASE q = r
      BY <1>2, <2>1, <3>1
    <3>2. CASE q # r
      BY <1>1, <1>5, <1>6, <3>2 DEF CopiesFollowTries
    <3> QED
      BY <3>1, <3>2
  <2> QED
    BY <2>2 DEF CopiesFollowTries
<1> QED
  BY <1>9, <1>10, <1>11 DEF HttpInv

-----------------------------------------------------------------------------
(* Side by side *)

\* A caller is late for a mailbox at most once, only if it is suppressed, and
\* not while it may still store a message for it.
LateInStep ==
  /\ \A c \in Callers, b \in Boxes :
       late[c][b] <= 1 /\ (late[c][b] > 0 => InLower(b) \in suppressions)
  /\ state = "passed" => late[Session][rcpt[at].to] = 0
  /\ \A r \in Requests : answer[r] = "checked" => late[r][Recipient(r).box] = 0

IntakeInv ==
  /\ SmtpInv /\ HttpInv
  /\ suppressions \subseteq Addresses
  /\ late \in [Callers -> [Boxes -> Nat]]
  /\ LateInStep

LEMMA InitInv == Init => IntakeInv
<1> SUFFICES ASSUME Init PROVE IntakeInv
  OBVIOUS
<1>1. SmtpInv /\ HttpInv
  BY SmtpInitInv, HttpInitInv DEF Init
<1>2. suppressions = {} /\ late = [c \in Callers |-> [b \in Boxes |-> 0]]
  BY DEF Init
<1>3. state # "passed" /\ \A r \in Requests : answer[r] # "checked"
  BY DEF Init, SmtpInit, HttpInit
<1>4. LateInStep
  BY <1>2, <1>3 DEF LateInStep
<1> QED
  BY <1>1, <1>2, <1>4 DEF IntakeInv

LEMMA LateFacts ==
  ASSUME IntakeInv
  PROVE  /\ Session \in Callers /\ \A r \in Requests : r \in Callers /\ r # Session
         /\ \A c \in Callers, b \in Boxes : late[c][b] \in Nat
  BY CallerAssumption DEF IntakeInv, Callers

\* Who stores a message has looked its recipient up in time for one.
LEMMA NoteInv ==
  ASSUME IntakeInv, NEW c \in Callers, NEW b \in Boxes, late[c][b] = 0,
         Note(c, b), suppressions' = suppressions
  PROVE  /\ late' \in [Callers -> [Boxes -> Nat]]
         /\ \A d \in Callers : d # c => late'[d] = late[d]
         /\ \A d \in Callers, a \in Boxes :
              late'[d][a] <= 1 /\ (late'[d][a] > 0 => InLower(a) \in suppressions')
<1>1. late \in [Callers -> [Boxes -> Nat]]
  BY DEF IntakeInv
<1>2. \A d \in Callers, a \in Boxes :
        late[d][a] <= 1 /\ (late[d][a] > 0 => InLower(a) \in suppressions)
  BY DEF IntakeInv, LateInStep
<1>3. CASE InLower(b) \notin suppressions
  BY <1>1, <1>2, <1>3 DEF Note
<1>4. CASE InLower(b) \in suppressions
  <2>1. late' = [late EXCEPT ![c] = [late[c] EXCEPT ![b] = late[c][b] + 1]]
    BY <1>4 DEF Note
  <2>2. [late[c] EXCEPT ![b] = late[c][b] + 1] \in [Boxes -> Nat]
    BY <1>1
  <2>3. late' \in [Callers -> [Boxes -> Nat]] /\ \A d \in Callers : d # c => late'[d] = late[d]
    BY <1>1, <2>1, <2>2
  <2>4. \A a \in Boxes : late'[c][a] = IF a = b THEN 1 ELSE late[c][a]
    BY <1>1, <2>1
  <2> QED
    BY <1>2, <1>4, <2>3, <2>4
<1> QED
  BY <1>3, <1>4

LEMMA SmtpCases ==
  ASSUME SmtpNext
  PROVE  /\ UNCHANGED suppressions
         /\ stored' = stored \/ StoreRcpt
         /\ state' = "passed" => Lookup
<1>1. CASE \/ Connect \/ Ehlo \/ MailFrom \/ Reset \/ Data \/ Hangup
           \/ \E r \in Boxes \cup Reports : RcptTo(r)
  BY <1>1 DEF Connect, Ehlo, MailFrom, Reset, Data, Hangup, Close, RcptTo
<1>2. CASE Dot
  BY <1>2 DEF Dot, Clear
<1>3. CASE SmtpWork \/ SmtpReply
  BY <1>3 DEF SmtpWork, SmtpReply, Report, Lookup, RefuseRcpt, StoreRcpt, Ack, Deny,
              EndOfLoop, Clear, InLoop
<1> QED
  BY <1>1, <1>2, <1>3 DEF SmtpNext

LEMMA SmtpStepInv ==
  ASSUME IntakeInv, SmtpStep
  PROVE  IntakeInv'
<1>1. SmtpNext /\ UNCHANGED httpVars
  BY DEF SmtpStep
<1>2. SmtpInv' /\ HttpInv'
  BY <1>1, SmtpNextInv, HttpSame DEF IntakeInv
<1>3. /\ UNCHANGED suppressions
      /\ stored' = stored \/ StoreRcpt
      /\ state' = "passed" => Lookup
  BY <1>1, SmtpCases
<1>4. \A r \in Requests : answer'[r] = answer[r] /\ Recipient(r)' = Recipient(r)
  BY <1>1 DEF httpVars, Recipient
<1>5. LateInStep /\ SmtpInv
  BY DEF IntakeInv
<1>6. CASE stored' = stored
  <2>1. late' = late
    BY <1>6 DEF SmtpStep
  <2>2. ASSUME state' = "passed" PROVE late'[Session][rcpt'[at'].to] = 0
    <3>1. Lookup
      BY <1>3, <2>2
    <3>2. rcpt[at].to \in Boxes /\ UNCHANGED <<rcpt, at>>
      BY <3>1 DEF Lookup
    <3>3. InLower(rcpt[at].to) \notin suppressions
      BY <3>1 DEF Lookup, Suppressed, Normal, InLower
    <3>4. late[Session][rcpt[at].to] = 0
      BY <1>5, <3>2, <3>3, LateFacts DEF LateInStep
    <3> QED
      BY <2>1, <3>2, <3>4
  <2>3. LateInStep'
    BY <1>3, <1>4, <1>5, <2>1, <2>2 DEF LateInStep, InLower
  <2> QED
    BY <1>2, <1>3, <2>1, <2>3 DEF IntakeInv
<1>7. CASE stored' # stored
  <2>1. StoreRcpt /\ Note(Session, rcpt[at].to)
    BY <1>3, <1>7 DEF SmtpStep
  <2>2. state = "passed" /\ state' = "stored"
    BY <2>1 DEF StoreRcpt
  <2>3. rcpt[at].to \in Boxes /\ late[Session][rcpt[at].to] = 0
    BY <1>5, <2>2, SmtpParts DEF SessionInStep, LateInStep
  <2>4. /\ late' \in [Callers -> [Boxes -> Nat]]
        /\ \A r \in Requests : late'[r] = late[r]
        /\ \A d \in Callers, a \in Boxes :
             late'[d][a] <= 1 /\ (late'[d][a] > 0 => InLower(a) \in suppressions')
    BY <1>3, <2>1, <2>3, LateFacts, NoteInv
  <2>5. LateInStep'
    BY <1>4, <1>5, <2>2, <2>4 DEF LateInStep, InLower
  <2> QED
    BY <1>2, <1>3, <2>4, <2>5 DEF IntakeInv
<1> QED
  BY <1>6, <1>7

LEMMA ListingTyped ==
  /\ \A a \in Addresses : Folded(a) \in Addresses
  /\ \A r \in Requests : \A k \in DOMAIN To[r] : To[r][k] \in Addresses /\ To[r][k].box \in Boxes
<1>1. \A a \in Addresses : Folded(a) \in Addresses
  BY DEF Addresses, Folded, Spellings
<1>2. ASSUME NEW r \in Requests, NEW k \in DOMAIN To[r] PROVE To[r][k] \in Addresses
  BY ApiAssumption
<1>3. \A a \in Addresses : a.box \in Boxes
  BY DEF Addresses
<1> QED
  BY <1>1, <1>2, <1>3

LEMMA HttpCases ==
  ASSUME HttpInv, HttpNext, suppressions \subseteq Addresses
  PROVE  /\ HttpInv'
         /\ suppressions \subseteq suppressions' /\ suppressions' \subseteq Addresses
         /\ copies' = copies \/ (\E r \in Requests : Store(r) /\ UNCHANGED suppressions)
         /\ \A r \in Requests : answer'[r] = "checked" =>
              Check(r) \/ (answer[r] = "checked" /\ place'[r] = place[r])
<1>1. HttpTypeOK
  BY DEF HttpInv
<1>2. CASE \E k \in Keys : CreateKey(k)
  <2>1. PICK k \in Keys : CreateKey(k)
    BY <1>2
  <2>2. \A q \in Requests : tries[q] >= tries[q]
    BY <1>1, HttpParts
  <2>3. HttpInv'
    BY <1>1, <2>1, <2>2, NothingStored DEF CreateKey, HttpTypeOK
  <2> QED
    BY <2>1, <2>3 DEF CreateKey
<1>3. ASSUME NEW r \in Requests, Send(r) \/ Check(r) \/ Refuse(r) \/ Store(r) \/ Abandon(r)
      PROVE  /\ HttpInv' /\ UNCHANGED suppressions
             /\ copies' = copies \/ Store(r)
             /\ \A q \in Requests : answer'[q] = "checked" =>
                  Check(q) \/ (answer[q] = "checked" /\ place'[q] = place[q])
  <2>1. HttpInv'
    BY <1>3, SendInv, CheckInv, EndInv, StoreInv DEF Refuse, Abandon
  <2>2. UNCHANGED suppressions /\ (copies' = copies \/ Store(r))
    BY <1>3 DEF Send, Check, Refuse, Store, Abandon
  <2>3. \A q \in Requests : q # r => answer'[q] = answer[q] /\ place'[q] = place[q]
    BY <1>1, <1>3 DEF HttpTypeOK, Send, Check, Refuse, Store, Abandon, End
  <2>4. answer'[r] = "checked" => Check(r)
    BY <1>1, <1>3 DEF HttpTypeOK, Send, Refuse, Store, Abandon, End
  <2> QED
    BY <2>1, <2>2, <2>3, <2>4
<1>4. ASSUME NEW a \in Addresses, Insert(a), UNCHANGED httpVars
      PROVE  /\ HttpInv'
             /\ suppressions \subseteq suppressions' /\ suppressions' \subseteq Addresses
             /\ UNCHANGED <<answer, place, copies>>
  BY <1>4, HttpSame DEF Insert, httpVars
<1>5. CASE \E a \in Listed : AddSuppression(a)
  <2>1. \E a \in Addresses : Insert(a) /\ UNCHANGED httpVars
    BY <1>5, ListingTyped, ApiAssumption DEF AddSuppression
  <2> QED
    BY <1>4, <2>1
<1>6. CASE \E r \in Requests : \E k \in DOMAIN To[r] : Unsubscribe(r, k)
  <2>1. \E a \in Addresses : Insert(a) /\ UNCHANGED httpVars
    BY <1>6, ListingTyped DEF Unsubscribe
  <2> QED
    BY <1>4, <2>1
<1> QED
  BY <1>2, <1>3, <1>5, <1>6 DEF HttpNext, HttpWork

LEMMA HttpStepInv ==
  ASSUME IntakeInv, HttpStep
  PROVE  IntakeInv'
<1>1. HttpNext /\ UNCHANGED smtpVars
  BY DEF HttpStep
<1>2. HttpInv /\ suppressions \subseteq Addresses /\ LateInStep
  BY DEF IntakeInv
<1>3. /\ HttpInv'
      /\ suppressions \subseteq suppressions' /\ suppressions' \subseteq Addresses
      /\ copies' = copies \/ (\E r \in Requests : Store(r) /\ UNCHANGED suppressions)
      /\ \A r \in Requests : answer'[r] = "checked" =>
           Check(r) \/ (answer[r] = "checked" /\ place'[r] = place[r])
  BY <1>1, <1>2, HttpCases
<1>4. SmtpInv' /\ UNCHANGED <<state, rcpt, at>>
  BY <1>1, SmtpSame DEF IntakeInv, smtpVars
<1>5. CASE copies' = copies
  <2>1. late' = late
    BY <1>5 DEF HttpStep
  <2>2. ASSUME NEW r \in Requests, answer'[r] = "checked"
        PROVE  late'[r][Recipient(r)'.box] = 0
    <3>1. CASE answer[r] = "checked" /\ place'[r] = place[r]
      BY <1>2, <2>1, <3>1 DEF LateInStep, Recipient
    <3>2. CASE Check(r)
      <4>1. Recipient(r)' = Recipient(r) /\ answer[r] = "loop"
        BY <3>2 DEF Check, Recipient
      <4>2. Recipient(r) \in Addresses /\ Recipient(r).box \in Boxes
        BY <1>2, <4>1, ListingTyped DEF HttpInv, HttpTypeOK, Recipient, Open
      <4>3. InLower(Recipient(r).box) \notin suppressions
        <5>1. Normal(Recipient(r)) = InLower(Recipient(r).box)
          BY <4>2 DEF Normal, InLower, Addresses
        <5> QED
          BY <3>2, <5>1 DEF Check, Suppressed
      <4>4. late[r][Recipient(r).box] = 0
        BY <1>2, <4>2, <4>3, LateFacts DEF LateInStep
      <4> QED
        BY <2>1, <4>1, <4>4
    <3> QED
      BY <1>3, <2>2, <3>1, <3>2
  <2>3. LateInStep'
    BY <1>2, <1>3, <1>4, <2>1, <2>2 DEF LateInStep, InLower
  <2> QED
    BY <1>3, <1>4, <2>1, <2>3 DEF IntakeInv
<1>6. CASE copies' # copies
  <2>1. PICK r \in Requests : Store(r) /\ UNCHANGED suppressions
    BY <1>3, <1>6
  <2>2. PICK q \in Requests : copies'[q] # copies[q] /\ Note(q, Recipient(q).box)
    BY <1>6 DEF HttpStep
  <2>3. q = r
    BY <1>2, <2>1, <2>2 DEF Store, HttpInv, HttpTypeOK
  <2>4. answer[r] = "checked" /\ answer'[r] # "checked"
    BY <1>2, <2>1 DEF Store, End, HttpInv, HttpTypeOK
  <2>5. Recipient(r).box \in Boxes /\ late[r][Recipient(r).box] = 0
    BY <1>2, <2>4, ListingTyped DEF HttpInv, HttpTypeOK, Recipient, Open, LateInStep
  <2>6. /\ late' \in [Callers -> [Boxes -> Nat]]
        /\ \A d \in Callers : d # r => late'[d] = late[d]
        /\ \A d \in Callers, a \in Boxes :
             late'[d][a] <= 1 /\ (late'[d][a] > 0 => InLower(a) \in suppressions')
    BY <2>1, <2>2, <2>3, <2>5, LateFacts, NoteInv
  <2>7. ASSUME NEW s \in Requests, answer'[s] = "checked"
        PROVE  late'[s][Recipient(s)'.box] = 0
    <3>1. s # r /\ late'[s] = late[s]
      BY <2>4, <2>6, <2>7, LateFacts
    <3>2. answer[s] = "checked" /\ place'[s] = place[s]
      BY <1>2, <2>1, <2>7, <3>1 DEF Store, End, HttpInv, HttpTypeOK
    <3> QED
      BY <1>2, <3>1, <3>2 DEF LateInStep, Recipient
  <2>8. LateInStep'
    <3>1. late'[Session] = late[Session]
      BY <2>6, LateFacts
    <3> QED
      BY <1>2, <1>4, <2>6, <2>7, <3>1 DEF LateInStep, InLower
  <2> QED
    BY <1>3, <1>4, <2>6, <2>8 DEF IntakeInv
<1> QED
  BY <1>5, <1>6

LEMMA RestartInv ==
  ASSUME IntakeInv, Restart
  PROVE  IntakeInv'
<1>1. SmtpInv /\ HttpInv /\ HttpTypeOK /\ LateInStep
  BY DEF IntakeInv, HttpInv
<1>2. SmtpInv'
  BY <1>1, CloseInv DEF Restart
<1>3. /\ UNCHANGED <<keys, copies, tries, suppressions, late>>
      /\ answer' \in [Requests -> Answers] /\ place' \in [Requests -> Nat]
      /\ \A r \in Requests : place'[r] = 0
      /\ \A r \in Requests : answer[r] \in Open => answer'[r] = "gone"
      /\ \A r \in Requests : answer[r] \notin Open => answer'[r] = answer[r] /\ place[r] = 0
  BY <1>1 DEF Restart, HttpTypeOK, Answers
<1>4. \A q \in Requests : tries[q] >= tries[q]
  BY <1>1, HttpParts
<1>5. HttpInv'
  BY <1>1, <1>3, <1>4, NothingStored DEF HttpTypeOK, Open
<1>6. state' = "closed"
  BY DEF Restart, Close
<1>7. \A r \in Requests : answer'[r] # "checked"
  BY <1>3 DEF Open
<1>8. LateInStep'
  BY <1>1, <1>3, <1>6, <1>7 DEF LateInStep, InLower
<1> QED
  BY <1>2, <1>3, <1>5, <1>8 DEF IntakeInv

LEMMA NextInv == IntakeInv /\ [Next]_vars => IntakeInv'
<1> SUFFICES ASSUME IntakeInv, [Next]_vars PROVE IntakeInv'
  OBVIOUS
<1>1. CASE UNCHANGED vars
  <2>1. SmtpInv' /\ HttpInv'
    BY <1>1, SmtpSame, HttpSame DEF vars, IntakeInv
  <2> QED
    BY <1>1, <2>1 DEF vars, smtpVars, httpVars, IntakeInv, LateInStep, InLower, Recipient
<1>2. CASE Next
  BY <1>2, SmtpStepInv, HttpStepInv, RestartInv DEF Next
<1> QED
  BY <1>1, <1>2

-----------------------------------------------------------------------------
(* What holds of every instance *)

(***************************************************************************)
(* The invariant of the session, the requests and the list they share, for *)
(* any mailboxes, requests, recipients and tries.                          *)
(***************************************************************************)
THEOREM IntakeInvariant == Spec => []IntakeInv
  BY InitInv, NextInv, PTL DEF Spec

(***************************************************************************)
(* Every variable keeps its type; no loop leaves its list.                 *)
(***************************************************************************)
THEOREM TypeCorrect == Spec => []TypeOK
<1>1. IntakeInv => TypeOK
  BY DEF IntakeInv, SmtpInv, HttpInv, TypeOK
<1> QED
  BY <1>1, IntakeInvariant, PTL

(***************************************************************************)
(* Nothing that a client gave before RSET, the end of a DATA or in another *)
(* connection gets into a message, whatever clients send; recipients that  *)
(* it named before a second MAIL FROM or EHLO do.                          *)
(***************************************************************************)
THEOREM ResetForgets == Spec => []NothingOutlivesReset
<1>1. IntakeInv => NothingOutlivesReset
  BY DEF IntakeInv, SmtpInv
<1> QED
  BY <1>1, IntakeInvariant, PTL

(***************************************************************************)
(* "250 queued" is never untrue, and a session stores at most one message  *)
(* of a mail that it has not acknowledged.                                 *)
(***************************************************************************)
THEOREM AcksAreTrue == Spec => []AcksFollowStores
<1>1. IntakeInv => AcksFollowStores
  BY DEF IntakeInv, SmtpInv
<1> QED
  BY <1>1, IntakeInvariant, PTL

(***************************************************************************)
(* One mailbox, one reply: in a session whose mails have one mailbox each, *)
(* whatever else the client does.                                          *)
(***************************************************************************)
THEOREM OneReplyEach == Spec => []RepliesInStep
<1>1. IntakeInv => RepliesInStep
  BY DEF IntakeInv, SmtpInv
<1> QED
  BY <1>1, IntakeInvariant, PTL

(***************************************************************************)
(* A request that is repeated after errors gives a recipient as many       *)
(* copies as tries at most, and those named first the most.                *)
(***************************************************************************)
THEOREM CopiesBounded == Spec => []CopiesFollowTries
<1>1. IntakeInv => CopiesFollowTries
  BY DEF IntakeInv, HttpInv
<1> QED
  BY <1>1, IntakeInvariant, PTL

(***************************************************************************)
(* No caller stores more than one message for a mailbox after it is        *)
(* suppressed, however often its list names it.                            *)
(***************************************************************************)
THEOREM LateOnce == Spec => []AtMostOneLate
<1>1. IntakeInv => AtMostOneLate
  BY DEF IntakeInv, LateInStep, AtMostOneLate
<1> QED
  BY <1>1, IntakeInvariant, PTL

-----------------------------------------------------------------------------
(* The handlers run down *)

SessionSlows == SessionLeft' < SessionLeft \/ UNCHANGED <<state, rcpt, at, stored>>

RequestSlows(r) ==
  RequestLeft(r)' < RequestLeft(r) \/ UNCHANGED <<answer[r], place[r], copies[r]>>

\* A session that stores a mail has at least a step left; one that does not,
\* none.
LEMMA SessionHasWork ==
  ASSUME SmtpInv
  PROVE  /\ state \in AtMessage => /\ Len(rcpt) \in Nat /\ at \in Nat
                                   /\ at <= Len(rcpt) + 1
                                   /\ state # "loop" => at <= Len(rcpt)
         /\ state \notin AtMessage => SessionLeft = 0
<1>1. Len(rcpt) \in Nat /\ at \in Nat /\ SessionInStep
  BY SmtpParts
<1> QED
  BY <1>1 DEF SessionInStep, SessionLeft, AtMessage

LEMMA SessionSlowsDown ==
  ASSUME SmtpInv, SmtpNext, SessionLeft > 0
  PROVE  SessionSlows
<1>1. /\ state \in AtMessage
      /\ Len(rcpt) \in Nat /\ at \in Nat
      /\ at <= Len(rcpt) + 1 /\ (state # "loop" => at <= Len(rcpt))
  BY SessionHasWork
<1>2. SmtpWork \/ SmtpReply \/ Hangup
  <2>1. state \notin {"closed", "command", "data"}
    BY <1>1 DEF AtMessage
  <2> QED
    BY <2>1 DEF SmtpNext, Connect, Ehlo, MailFrom, Reset, Data, Dot, RcptTo
<1>3. CASE Hangup \/ EndOfLoop
  <2>1. state' \in {"closed", "command"}
    BY <1>3 DEF Hangup, EndOfLoop, Close, Clear
  <2>2. SessionLeft' = 0
    BY <2>1 DEF SessionLeft
  <2>3. SessionLeft > 0
    OBVIOUS
  <2> QED
    BY <2>2, <2>3 DEF SessionSlows
<1>4. CASE Report \/ Lookup \/ RefuseRcpt \/ StoreRcpt \/ SmtpReply
  <2>1. /\ rcpt' = rcpt
        /\ \/ state = "loop" /\ at <= Len(rcpt) /\ state' = "loop" /\ at' = at + 1
           \/ state = "loop" /\ at <= Len(rcpt) /\ state' = "passed" /\ at' = at
           \/ state = "loop" /\ at <= Len(rcpt) /\ state' = "refused" /\ at' = at
           \/ state = "passed" /\ state' \in {"stored", "refused"} /\ at' = at
           \/ state \in {"stored", "refused"} /\ state' = "loop" /\ at' = at + 1
    BY <1>4 DEF Report, Lookup, RefuseRcpt, StoreRcpt, SmtpReply, Ack, Deny, InLoop
  <2>2. Len(rcpt') = Len(rcpt)
    BY <2>1
  <2>3. SessionLeft' < SessionLeft
    BY <1>1, <2>1, <2>2 DEF SessionLeft
  <2> QED
    BY <2>3 DEF SessionSlows
<1> QED
  BY <1>2, <1>3, <1>4 DEF SmtpWork

LEMMA RequestSlowsDown ==
  ASSUME HttpInv, HttpNext, NEW r \in Requests, RequestLeft(r) > 0
  PROVE  RequestSlows(r)
<1>1. HttpTypeOK
  BY DEF HttpInv
<1>2. answer[r] \in Open
  BY DEF RequestLeft, Open
<1>3. Len(To[r]) \in Nat /\ place[r] \in Nat /\ place[r] <= Len(To[r])
  BY <1>1, <1>2, HttpParts DEF HttpTypeOK
<1>4. ASSUME NEW q \in Requests, Send(q) \/ HttpWork(q) \/ Abandon(q)
      PROVE  RequestSlows(r)
  <2>1. CASE q # r
    BY <1>1, <1>4, <2>1 DEF HttpTypeOK, Send, HttpWork, Check, Refuse, Store, Abandon, End,
       RequestSlows
  <2>2. CASE q = r
    <3>1. \/ answer'[r] \notin Open
          \/ answer[r] = "loop" /\ answer'[r] = "checked" /\ place'[r] = place[r]
          \/ answer[r] = "checked" /\ answer'[r] = "loop" /\ place'[r] = place[r] + 1
      BY <1>1, <1>2, <1>4, <2>2 DEF HttpTypeOK, Send, HttpWork, Check, Refuse, Store, Abandon,
         End, Open
    <3>2. RequestLeft(r)' < RequestLeft(r)
      <4>1. CASE answer'[r] \notin Open
        <5>1. RequestLeft(r)' = 0
          BY <4>1 DEF RequestLeft, Open
        <5>2. RequestLeft(r) > 0
          OBVIOUS
        <5> QED
          BY <5>1, <5>2
      <4>2. CASE answer'[r] \in Open
        BY <1>3, <3>1, <4>2 DEF RequestLeft
      <4> QED
        BY <4>1, <4>2
    <3> QED
      BY <3>2 DEF RequestSlows
  <2> QED
    BY <2>1, <2>2
<1>5. ASSUME UNCHANGED <<answer, place, copies>>
      PROVE  RequestSlows(r)
  BY <1>5 DEF RequestSlows
<1> QED
  BY <1>4, <1>5 DEF HttpNext, CreateKey, AddSuppression, Unsubscribe, httpVars

LEMMA NextSlowsDown ==
  ASSUME IntakeInv, Next
  PROVE  /\ SessionLeft > 0 => SessionSlows
         /\ \A r \in Requests : RequestLeft(r) > 0 => RequestSlows(r)
<1>1. SmtpInv /\ HttpInv
  BY DEF IntakeInv
<1>2. CASE SmtpStep
  <2>1. SmtpNext /\ UNCHANGED httpVars
    BY <1>2 DEF SmtpStep
  <2> QED
    BY <1>1, <2>1, SessionSlowsDown DEF RequestSlows, httpVars
<1>3. CASE HttpStep
  <2>1. HttpNext /\ UNCHANGED smtpVars
    BY <1>3 DEF HttpStep
  <2> QED
    BY <1>1, <2>1, RequestSlowsDown DEF SessionSlows, smtpVars
<1>4. CASE Restart
  <2>1. state' = "closed"
    BY <1>4 DEF Restart, Close
  <2>2. SessionLeft' = 0
    BY <2>1 DEF SessionLeft
  <2>3. \A r \in Requests : answer'[r] # "loop" /\ answer'[r] # "checked"
    BY <1>4 DEF Restart, Open
  <2>4. \A r \in Requests : RequestLeft(r)' = 0
    BY <2>3 DEF RequestLeft
  <2> QED
    BY <2>2, <2>4 DEF SessionSlows, RequestSlows
<1> QED
  BY <1>2, <1>3, <1>4 DEF Next

(***************************************************************************)
(* A mail of n recipients is stored in at most 3 * n + 1 steps and a       *)
(* request of n served in 2 * n, whatever the other handlers, the clients  *)
(* and the tables do meanwhile.                                            *)
(***************************************************************************)
THEOREM HandlersEnd == Spec => HandlersRunDown
<1>1. IntakeInv /\ [Next]_vars =>
        [/\ SessionLeft > 0 =>
              SessionLeft' < SessionLeft \/ UNCHANGED <<state, rcpt, at, stored>>
         /\ \A r \in Requests : RequestLeft(r) > 0 =>
              RequestLeft(r)' < RequestLeft(r) \/ UNCHANGED <<answer[r], place[r], copies[r]>>]_vars
  BY NextSlowsDown DEF SessionSlows, RequestSlows
<1> QED
  BY <1>1, IntakeInvariant, PTL DEF Spec, HandlersRunDown

-----------------------------------------------------------------------------
(***************************************************************************)
(* The callers keep the contract of enqueue_raw: every statement is a step *)
(* of IntakeContract or none.                                              *)
(***************************************************************************)
Hands == [c \in Callers |-> InHand(c)]
Rows == SessionRows \cup (UNION {RowsOf(r) : r \in Requests})
List == {b \in Boxes : InLower(b) \in suppressions}

\* A row of a request is one of its copies.
LEMMA RowFacts ==
  ASSUME NEW e
  PROVE  /\ e \in SessionRows <=> \E m \in stored :
              e = [by |-> Session, to |-> m.to.to, id |-> <<m.turn, m.at>>]
         /\ \A r : e \in RowsOf(r) <=> \E k \in DOMAIN To[r] : \E n \in 1 .. copies[r][k] :
              e = [by |-> r, to |-> To[r][k].box, id |-> <<k, n>>]
  BY DEF SessionRows, RowsOf

\* Hands that are emptied or stay as they are: a drop, or nothing at all.
LEMMA HandsEmptied ==
  ASSUME UNCHANGED <<stored, copies>>, List' = List,
         \A c \in Callers : InHand(c)' = {} \/ InHand(c)' = InHand(c)
  PROVE  [IC!ContractNext]_(IC!cvars)
<1> DEFINE S == {c \in Callers : InHand(c)' = {}}
<1>1. S \in SUBSET Callers
  OBVIOUS
<1>2. Hands' = [c \in Callers |-> IF c \in S THEN {} ELSE Hands[c]]
  BY DEF Hands
<1>3. Rows' = Rows
  BY DEF Rows, SessionRows, RowsOf
<1> HIDE DEF S
<1>4. IC!Drop
  BY <1>1, <1>2, <1>3 DEF IC!Drop, Hands, Rows, List
<1> QED
  BY <1>4 DEF IC!ContractNext

\* One caller's hand is filled by a look-up that finds nothing.
LEMMA HandFilled ==
  ASSUME UNCHANGED <<stored, copies, suppressions>>, NEW c \in Callers, NEW b \in Boxes,
         InHand(c) = {}, InHand(c)' = {b}, InLower(b) \notin suppressions,
         \A d \in Callers : d # c => InHand(d)' = InHand(d)
  PROVE  [IC!ContractNext]_(IC!cvars)
<1>1. Hands' = [Hands EXCEPT ![c] = {b}] /\ Hands[c] = {}
  BY DEF Hands
<1>2. Rows' = Rows /\ List' = List /\ b \notin List
  BY DEF Rows, SessionRows, RowsOf, List, InLower
<1>3. IC!LookUp(c, b)
  BY <1>1, <1>2 DEF IC!LookUp, Hands, Rows, List
<1> QED
  BY <1>3 DEF IC!ContractNext

\* One caller stores what it has in hand.
LEMMA HandStored ==
  ASSUME UNCHANGED suppressions, NEW c \in Callers, NEW b \in Boxes, NEW id \in RowIds,
         InHand(c) = {b}, InHand(c)' = {},
         \A d \in Callers : d # c => InHand(d)' = InHand(d),
         [by |-> c, to |-> b, id |-> id] \notin Rows,
         Rows' = Rows \cup {[by |-> c, to |-> b, id |-> id]}
  PROVE  [IC!ContractNext]_(IC!cvars)
<1>1. Hands' = [Hands EXCEPT ![c] = {}] /\ Hands[c] = {b}
  BY DEF Hands
<1>2. List' = List
  BY DEF List, InLower
<1>3. IC!Enter(c, b, id)
  BY <1>1, <1>2 DEF IC!Enter, IC!Entry, Hands, Rows, List
<1> QED
  BY <1>3 DEF IC!ContractNext

\* What a caller has in hand is seen from its own variables only.
LEMMA OthersHands ==
  /\ UNCHANGED httpVars => \A r \in Requests : InHand(r)' = InHand(r)
  /\ UNCHANGED smtpVars => InHand(Session)' = InHand(Session)
  /\ \A r \in Requests : answer'[r] = answer[r] /\ place'[r] = place[r]
                           => InHand(r)' = InHand(r)
  /\ \A c \in Callers : c = Session \/ c \in Requests
  /\ Session \in Callers /\ \A r \in Requests : r \in Callers /\ r # Session
  BY CallerAssumption DEF Callers, InHand, Recipient, httpVars, smtpVars

\* The session looks up, stores, or lets go of what it has looked up.
LEMMA SmtpStepKeeps ==
  ASSUME IntakeInv, SmtpStep
  PROVE  [IC!ContractNext]_(IC!cvars)
<1>1. SmtpInv /\ SmtpNext /\ UNCHANGED <<httpVars, suppressions>>
  BY SmtpCases DEF IntakeInv, SmtpStep
<1>2. \A r \in Requests : InHand(r)' = InHand(r)
  BY <1>1, OthersHands
<1>3. List' = List /\ copies' = copies
  BY <1>1 DEF List, InLower, httpVars
<1>4. CASE Lookup
  <2>1. /\ state = "loop" /\ state' = "passed" /\ UNCHANGED <<rcpt, at, stored>>
        /\ rcpt[at].to \in Boxes /\ ~Suppressed([box |-> rcpt[at].to, form |-> "lower"])
    BY <1>4 DEF Lookup, InLoop
  <2>2. InHand(Session) = {} /\ InHand(Session)' = {rcpt[at].to}
    BY <2>1 DEF InHand
  <2>3. InLower(rcpt[at].to) \notin suppressions
    BY <2>1 DEF Suppressed, Normal, InLower
  <2> QED
    BY <1>1, <1>2, <1>3, <2>1, <2>2, <2>3, OthersHands, HandFilled
<1>5. CASE StoreRcpt
  <2>1. /\ state = "passed" /\ state' = "stored" /\ UNCHANGED <<rcpt, at, turn>>
        /\ stored' = stored \cup {ThisMessage}
    BY <1>5 DEF StoreRcpt
  <2>2. /\ rcpt[at].to \in Boxes /\ turn \in Turns /\ at \in 1 .. MaxRcpts
        /\ \A m \in stored : ~(m.turn = turn /\ m.at = at)
    <3>1. /\ SessionInStep /\ StoredInStep
          /\ Len(rcpt) <= MaxRcpts /\ Len(rcpt) \in Nat /\ at \in Nat /\ MaxRcpts \in Nat
      BY <1>1, SmtpParts DEF SmtpInv
    <3>2. \A m \in stored : m.turn = turn => m.at < at
      BY <2>1, <3>1 DEF StoredInStep
    <3> QED
      BY <2>1, <3>1, <3>2 DEF SessionInStep, AtMessage
  <2> DEFINE id == <<turn, at>>
             e == [by |-> Session, to |-> rcpt[at].to, id |-> id]
  <2>3. id \in RowIds
    BY <2>2 DEF RowIds
  <2>4. ThisMessage.to.to = rcpt[at].to /\ ThisMessage.turn = turn /\ ThisMessage.at = at
    BY DEF ThisMessage
  <2>5. SessionRows' = SessionRows \cup {e}
    BY <2>1, <2>4 DEF SessionRows
  <2>6. \A r \in Requests : RowsOf(r)' = RowsOf(r)
    BY <1>3 DEF RowsOf
  <2>7. Rows' = Rows \cup {e}
    BY <2>5, <2>6 DEF Rows
  <2>8. e \notin Rows
    <3>1. e \notin SessionRows
      BY <2>2, RowFacts
    <3>2. \A r \in Requests : e \notin RowsOf(r)
      BY RowFacts, OthersHands
    <3> QED
      BY <3>1, <3>2 DEF Rows
  <2>9. InHand(Session) = {rcpt[at].to} /\ InHand(Session)' = {}
    BY <2>1 DEF InHand
  <2> HIDE DEF id
  <2> QED
    BY <1>1, <1>2, <2>2, <2>3, <2>7, <2>8, <2>9, OthersHands, HandStored
<1>6. CASE ~Lookup /\ ~StoreRcpt
  <2>1. stored' = stored /\ state' # "passed"
    BY <1>1, <1>6, SmtpCases
  <2>2. InHand(Session)' = {}
    BY <2>1 DEF InHand
  <2> QED
    BY <1>2, <1>3, <2>1, <2>2, OthersHands, HandsEmptied
<1> QED
  BY <1>4, <1>5, <1>6

\* An INSERT of send_message adds the next copy for the recipient at hand.
LEMMA StoreKeeps ==
  ASSUME IntakeInv, NEW r \in Requests, Store(r), HttpInv', UNCHANGED <<smtpVars, suppressions>>
  PROVE  [IC!ContractNext]_(IC!cvars)
<1> DEFINE k == place[r]
           n == copies[r][k] + 1
           b == To[r][k].box
           id == <<k, n>>
           e == [by |-> r, to |-> b, id |-> id]
<1>1. HttpTypeOK /\ HttpTypeOK' /\ answer[r] = "checked"
  BY DEF IntakeInv, HttpInv, Store
<1>2. /\ k \in DOMAIN To[r] /\ b \in Boxes
      /\ copies[r][k] \in Nat /\ n \in 1 .. copies[r][k] + 1
  BY <1>1, HttpParts, ListingTyped DEF HttpTypeOK, Open
<1>3. /\ copies'[r][k] = n /\ DOMAIN copies'[r] = DOMAIN copies[r]
      /\ \A j \in DOMAIN To[r] : j # k => copies'[r][j] = copies[r][j]
      /\ \A q \in Requests : q # r => copies'[q] = copies[q]
  <2>1. copies' = [copies EXCEPT ![r] = [copies[r] EXCEPT ![k] = n]]
    BY DEF Store
  <2>2. copies[r] \in [DOMAIN To[r] -> Nat] /\ DOMAIN copies = Requests
    BY <1>1, HttpParts DEF HttpTypeOK
  <2> HIDE DEF k, n
  <2> QED
    BY <1>2, <2>1, <2>2
<1>4. n \in 1 .. MaxTries
  <2>1. copies'[r][k] \in 0 .. MaxTries /\ MaxTries \in Nat
    BY <1>1, <1>2, ApiAssumption DEF HttpTypeOK
  <2> HIDE DEF k, n
  <2> QED
    BY <1>2, <1>3, <2>1
<1>5. id \in RowIds
  BY <1>2, <1>4 DEF RowIds, Places
<1>6. RowsOf(r)' = RowsOf(r) \cup {e}
  <2>1. ASSUME NEW x \in RowsOf(r)' PROVE x \in RowsOf(r) \cup {e}
    <3>0. PICK j \in DOMAIN To[r] : \E i \in 1 .. copies'[r][j] :
            x = [by |-> r, to |-> To[r][j].box, id |-> <<j, i>>]
      BY <2>1 DEF RowsOf
    <3>1. PICK i \in 1 .. copies'[r][j] :
            x = [by |-> r, to |-> To[r][j].box, id |-> <<j, i>>]
      BY <3>0
    <3>2. CASE j = k
      <4>1. i \in 1 .. copies[r][k] \/ i = n
        BY <1>2, <1>3, <3>1, <3>2
      <4> QED
        BY <1>2, <3>1, <3>2, <4>1, RowFacts
    <3>3. CASE j # k
      BY <1>3, <3>1, <3>3, RowFacts
    <3> QED
      BY <3>2, <3>3
  <2>2. ASSUME NEW x \in RowsOf(r) PROVE x \in RowsOf(r)'
    <3>0. PICK j \in DOMAIN To[r] : \E i \in 1 .. copies[r][j] :
            x = [by |-> r, to |-> To[r][j].box, id |-> <<j, i>>]
      BY <2>2, RowFacts
    <3>1. PICK i \in 1 .. copies[r][j] :
            x = [by |-> r, to |-> To[r][j].box, id |-> <<j, i>>]
      BY <3>0
    <3>2. i \in 1 .. copies'[r][j]
      BY <1>2, <1>3, <3>1
    <3> QED
      BY <3>1, <3>2 DEF RowsOf
  <2>3. e \in RowsOf(r)'
    <3>1. n \in 1 .. copies'[r][k]
      BY <1>2, <1>3
    <3> QED
      BY <1>2, <3>1 DEF RowsOf
  <2> QED
    BY <2>1, <2>2, <2>3
<1>7. /\ \A q \in Requests : q # r => RowsOf(q)' = RowsOf(q)
      /\ SessionRows' = SessionRows
  BY <1>3 DEF RowsOf, SessionRows, smtpVars
<1> HIDE DEF e
<1>8. Rows' = Rows \cup {e}
  BY <1>6, <1>7 DEF Rows
<1>9. e \notin Rows
  <2>1. e \notin SessionRows
    BY RowFacts, OthersHands DEF e
  <2>2. \A q \in Requests : q # r => e \notin RowsOf(q)
    BY RowFacts DEF e
  <2>3. e \notin RowsOf(r)
    BY <1>2, RowFacts DEF e
  <2> QED
    BY <2>1, <2>2, <2>3 DEF Rows
<1>10. InHand(r) = {b} /\ InHand(r)' = {}
  <2>1. answer'[r] \in {"loop", "ok"}
    BY <1>1 DEF Store, End, HttpTypeOK
  <2> QED
    BY <1>1, <2>1, OthersHands DEF InHand, Recipient
<1>11. \A c \in Callers : c # r => InHand(c)' = InHand(c)
  <2>1. \A q \in Requests : q # r => answer'[q] = answer[q] /\ place'[q] = place[q]
    BY <1>1 DEF Store, End, HttpTypeOK
  <2> QED
    BY <2>1, OthersHands
<1> HIDE DEF b, id
<1> QED
  BY <1>2, <1>5, <1>8, <1>9, <1>10, <1>11, OthersHands, HandStored DEF e

\* A request looks up, stores or ends; the list takes a spelling that the
\* look-up finds, or one that it does not.
LEMMA HttpStepKeeps ==
  ASSUME IntakeInv, HttpStep
  PROVE  [IC!ContractNext]_(IC!cvars)
<1>1. HttpNext /\ UNCHANGED smtpVars /\ HttpInv /\ HttpTypeOK /\ suppressions \subseteq Addresses
  BY DEF HttpStep, IntakeInv, HttpInv
<1>2. InHand(Session)' = InHand(Session) /\ stored' = stored
  BY <1>1, OthersHands DEF smtpVars
<1>3. ASSUME NEW r \in Requests, Send(r) \/ Refuse(r) \/ Abandon(r)
      PROVE  [IC!ContractNext]_(IC!cvars)
  <2>1. /\ UNCHANGED <<copies, suppressions>>
        /\ answer'[r] # "checked"
        /\ \A q \in Requests : q # r => answer'[q] = answer[q] /\ place'[q] = place[q]
    BY <1>1, <1>3 DEF Send, Refuse, Abandon, End, HttpTypeOK
  <2>2. InHand(r)' = {} /\ List' = List
    BY <2>1, OthersHands DEF InHand, List, InLower
  <2> QED
    BY <1>2, <2>1, <2>2, OthersHands, HandsEmptied
<1>4. ASSUME NEW r \in Requests, Check(r)
      PROVE  [IC!ContractNext]_(IC!cvars)
  <2>1. /\ UNCHANGED <<copies, suppressions, place>>
        /\ answer[r] = "loop" /\ answer'[r] = "checked"
        /\ \A q \in Requests : q # r => answer'[q] = answer[q]
    BY <1>1, <1>4 DEF Check, HttpTypeOK
  <2>2. Recipient(r) \in Addresses /\ Recipient(r).box \in Boxes
    BY <1>1, <2>1, ListingTyped DEF HttpTypeOK, Recipient, Open
  <2>3. InHand(r) = {} /\ InHand(r)' = {Recipient(r).box}
    BY <2>1, OthersHands DEF InHand, Recipient
  <2>4. InLower(Recipient(r).box) \notin suppressions
    <3>1. Normal(Recipient(r)) = InLower(Recipient(r).box)
      BY <2>2 DEF Normal, InLower, Addresses
    <3> QED
      BY <1>4, <3>1 DEF Check, Suppressed
  <2>5. \A c \in Callers : c # r => InHand(c)' = InHand(c)
    BY <1>2, <2>1, OthersHands
  <2> QED
    BY <1>2, <2>1, <2>2, <2>3, <2>4, <2>5, OthersHands, HandFilled
<1>5. ASSUME NEW r \in Requests, Store(r)
      PROVE  [IC!ContractNext]_(IC!cvars)
  <2>1. HttpInv' /\ UNCHANGED suppressions
    BY <1>1, <1>5, StoreInv DEF Store
  <2> QED
    BY <1>1, <1>5, <2>1, StoreKeeps
<1>6. ASSUME NEW a \in Addresses, Insert(a), UNCHANGED httpVars
      PROVE  [IC!ContractNext]_(IC!cvars)
  <2>1. suppressions' = suppressions \cup {a} /\ copies' = copies
    BY <1>6 DEF Insert, httpVars
  <2>2. \A c \in Callers : InHand(c)' = InHand(c)
    BY <1>2, <1>6, OthersHands
  <2>3. a.box \in Boxes /\ a.form \in Spellings /\ a = [box |-> a.box, form |-> a.form]
    BY DEF Addresses
  <2>4. CASE a.form = "lower"
    <3>1. List' = List \cup {a.box}
      BY <2>1, <2>3, <2>4 DEF List, InLower
    <3>2. Hands' = Hands /\ Rows' = Rows
      BY <1>2, <2>1, <2>2 DEF Hands, Rows, SessionRows, RowsOf
    <3>3. IC!Suppress(a.box)
      BY <3>1, <3>2 DEF IC!Suppress, Hands, Rows, List
    <3> QED
      BY <2>3, <3>3 DEF IC!ContractNext
  <2>5. CASE a.form # "lower"
    <3>1. \A b \in Boxes : InLower(b) # a
      BY <2>5 DEF InLower
    <3>2. List' = List
      BY <2>1, <3>1 DEF List, InLower
    <3> QED
      BY <1>2, <2>1, <2>2, <3>2, HandsEmptied
  <2> QED
    BY <2>4, <2>5
<1>7. CASE \E k \in Keys : CreateKey(k)
  <2>1. UNCHANGED <<answer, place, copies, suppressions>>
    BY <1>7 DEF CreateKey
  <2>2. List' = List
    BY <2>1 DEF List, InLower
  <2> QED
    BY <1>2, <2>1, <2>2, OthersHands, HandsEmptied
<1>8. CASE \E a \in Listed : AddSuppression(a)
  <2>1. \E a \in Addresses : Insert(a) /\ UNCHANGED httpVars
    BY <1>8, ListingTyped, ApiAssumption DEF AddSuppression
  <2> QED
    BY <1>6, <2>1
<1>9. CASE \E r \in Requests : \E k \in DOMAIN To[r] : Unsubscribe(r, k)
  <2>1. \E a \in Addresses : Insert(a) /\ UNCHANGED httpVars
    BY <1>9, ListingTyped DEF Unsubscribe
  <2> QED
    BY <1>6, <2>1
<1> QED
  BY <1>1, <1>3, <1>4, <1>5, <1>7, <1>8, <1>9 DEF HttpNext, HttpWork

LEMMA NextKeeps == IntakeInv /\ [Next]_vars => [IC!ContractNext]_(IC!cvars)
<1> SUFFICES ASSUME IntakeInv, [Next]_vars PROVE [IC!ContractNext]_(IC!cvars)
  OBVIOUS
<1>1. CASE UNCHANGED vars \/ Restart
  <2>1. UNCHANGED <<stored, copies, suppressions>>
    BY <1>1 DEF vars, smtpVars, httpVars, Restart, Close
  <2>2. List' = List
    BY <2>1 DEF List, InLower
  <2>3. \A c \in Callers : InHand(c)' = {} \/ InHand(c)' = InHand(c)
    <3>1. CASE UNCHANGED vars
      BY <3>1, OthersHands DEF vars
    <3>2. CASE Restart
      BY <3>2, OthersHands DEF Restart, Close, InHand, Open
    <3> QED
      BY <1>1, <3>1, <3>2
  <2> QED
    BY <2>1, <2>2, <2>3, HandsEmptied
<1> QED
  BY <1>1, SmtpStepKeeps, HttpStepKeeps DEF Next

(***************************************************************************)
(* The SMTP session and the HTTP requests implement IntakeContract, which  *)
(* MessageQueue implements too: what the queue's model lets its callers do *)
(* covers what they do.                                                    *)
(***************************************************************************)
THEOREM CallersKeepContract == Spec => KeepsIntakeContract
<1>1. Init => IC!ContractInit
  <2> SUFFICES ASSUME Init PROVE IC!ContractInit
    OBVIOUS
  <2>1. \A c \in Callers : InHand(c) = {}
    BY OthersHands DEF Init, SmtpInit, HttpInit, InHand
  <2>2. \A e : e \notin SessionRows
    BY RowFacts DEF Init, SmtpInit
  <2>3. \A r \in Requests : RowsOf(r) = {}
    <3>1. \A r \in Requests : \A k \in DOMAIN To[r] : copies[r][k] = 0
      BY DEF Init, HttpInit
    <3> QED
      BY <3>1 DEF RowsOf
  <2>4. Rows = {} /\ List = {}
    BY <2>2, <2>3 DEF Rows, List, Init
  <2> QED
    BY <2>1, <2>4 DEF IC!ContractInit, Rows, List
<1> QED
  BY <1>1, NextKeeps, IntakeInvariant, PTL DEF Spec, KeepsIntakeContract, IC!Contract
=============================================================================
