------------------------------ MODULE HttpApi ------------------------------
(***************************************************************************)
(* src/src/http.rs, the handlers that change state: send_message with its  *)
(* loop over the recipients, the keys it asks for, manual suppressions and *)
(* the unsubscribe links.  A handler is dropped when its client hangs up,  *)
(* and a client that has no success may send the request again.            *)
(*                                                                         *)
(* An operator named Faulty_X is X with a plausible mistake; no            *)
(* specification uses it.                                                  *)
(***************************************************************************)
EXTENDS SuppressionList

CONSTANTS
  Requests,   \* bodies of POST /v1/messages
  To,         \* [Requests -> Seq(Addresses)], SendReq.to
  Marketing,  \* the requests whose stream is marketing
  Keys,       \* API keys that may be made
  KeyOf,      \* [Requests -> Keys], the key a request presents
  Listed,     \* addresses that clients may suppress
  MaxTries    \* bound: times a client sends a request

ASSUME ApiAssumption ==
  /\ IsFiniteSet(Boxes) /\ IsFiniteSet(Requests)
  /\ DOMAIN To = Requests /\ \A r \in Requests : To[r] \in Seq(Addresses)
  /\ Marketing \subseteq Requests
  /\ KeyOf \in [Requests -> Keys]
  /\ Listed \subseteq Addresses
  /\ MaxTries \in Nat

VARIABLES
  keys,      \* the table api_keys
  answer,    \* of a request: the state of its last try, see Answers
  place,     \* the recipient its loop is at; 0 outside the loop
  copies,    \* [Requests -> Seq(Nat)], messages stored for each recipient
  tries      \* times the request has been sent, at most MaxTries

httpVars == <<keys, answer, place, copies, tries>>

\* In "loop" enqueue_raw is yet to be called for the recipient, in "checked"
\* it has looked it up; "error" is any status but 200, and "gone" a try that
\* was never answered.
Answers == {"none", "loop", "checked", "ok", "error", "gone"}
Open == {"loop", "checked"}

HttpTypeOK ==
  /\ keys \subseteq Keys
  /\ answer \in [Requests -> Answers]
  /\ place \in [Requests -> Nat]
  /\ \A r \in Requests : IF answer[r] \in Open THEN place[r] \in DOMAIN To[r] ELSE place[r] = 0
  /\ DOMAIN copies = Requests
  /\ \A r \in Requests : copies[r] \in [DOMAIN To[r] -> 0 .. MaxTries]
  /\ tries \in [Requests -> 0 .. MaxTries]

HttpInit ==
  /\ keys = {}
  /\ answer = [r \in Requests |-> "none"]
  /\ place = [r \in Requests |-> 0]
  /\ copies = [r \in Requests |-> [k \in DOMAIN To[r] |-> 0]]
  /\ tries = [r \in Requests |-> 0]

\* admin_create_key; there is no way to take a key back.
CreateKey(k) ==
  /\ k \notin keys
  /\ keys' = keys \cup {k}
  /\ UNCHANGED <<answer, place, copies, tries, suppressions>>

\* send_message up to its loop: require_api, and the empty list.
Send(r) ==
  /\ answer[r] \notin Open \cup {"ok"} /\ tries[r] < MaxTries
  /\ tries' = [tries EXCEPT ![r] = @ + 1]
  /\ answer' = [answer EXCEPT ![r] = IF KeyOf[r] \in keys /\ To[r] # <<>>
                                       THEN "loop" ELSE "error"]
  /\ place' = [place EXCEPT ![r] = IF KeyOf[r] \in keys /\ To[r] # <<>> THEN 1 ELSE 0]
  /\ UNCHANGED <<keys, copies, suppressions>>

Recipient(r) == To[r][place[r]]

End(r, how) ==
  /\ answer' = [answer EXCEPT ![r] = how]
  /\ place' = [place EXCEPT ![r] = 0]

\* The address is looked up as it is written.
Faulty_Check(r) ==
  /\ answer[r] = "loop" /\ Recipient(r) \notin suppressions
  /\ answer' = [answer EXCEPT ![r] = "checked"]
  /\ UNCHANGED <<keys, place, copies, tries, suppressions>>

\* enqueue_raw: the recipient is not suppressed.
Check(r) ==
  /\ answer[r] = "loop" /\ ~Suppressed(Recipient(r))
  /\ answer' = [answer EXCEPT ![r] = "checked"]
  /\ UNCHANGED <<keys, place, copies, tries, suppressions>>

\* A recipient that fails is passed over.
Faulty_Refuse(r) ==
  /\ answer[r] \in Open
  /\ IF place[r] < Len(To[r])
       THEN answer' = [answer EXCEPT ![r] = "loop"]
            /\ place' = [place EXCEPT ![r] = @ + 1]
       ELSE End(r, "ok")
  /\ UNCHANGED <<keys, copies, tries, suppressions>>

\* enqueue_raw fails, or the message cannot be built: the whole request is
\* answered by an error, and the ids of what is stored are lost.
Refuse(r) ==
  /\ answer[r] \in Open
  /\ End(r, "error")
  /\ UNCHANGED <<keys, copies, tries, suppressions>>

\* One step too far.
Faulty_Store(r) ==
  /\ answer[r] = "checked"
  /\ copies' = [copies EXCEPT ![r][place[r]] = @ + 1]
  /\ IF place[r] <= Len(To[r])
       THEN /\ answer' = [answer EXCEPT ![r] = "loop"]
            /\ place' = [place EXCEPT ![r] = @ + 1]
       ELSE End(r, "ok")
  /\ UNCHANGED <<keys, tries, suppressions>>

\* enqueue_raw: the INSERT, and the answer after the last one.
Store(r) ==
  /\ answer[r] = "checked"
  /\ copies' = [copies EXCEPT ![r][place[r]] = @ + 1]
  /\ IF place[r] < Len(To[r])
       THEN /\ answer' = [answer EXCEPT ![r] = "loop"]
            /\ place' = [place EXCEPT ![r] = @ + 1]
       ELSE End(r, "ok")
  /\ UNCHANGED <<keys, tries, suppressions>>

\* The client hangs up and the handler is dropped, or the engine restarts.
Abandon(r) ==
  /\ answer[r] \in Open
  /\ End(r, "gone")
  /\ UNCHANGED <<keys, copies, tries, suppressions>>

\* add_suppression
AddSuppression(a) ==
  /\ keys # {} /\ Insert(Folded(a))
  /\ UNCHANGED httpVars

\* unsub_post, by the link in a marketing message (unsub_url, decode_unsub).
\* An INSERT that fails changes nothing, and the answer is the same.
Unsubscribe(r, k) ==
  /\ r \in Marketing /\ k \in DOMAIN To[r] /\ copies[r][k] > 0
  /\ Insert(To[r][k])
  /\ UNCHANGED httpVars

HttpWork(r) == Check(r) \/ Refuse(r) \/ Store(r)

HttpNext ==
  \/ \E k \in Keys : CreateKey(k)
  \/ \E r \in Requests : Send(r) \/ HttpWork(r) \/ Abandon(r)
  \/ \E a \in Listed : AddSuppression(a)
  \/ \E r \in Requests : \E k \in DOMAIN To[r] : Unsubscribe(r, k)

-----------------------------------------------------------------------------
(* Properties *)

(***************************************************************************)
(* What a client that sends a request again must reckon with.  No          *)
(* recipient gets more copies than there were tries, and none more than    *)
(* those named before it; after an error the recipients that have the copy *)
(* of this try are the ones before some place in the list; after 200 all   *)
(* have theirs.                                                            *)
(***************************************************************************)
CopiesFollowTries ==
  \A r \in Requests : \A k \in DOMAIN To[r] :
    /\ copies[r][k] <= tries[r]
    /\ \A j \in 1 .. k : copies[r][j] >= copies[r][k]
    /\ answer[r] = "ok" => copies[r][k] > 0

(***************************************************************************)
(* "You are unsubscribed." (http.rs:519): the address that is put in the   *)
(* table for it is one that the look-up of enqueue_raw finds.              *)
(***************************************************************************)
UnsubscribeHolds == \A a \in suppressions : Suppressed(a)
=============================================================================
