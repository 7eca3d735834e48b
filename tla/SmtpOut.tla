------------------------------- MODULE SmtpOut -------------------------------
(***************************************************************************)
(* src/src/smtp_out.rs: the delivery of one message.  A call of deliver    *)
(* looks up the mail exchangers, tries the first few of them in the order  *)
(* of preference, each over STARTTLS and then in plain text, and turns     *)
(* what it heard last into a verdict.  finish (queue.rs) has the message   *)
(* delivered again after a verdict of defer or soft.                       *)
(*                                                                         *)
(* A remote host that has taken the message may fail to say so; `copies`   *)
(* counts what the hosts took and `acked` what they acknowledged.          *)
(***************************************************************************)
EXTENDS Bounce, FiniteSets

CONSTANTS
  Hosts,          \* hosts that may be named by an MX answer
  Domain,         \* the recipient's domain, a host of itself
  NameText,       \* [Hosts -> text]: what of a name the rules would find
  MxAnswers,      \* what the resolver may answer: lists of [preference, exchange]
  Replies,        \* replies of failure: [code, words]
  HostLimit,      \* hosts tried in a call; 5 in the code
  MaxCalls        \* bound: calls of deliver; finish makes 8

ASSUME DeliveryAssumption ==
  /\ IsFiniteSet(Hosts) /\ Domain \in Hosts
  /\ NameText \in [Hosts -> [numbers : Seq(Nat), words : SUBSET Phrases]]
  /\ MxAnswers \subseteq Seq([preference : Nat, exchange : Hosts])
  /\ Replies \subseteq [code : 400 .. 599, words : SUBSET Phrases]
  /\ HostLimit \in Nat \ {0}
  /\ MaxCalls \in Nat \ {0}

VARIABLES
  dry_run, \* cfg.dry_run; a restart between two calls may change it
  pc,      \* the next network operation, see Steps
  walk,    \* the hosts this call will try, in order
  at,      \* the place in `walk`; 0 before the lookup
  result,  \* the verdict: DeliveryResult.class
  copies,  \* history: copies the hosts took in this call
  acked,   \* history: acknowledgements in all calls
  heard,   \* history: replies of failure heard in this call
  calls    \* calls of deliver so far, at most MaxCalls

vars == <<dry_run, pc, walk, at, result, copies, acked, heard, calls>>

Steps == {"deliver", "tls", "tls_send", "plain", "plain_send", "done"}
Pending == "none"

TypeOK ==
  /\ dry_run \in BOOLEAN
  /\ pc \in Steps
  /\ walk \in Seq(Hosts)
  /\ at \in 0 .. Len(walk)
  /\ result \in Classes \cup {Pending}
  /\ copies \in [Hosts -> Nat]
  /\ acked \in 0 .. 1
  /\ heard \subseteq Replies
  /\ calls \in 1 .. MaxCalls

-----------------------------------------------------------------------------
(* The order of the hosts *)

\* sort_by_key, which is stable, and take: the i-th of the walk has the i - 1
\* listings before it that come before it.  An exchanger may be listed, and
\* tried, more than once.  Without listings the domain itself is tried.
Walks(answer) ==
  LET n == Len(answer)
      m == IF n < HostLimit THEN n ELSE HostLimit
      Before(k, l) == \/ answer[k].preference < answer[l].preference
                      \/ answer[k].preference = answer[l].preference /\ k < l
      Orders == {p \in [1 .. m -> 1 .. n] :
                   \A i \in 1 .. m, k \in 1 .. n :
                     Before(k, p[i]) <=> \E j \in 1 .. i - 1 : p[j] = k}
  IN  IF n = 0 THEN {<<Domain>>}
      ELSE {[i \in 1 .. m |-> answer[p[i]].exchange] : p \in Orders}

host == walk[at]

Silence == [numbers |-> <<>>, words |-> {}]
TextOf(reply) == [numbers |-> <<reply.code>>, words |-> reply.words]

\* with_context(|| format!("plain connect {host}"))
Named(h, text) ==
  [numbers |-> NameText[h].numbers \o text.numbers,
   words   |-> NameText[h].words \cup text.words]

-----------------------------------------------------------------------------

Start ==
  /\ pc = "deliver" /\ walk = <<>> /\ at = 0
  /\ result = Pending
  /\ copies = [h \in Hosts |-> 0] /\ heard = {}

Init == dry_run \in BOOLEAN /\ Start /\ acked = 0 /\ calls = 1

Done(class) == pc' = "done" /\ result' = class

\* deliver: a dry run touches no host.
Skip ==
  /\ dry_run /\ pc = "deliver"
  /\ Done("success")
  /\ UNCHANGED <<dry_run, walk, at, copies, acked, heard, calls>>

\* deliver_inner up to the loop over the hosts.
Lookup ==
  /\ ~dry_run /\ pc = "deliver"
  /\ \E answer \in MxAnswers : walk' \in Walks(answer)
  /\ at' = 1 /\ pc' = "tls"
  /\ UNCHANGED <<dry_run, result, copies, acked, heard, calls>>

\* .context("mx lookup")?: the error names the domain.
LookupFails ==
  /\ ~dry_run /\ pc = "deliver"
  /\ Done(classify_error(Named(Domain, Silence)))
  /\ UNCHANGED <<dry_run, walk, at, copies, acked, heard, calls>>

\* try_host: connect, with STARTTLS.
TlsConnect ==
  /\ pc = "tls"
  /\ \/ pc' = "tls_send" /\ UNCHANGED heard
     \/ pc' = "plain" /\ UNCHANGED heard
     \/ pc' = "plain" /\ \E r \in Replies : heard' = heard \cup {r}
  /\ UNCHANGED <<dry_run, walk, at, result, copies, acked, calls>>

Takes == copies' = [copies EXCEPT ![host] = @ + 1]

\* The host takes the message and says so.
Accepted ==
  /\ Takes /\ acked' = acked + 1
  /\ Done("success")
  /\ UNCHANGED heard

\* The plain text connection is made after a success, too.
Faulty_TlsSend ==
  /\ pc = "tls_send"
  /\ \/ /\ Takes /\ acked' = acked + 1
        /\ pc' = "plain" /\ UNCHANGED <<result, heard>>
     \/ /\ Takes \/ UNCHANGED copies
        /\ pc' = "plain" /\ UNCHANGED <<result, acked, heard>>
     \/ /\ \E r \in Replies : heard' = heard \cup {r}
        /\ pc' = "plain" /\ UNCHANGED <<result, copies, acked>>
  /\ UNCHANGED <<dry_run, walk, at, calls>>

\* client.send over TLS: taken, refused, or the connection lost before or
\* after the host took the message.  Whatever the error, plain text follows.
TlsSend ==
  /\ pc = "tls_send"
  /\ \/ Accepted
     \/ /\ Takes \/ UNCHANGED copies
        /\ pc' = "plain" /\ UNCHANGED <<result, acked, heard>>
     \/ /\ \E r \in Replies : heard' = heard \cup {r}
        /\ pc' = "plain" /\ UNCHANGED <<result, copies, acked>>
  /\ UNCHANGED <<dry_run, walk, at, calls>>

\* The host is tried again.
Faulty_NextHost(text) ==
  IF at < Len(walk)
    THEN pc' = "tls" /\ UNCHANGED <<at, result>>
    ELSE Done(classify_error(text)) /\ UNCHANGED at

\* One host too many.
Faulty_NextHost_Late(text) ==
  IF at <= Len(walk)
    THEN at' = at + 1 /\ pc' = "tls" /\ UNCHANGED result
    ELSE Done(classify_error(text)) /\ UNCHANGED at

\* Err(last), or the next host.
NextHost(text) ==
  IF at < Len(walk)
    THEN at' = at + 1 /\ pc' = "tls" /\ UNCHANGED result
    ELSE Done(classify_error(text)) /\ UNCHANGED at

\* try_host: connect_plain.  The greeting may be a refusal.
PlainConnect ==
  /\ pc = "plain"
  /\ \/ pc' = "plain_send" /\ UNCHANGED <<at, result, heard>>
     \/ NextHost(Named(host, Silence)) /\ UNCHANGED heard
     \/ \E r \in Replies : /\ NextHost(Named(host, TextOf(r)))
                           /\ heard' = heard \cup {r}
  /\ UNCHANGED <<dry_run, walk, copies, acked, calls>>

\* A refusal sends the walk on to the next host.
Faulty_PlainSend ==
  /\ pc = "plain_send"
  /\ \/ Accepted /\ UNCHANGED at
     \/ /\ Takes \/ UNCHANGED copies
        /\ NextHost(Silence) /\ UNCHANGED <<acked, heard>>
     \/ \E r \in Replies : /\ NextHost(TextOf(r))
                           /\ heard' = heard \cup {r} /\ UNCHANGED <<copies, acked>>
  /\ UNCHANGED <<dry_run, walk, calls>>

\* client.send in plain text: whatever comes of it is the verdict.
PlainSend ==
  /\ pc = "plain_send"
  /\ \/ Accepted
     \/ /\ Takes \/ UNCHANGED copies
        /\ Done(classify_error(Silence)) /\ UNCHANGED <<acked, heard>>
     \/ \E r \in Replies : /\ Done(classify_error(TextOf(r)))
                           /\ heard' = heard \cup {r} /\ UNCHANGED <<copies, acked>>
  /\ UNCHANGED <<dry_run, walk, at, calls>>

\* The worker delivers a deferred message again, from the start.
Again ==
  /\ pc = "done" /\ result \in {"defer", "soft"} /\ calls < MaxCalls
  /\ dry_run' \in BOOLEAN
  /\ pc' = "deliver" /\ walk' = <<>> /\ at' = 0
  /\ result' = Pending
  /\ copies' = [h \in Hosts |-> 0] /\ heard' = {}
  /\ calls' = calls + 1
  /\ UNCHANGED acked

Work ==
  Skip \/ Lookup \/ LookupFails \/ TlsConnect \/ TlsSend \/ PlainConnect \/ PlainSend

Next == Work \/ Again

\* Every network operation has a timeout.
Spec == Init /\ [][Next]_vars /\ WF_vars(Work)
-----------------------------------------------------------------------------
(* Properties *)

Contacted == {walk[i] : i \in 1 .. at}

\* A name in the error texts of this call has a number that reads as a code,
\* or a phrase that the rules look for.
Misled ==
  \E h \in Contacted \cup {Domain} :
    \/ NameText[h].words # {}
    \/ \E i \in DOMAIN NameText[h].numbers : NameText[h].numbers[i] \in 200 .. 599

\* How often host h has been tried in this call.
Tried(h) == Cardinality({i \in 1 .. at : walk[i] = h})

(***************************************************************************)
(* Trying again in plain text and at the next exchanger may deliver a      *)
(* message more than once; this is how often.  In a call, a host takes at  *)
(* most one copy each time it is tried, which is as often as the MX answer *)
(* lists it, and the host tried last one more.                             *)
(***************************************************************************)
CopiesBounded ==
  \A h \in Hosts :
    copies[h] <= Tried(h) + (IF at > 0 /\ h = host THEN 1 ELSE 0)

(***************************************************************************)
(* Once a host has acknowledged the message nothing is sent any more, in   *)
(* this call or in a retry.                                                *)
(***************************************************************************)
AckedOnce == acked > 0 => acked = 1 /\ pc = "done" /\ result = "success"

(***************************************************************************)
(* What finish does with a verdict cannot be undone: success ends the      *)
(* message, hard and block suppress the recipient.  Unless a name in the   *)
(* error text has something that the rules take for a reply's, the first   *)
(* needs an acknowledgement of a host and the others a host's reply that   *)
(* says so.                                                                *)
(***************************************************************************)
VerdictNeedsReply ==
  ~dry_run /\ ~Misled =>
    /\ result = "success" => acked = 1
    /\ result \in {"hard", "block"} =>
         \E r \in heard : classify_error(TextOf(r)) = result

(***************************************************************************)
(* Why deliver returns: each step is one network operation, and            *)
(* OperationsLeft bounds those that remain: three for each host to come    *)
(* (STARTTLS, what is sent over it, the plain text connection) and what is *)
(* sent in plain text at the last.  A row is in `sending` for no longer    *)
(* than 3 * HostLimit + 2 operations take, and nothing but a verdict of    *)
(* defer or soft begins another call.                                      *)
(***************************************************************************)
OperationsLeft ==
  CASE pc = "deliver"    -> 3 * HostLimit + 2
    [] pc = "tls"        -> 3 * (Len(walk) - at) + 4
    [] pc = "tls_send"   -> 3 * (Len(walk) - at) + 3
    [] pc = "plain"      -> 3 * (Len(walk) - at) + 2
    [] pc = "plain_send" -> 1
    [] pc = "done"       -> 0

CallRunsDown ==
  [][IF calls' = calls
       THEN OperationsLeft' < OperationsLeft
       ELSE pc = "done" /\ result \in {"defer", "soft"}]_vars

(***************************************************************************)
(* deliver returns, whatever the hosts do: the task that called it does    *)
(* not keep the row in `sending`.                                          *)
(***************************************************************************)
DeliverReturns == pc # "done" ~> pc = "done"

(***************************************************************************)
(* "delivered via {host}" (smtp_out.rs:121): a success is an               *)
(* acknowledgement of a host.                                              *)
(***************************************************************************)
SuccessIsDelivery == ~dry_run /\ result = "success" => acked = 1

(***************************************************************************)
(* greylist_defers (bounce.rs): when greylisting, temporary by its code,   *)
(* is all that was heard, the message is tried again.                      *)
(***************************************************************************)
GreylistDefers ==
  (pc = "done" /\ heard # {}
     /\ \A r \in heard : Temporary(r.code) /\ "greylisted" \in r.words)
    => result \in {"defer", "success"}
=============================================================================
