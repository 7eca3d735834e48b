----------------------------- MODULE MCSmtpOut -----------------------------
(***************************************************************************)
(* Instances of SmtpOut for TLC: answers of up to three listings, in any   *)
(* order, of which two are tried; the domain may be an exchanger, one may  *)
(* be listed twice, and two have names that the rules find something in.   *)
(***************************************************************************)
EXTENDS SmtpOut

CONSTANTS domain, first, second, third

Listing(p, h) == [preference |-> p, exchange |-> h]

MCAnswers ==
  {<<>>,
   <<Listing(20, second), Listing(10, domain), Listing(20, first)>>,
   <<Listing(20, third), Listing(10, second)>>,
   <<Listing(10, first), Listing(20, first), Listing(20, second)>>}

\* As of spamhaus.example.com and mx203.example.com.
MCNames ==
  [h \in Hosts |-> CASE h = second -> [numbers |-> <<>>, words |-> {"spamhaus"}]
                     [] h = third  -> [numbers |-> <<203>>, words |-> {}]
                     [] OTHER      -> Silence]

\* A reply for each verdict, and a temporary one that reads like a block.
MCReplies ==
  {[code |-> 451, words |-> {"greylisted"}],
   [code |-> 421, words |-> {"4.7."}],
   [code |-> 550, words |-> {"5.1", "5.1.1", "user unknown"}],
   [code |-> 554, words |-> {"5.7.1", "blocked", "spamhaus"}],
   [code |-> 552, words |-> {"5.2.2", "mailbox full"}],
   [code |-> 554, words |-> {}],
   [code |-> 450, words |-> {"greylisted", "reject", "recipient address rejected"}]}

\* One host, and the greylisting reply of a widespread mail server.
OneHost == {<<Listing(10, first)>>}
Greylisting ==
  {[code |-> 450, words |-> {"greylisted", "reject", "recipient address rejected"}]}
=============================================================================
