# Formal models of the Dispatch mail engine

TLA+ models of the engine in `src/src` (a single-process outbound MTA written in
Rust over PostgreSQL), TLC instances that check them, and TLAPS proofs of the
properties that matter most. Line numbers below refer to `src/src/<file>.rs`
unless a directory is given.

## The system

| Part | State it keeps | Operations | Talks to |
|---|---|---|---|
| Queue (`queue.rs`) | tables `messages`, `events`, `suppressions`; one task per claimed row | `enqueue_raw`, `drain_once`, `process_job`, `finish`, `record_verp_bounce` | called by HTTP and SMTP intake; calls routing, the rules, delivery |
| Health monitor (`queue.rs`, `dnsbl.rs`) | `ips.health`, `volume_decision`, `listed_on`, `last_probe_at`; table `send_counters` | `refresh_health`, `bump_counter`, `load_signals`, `listed_on` | judged by the rules; the administrator writes the same rows |
| Rules (`warming.rs`, `reputation.rs`) | none | caps, quota, `evaluate_health`, `decide_volume`, `retry_delay_secs`, `classify_isp` | |
| Routing (`routing.rs`), pools (`pools.rs`) | none | `candidates`, `split_counts`, `assign_roles`, `assign_explicit` | |
| Seeding (`db.rs`) | tables `ips`, `domains` | `connect`, `seed`, `seed_ip`, `seed_domain` | at every start, before anything else runs |
| DNS records (`dns_records.rs`) | none; the administrator publishes them | `generate_dns` | `ips`, `domains` |
| SMTP intake (`smtp_in.rs`) | one session per connection | command loop, `DATA` | `enqueue_raw`, `record_verp_bounce` |
| HTTP API (`http.rs`) | tables `api_keys`, `suppressions` | `send_message`, `add_suppression`, `unsub_post`, `admin_create_key`, `admin_set_health`, `admin_dns` | the queue, the tables |
| Delivery (`smtp_out.rs`, `bounce.rs`) | none outside a call | `deliver`, `try_host`, `extract_code`, `classify_smtp` | DNS, remote hosts |
| Process (`main.rs`) | three tasks | start, stop | |

The parts share nothing but the database, and no statement of the program opens
a transaction: every query is atomic by itself and nothing larger is. One
`worker_loop` ticks every two seconds and runs `drain_once` and then
`refresh_health` inline; `drain_once` spawns a detached task per row, which
outlives the tick. HTTP handlers and SMTP sessions run beside them. All tasks
vanish with the process; the tables stay.

What makes each part hard, and what makes it correct:

* **Queue** - tasks, claims, bounce reports and intake calls interleave between
  any two statements, `finish` writes without looking at the row, and any
  statement may fail. Correct: no message in two hands, no attempt beyond the
  schedule, nothing comes back from `bounced`, the audit trail never lags the
  row, bounced recipients are suppressed, accepted messages are settled.
* **Health monitor** - a pass reads all rows first and writes each much later,
  after DNS lookups; the administrator writes in between. Correct: what is
  stored together agrees, listings and quarantines stop the IP, quarantines
  last, blocks quarantine.
* **Rules** - two judges with their own thresholds, three caps. Correct: the
  judges agree, bad news never raises the volume, the quota is exact, the ramp
  does not drop.
* **Volume gate** (inside `enqueue_raw`) - the quota is read at intake, sends are
  counted after delivery, and nothing in between is counted at all. Correct: a
  cap is passed only by what was under way.
* **Routing, pools, seeding, DNS** - a choice made from a table that has changed
  by the time it is used, names and keys published once and used for years.
  Correct: streams stay apart, no stream is refused while it has a healthy IP,
  every address is in one pool and has a name of its own, mail is signed with the
  key that is published, people's mail is led to this host.
* **Intake** - commands in any order, several recipients per mail, an error in
  the middle of a loop, a client that asks again, two spellings of one mailbox.
  Correct: what is acknowledged is stored, what was forgotten stays so, a retry
  makes the copies it must and no more, a suppression takes effect at once.
* **Delivery** - up to ten attempts over five hosts in a call, each of which may
  take the message without saying so; a verdict read out of an error text.
  Correct: copies are bounded, an acknowledged message is not sent again,
  verdicts that cannot be undone rest on a reply, the call ends.

`PROJECT.json` lists every part with its status and every hazard at its line.

## Modules

| Module | Models | Kind |
|---|---|---|
| `MessageQueue` | the queue, statement by statement | state machine |
| `DeliveryContract` | what the queue promises for a message | abstract specification |
| `IntakeContract` | what `enqueue_raw` promises to the table, whoever calls it | abstract specification |
| `HealthMonitor` | `refresh_health` and its neighbours | state machine |
| `Dispatch` | a message's IP from choice to delivery, with `seed`, the DKIM key and the published zone | state machine |
| `VolumeGate` | quota at intake against counters after delivery | state machine |
| `SmtpOut` | `deliver` | state machine |
| `SmtpIntake`, `HttpApi` | the two ways in | state machines |
| `Intake` | both, over one `SuppressionList` | composition |
| `Warming`, `Reputation`, `Routing`, `Pools`, `DnsRecords`, `Bounce` | the pure rules | operators |
| `MC*` | TLC instances | |
| `*Proofs` | theorems and proofs | |

`Reputation` and `Routing` extend `Warming`; `HealthMonitor` and `VolumeGate`
extend `Reputation`; `Dispatch` extends `Routing` and `DnsRecords`, which
extends `Pools`; `SmtpOut` extends `Bounce`; `SmtpIntake` and `HttpApi` extend
`SuppressionList` and meet in `Intake`; `MessageQueue` instantiates
`DeliveryContract`, and `MessageQueue` and `Intake` both `IntakeContract`. An operator `Faulty_X` is `X` with a plausible mistake; no
specification uses it. `PROJECT.json` pairs every checked property with one that
breaks it.

### MessageQueue

One action per database statement or SMTP exchange. `status`, `attempts`,
`due` (is `next_attempt_at` past) and `created` (rank of `created_at`) are the
columns of `messages`; `jobs` holds the spawned tasks with the attempt number
that `RETURNING` gave them and the statement they run next; `dsn` the progress
of each bounce report; `intake` the calls of `enqueue_raw` that have passed the
suppression check; `tries` is a history variable that counts decided calls of
`deliver`.

| Code | Action |
|---|---|
| `enqueue_raw` 37-40, early returns 41-49, `INSERT` 80-97 | `Check`, `Refuse`, `Insert` |
| `add_suppression` (`http.rs` 191), `unsub_post` | `Suppress` |
| `next_attempt_at <= now()` | `BecomeDue` |
| `drain_once` 113-153 | `Claim` (`DueRows`, `Before`, `First`, `Lockable` for `SKIP LOCKED`) |
| `deliver` 169, `bump_counter` 170, event 189 | `Deliver`, `Count`, `Record` |
| the three arms of `finish` 197-241 | `Update`: `Succeed`, `Reject`, `Defer` |
| `INSERT INTO suppressions` 212 | `SuppressRejected` |
| `record_verp_bounce` 403-434 | `DsnArrives`, `DsnMark`, `DsnSuppress`, `DsnRecord` |
| failed statements; the end of the process | `JobFails`, `DsnFails`; `Restart` |

Abstracted: the outcome of `deliver` is one of success, reject (`Hard`,
`Block`) and defer (`Defer`, `Soft`), which is all `finish` tells apart (how it
comes about is `SmtpOut`); the choice of IP and the quota reduce to "due now or
later"; recipients are already in lower case. The branch of `process_job` that
finds no IP (166-168) is unreachable: `messages.ip_id` references `ips`, no row
of `ips` is ever deleted, and every row parses.

### HealthMonitor

The counters appear as the sums `load_signals` takes of them (`window`), with
the one column whose writing matters, `blocked`, kept exactly: `openRow` says
whether the current hour has its row, because the first outcome of an hour is
inserted as a plain send. A pass keeps the healths it loaded (`seen`), the IPs
still to do and the one it is at. `onList` is the block lists themselves and
`refused` whether a provider really blocked the IP within 48 hours: neither is
visible to the program. `graduated_at` and `reputation_score` are written and
never read by a decision, and are left out. Ages, windows and IPs are constants.

### Dispatch

`table` is the `ips` table by address, `loaded` the copy a call of `enqueue_raw`
holds, `via` the `ip_id` it stored. `Restart(cfg)` seeds a configuration: known
rows take the role and the EHLO name of their place, unknown rows are added,
rows no longer configured stay with the role and the name they had. The
configurations are what `Pools!assign_roles` and `assign_explicit` return; an
EHLO name is a role and a place in it (`PoolNames`), or for the first
transactional address the value of `MAIL_HOSTNAME`, the constant
`mail_hostname`, which may be any name, one of the others included. The choice
is `Routing!Choices`, with the unspecified order of equal rows left open. `key`
is the DKIM key of `domains`, `signed` the key a message was signed with at
intake, 0 if signing failed.

`zone` is what the administrator copied from the console (`PublishDns`,
`DnsRecords!generate_dns`): the A records, and the key or, when the `SELECT` of
the keys failed (`http.rs` 361), none. SPF and PTR name the same rows as the A
records, whatever the table holds, so there is no more to say of them than of
the loop that writes them; they are left out. Addresses are taken to be IPv4,
which is what `install.sh` finds.

### VolumeGate

One IP, one mailbox provider, and the domains that send through it: `counters`
always asks for one IP and one provider, so others do not matter. Messages of a
domain are alike and are counted by where they are: `calling` (the call has read
the counters and found something left, the `INSERT` is still to come), `due`,
`later`, `lost` (claimed, never counted). `sent` and `hour` are the sums of
`send_counters`; `opened` and `peak` are history. `peak` follows what is
`Uncounted` at one time, for each domain and, as the sum over all domains at
that time, for the IP.

| Code | Action |
|---|---|
| `enqueue_raw` 51-73, reads and delay | `Decide` (`Quota`) |
| `INSERT` 80-97, and its failure | `Insert`, `InsertFails` |
| `next_attempt_at <= now()` | `BecomeDue` |
| `process_job` 169-178: `deliver`, `bump_counter`, `finish` | `Send` |
| restart or failed `bump_counter` after a claim | `Lose` |
| `date_trunc('hour', now())`, `CURRENT_DATE` | `HourTurns`, `NewDay` |

The verdict of `decide_volume` is any of `Verdicts`: which one it is follows from
counters of two days and a week and is `HealthMonitor`'s subject.

### SmtpOut and Bounce

One action per network operation of `deliver`. An MX answer is a list of
listings, a preference and an exchanger each, in the order the resolver gives
them; an exchanger may be listed twice. `walk` is the list of hosts of this
call: the answer in a stable sort by preference, cut at five and not freed of
duplicates, or the domain itself without an answer; `at` is the place in it.
`copies` counts what the hosts took, `acked` what they acknowledged, `heard` the
replies of failure: a host that takes a message and loses the connection before
its 250 adds to `copies` and to nothing else.

| Code | Action |
|---|---|
| dry run 43-50 | `Skip` |
| MX look-up and order 63-82, and its failure | `Lookup` (`Walks`), `LookupFails` |
| `try_host` 104-124: STARTTLS, then send | `TlsConnect`, `TlsSend` |
| `try_host` 126-143: plain, then send | `PlainConnect`, `PlainSend` |
| the loop 82-91 and the verdict 146-155 | `NextHost`, `classify_error` |
| `finish` after defer or soft | `Again` |

An error text is the list of the three-digit numbers in it, in order, and the
set of the phrases the rules look for. The context that `connect_plain` adds
puts the host's name in front, and that of the look-up the domain's, with
whatever numbers and phrases the name has (`NameText`, `Named`): both are
searched like the rest of the text. `classify_smtp` and `extract_code` are then
translated branch by branch.

### SmtpIntake, HttpApi and Intake

`SmtpIntake` is a session, and the ones after it: one action per command, one
per step of the loop over the recipients. `enqueue_raw` is `Lookup` and
`StoreRcpt`, or `RefuseRcpt` where it fails; the reply to it is a step of its
own, `Ack` or `Deny`, because the write may fail or wait for the client; a bounce
address is `Report`, which has none. `turn` counts the commands with which a
client begins anew - a connection, EHLO, MAIL FROM, RSET, the end of DATA - and
what a client gave is tagged with the turn in which it did. The code forgets in
three of the five; `since` is the last turn in which it did, so that
`NothingOutlivesReset` says both what is kept apart and what is not. `owed` is
the number of replies the client waits for. NOOP, an unknown command and a bad
address answer and change nothing.

`HttpApi` has the handlers that write: `Send`, `Check`, `Store` and `Refuse` are
`send_message` with its loop, `Abandon` the handler that is dropped with its
connection, `AddSuppression` and `Unsubscribe` the writers of the list,
`CreateKey` the table `api_keys`. A client sends a request again unless it was
answered 200.

`Intake` puts both over one table. An address is a mailbox and a spelling:
`enqueue_raw` trims and folds it, `add_suppression` folds it only, `unsub_post`
does neither. `late` counts the messages that each caller stored for a mailbox
suppressed already.

`IntakeContract` is where the two models of intake meet. `Intake` has the
callers of `enqueue_raw` and no worker, `MessageQueue` the worker, the reports
and the faults, and one call for each message; both are shown to call
`enqueue_raw` as the contract has it: a look-up for each message, which the
message's `INSERT` or an early return uses up. What the contract leaves out is
part of the statement: the list may take the recipient between the two.

### The rules

Rates are compared by cross-multiplication. The code divides two `u32` as `f64`
and compares with a decimal literal; both are correctly rounded, so the two
agree on every input. `classify_isp` works on sequences of labels, which is what
`last_labels` cuts a name into. Retry delays, caps and thresholds are the code's
numbers.

## Checks

| Run | Question | Bounds |
|---|---|---|
| `queue` | `OneJobPerMessage`, `JobOwnsRow`, `RetryBudget`, `AuditTrail`, `BounceSuppresses`, `KeepsContract`, `WorkRunsDown`, `KeepsIntakeContract`, `SettlesOrStrands` | an urgent and a bulk message to one recipient, a report, batch 1, 2 retries, 1 fault |
| `health` | `QuarantineMeansStop`, `ListedMeansStop`, `QuarantineLeftOnlyUnseen`, `CountedBlockQuarantines` | one IP, a window per region of the rules, ages 13 and 14, 1 fault |
| `dispatch_safety` | `PoolsApartUntilReseeded`, `ServedWhileHealthy`, `SignaturesVerify` | 2 streams, 3 addresses in 4 configurations, 1 send per IP and day, 1 restart |
| `volume` | `DomainOvershootBounded`, `IpOvershootBounded` | 2 domains one send below the cap of the new one, 4 calls, 1 lost job, 2 days |
| `delivery` | `CopiesBounded`, `AckedOnce`, `VerdictNeedsReply`, `DeliverReturns`, `CallRunsDown` | no, two or three listings of which 2 are tried, one exchanger listed twice, a reply for each verdict, 3 calls |
| `intake` | `NothingOutlivesReset`, `AcksFollowStores`, `RepliesInStep`, `CopiesFollowTries`, `AtMostOneLate`, `HandlersReturn`, `KeepsIntakeContract`, `HandlersRunDown` | 1 mailbox in two spellings, a report, 2 recipients, 3 turns, a request sent twice |
| `queue_stranded`, `health_block_missed`, `dispatch_reseeded`, `delivery_success`, `delivery_greylisted`, `http_unsubscribed` | findings | the smallest that show them |

`TypeOK` is checked in every passing run.

Why these bounds are enough. In the queue, messages meet in the batch (two
messages and a batch of one: the limit and both orders of priority occur) and on
the suppression list (one recipient for both); two retries give a first, a middle
and a last attempt, and the theorems cover every length; faults are bounded by
`MaxFaults`, and one at every point of every task already loses each suffix of
each sequence, which is also what `SettlesOrStrands` allows a fault to do: leave
a message in `sending`, never in `queued`. In the monitor IPs do not
interact except by sharing a pass, which the proofs cover for any number. The
configurations of `dispatch_safety` grow, shrink and move the pools, drop an
address that messages still use, and let two rows share a name; the theorems
cover every configuration and any number of restarts. The day of `volume` starts
one send below the smallest cap of the code (Apple, first day: 10), with an IP
of either age, so that the cap of the domain binds in one half of the states and
that of the IP in the other; the hourly cap (100) is out of reach there and only
in the theorem. In `delivery` the limit cuts lists of three,
listings come out of order and with equal preferences, an exchanger that is
listed twice fills both places, the domain is an exchanger of itself, one host's
name holds a number that reads as a code and another's a phrase. In `intake` two
recipients give a recipient before and one after any event, and three turns let
EHLO, MAIL FROM or RSET come between what a mail is made of, and one mail come
after another.

Fairness. `worker_loop` runs for as long as the process lives and its tick
resumes whatever the last cycle returned, so a claimable row is claimed
(`WF(Claim)`) and a pass goes on (`WF(PassStep)`); tokio runs every spawned task
and each network operation of `deliver` has a timeout, so a task takes its next
step (in `SmtpOut`, `WF(Work)`: the operation ends in an answer or in an error);
time passes (`WF(BecomeDue)`). In `Intake` a handler that waits for the database
only goes on (`SmtpWork`, `HttpWork`). Reading the next command is not among
these steps, nor is writing a reply: `write_all` has no timeout (`smtp_in.rs`
56-63), and a client that does not read holds its session for as long as it
likes. `HandlersReturn` therefore promises that a mail that is being stored comes
to its next reply or to its end, and no more. No caller, remote host,
administrator or fault is obliged to do anything.
Weak fairness suffices: nothing disables a claim for ever except other claims,
of which a bounded instance has finitely many - whether bulk mail starves under
an endless stream of urgent mail is not a question these instances can answer,
and `ORDER BY priority` suggests that it may.

`CHECK_DEADLOCK FALSE` appears only where a bounded instance really ends: every
message settled, every call of `deliver` used up.

## What the checks show

The queue hands every message to one task at a time, never exceeds the schedule,
never revives a bounced message and keeps its contract, through crashes and
failed statements; the work left for a message never grows, and `6 * Retries +
7` steps are the most it takes. A bounce report that meets a running task is
overwritten by it; the model shows that this never hands the message out twice,
and the refinement treats the report as taking effect only if the task is lost.
The gate keeps a daily cap when messages come one by one; a burst, or mail that
was delayed or is retried, passes it by what is not yet counted, and no more. A
host that loses acknowledgements makes duplicates, at most a copy each time it
is tried and one more on the host tried last, and an acknowledged message is
never sent again. What an SMTP session forgets at RSET or at the end of DATA
does not come back, and its replies are in step for mails to one mailbox; a
request that is repeated after an error makes further copies for the recipients
named first. A suppression lets each caller store at most the one message it had
already looked up.

Where the program does not do what its documentation, comments or tests say:

1. `queue_stranded` - a restart or a failed statement leaves a row in `sending`
   for ever; the console counts it as "in queue" (`src/static/index.html` 73).
2. `health_block_missed` - a block that is the first outcome of its hour is not
   counted (`queue.rs` 255), against `src/README.md` 23.
3. `dispatch_reseeded` - a restart with more addresses adds a marketing pool
   (`db.rs` 72), and a marketing message queued before still leaves by the
   transactional IP it was given when there was no other, against
   `src/README.md` 16. No role changes in this run; that a restart may change
   roles, too (`db.rs` 64), makes it no better.
4. `delivery_success` - a host that cannot be reached and has a number from 200
   to 299 in its name makes the delivery a success (`smtp_out.rs` 134, 157).
5. `delivery_greylisted` - a temporary reply that contains a phrase of the hard
   rules is hard: the message bounces and the recipient is suppressed
   (`bounce.rs` 41, 84), against the test `greylist_defers`.
6. `http_unsubscribed` - a recipient written with a capital unsubscribes and is
   stored in a spelling that no look-up asks for (`http.rs` 513, `queue.rs` 37).

Seen while modelling, with no run of its own:

* `QuarantineLeftOnlyUnseen` states as much as holds of a quarantine set by the
  administrator: a pass of `refresh_health` that loaded the IP before writes its
  old health back (318), although the test `quarantine_is_sticky` (`warming.rs`
  264) suggests otherwise.
* When the query of the keys fails, the console shows DNS records without a DKIM
  key and without an error (`http.rs` 361), next to the note "Publish SPF/DKIM
  first" (`dns_records.rs` 177); mail is signed all the same. `PublishDns` models
  such a bundle, and `SignaturesVerify` is about a key that was published.
* The "MX target / IMAP / webmail" (`dns_records.rs` 59) is the first
  transactional row of the table (49). The table keeps rows that are no longer
  configured (`db.rs` 45), so after a restart it may be an address that the host
  no longer has.
* A failed DNS lookup clears a listing (`dnsbl.rs` 18, `queue.rs` 306), against
  "Lookup failure is \"unknown\", not listed." (`dnsbl.rs` 6); `LookUp` models it.
* Mail that was queued before an unsubscribe or a suppression is still sent,
  retries included: the list is asked at intake only.
* A quarantined IP delivers what was queued for it (`Deliver` of `Dispatch` asks
  no health), against `reputation.rs` 8.
* A cut does not reduce the volume to "25% of the warmup curve" (`reputation.rs`
  10): the gate asks whether a quarter of what is left is zero, which is so for
  the last three sends only (theorem `GateWithholds`).
* `hotmail.co.uk`, `live.co.uk` and `yahoo.co.uk` are never recognised
  (`warming.rs` 163-164; theorem `CoUkIsOther`). The comparison of the last three
  labels with `mail.protection.outlook.com`, which has four, is never true
  either (168), but names under it end in `outlook.com` and are recognised.
* A bounce report gets no reply after its DATA, and a mail to several mailboxes
  gets one reply for each: `RepliesInStep` excludes both with `unusual`.
* EHLO and a second MAIL FROM keep the recipients named before (`smtp_in.rs`
  86-98): they get the mail of the later sender. `NothingOutlivesReset` states
  as much as holds.
* A host or domain whose name contains a phrase of the rules (`spamhaus`,
  `blocked`) and that cannot be reached gives a verdict of block or hard without
  any reply, and the recipient is suppressed (`smtp_out.rs` 134, 70, `bounce.rs`
  56-89); `VerdictNeedsReply` has to exclude such names (`Misled`).
* `MAIL_HOSTNAME` may be a name that `ehlo_hostname` makes for another address
  (`out.{root}`, say), and two addresses then share an EHLO name, of which one is
  the first; nothing checks it (`config.rs` 26, theorem `NamesDistinct`).
* Rows that are no longer configured are routed to, published and named in SPF
  like the others.
* An address that is not IPv4 would be published as `ip4:` and in a record of
  type A (`dns_records.rs` 81, 168).
* Unsubscribe links are signed with the administrator's password: a change of it
  invalidates the links already sent (`http.rs` 612).

## What is proved

All theorems hold for every value of the constants allowed by the `ASSUME` of
the module, with no bound on messages, retries, faults, IPs, addresses,
restarts, domains, hosts, recipients, requests or counters. Each module has one
inductive invariant, kept action by action; the properties follow from it.

* **MessageQueueProofs.** `TypeOK`, `OneJobPerMessage`, `JobOwnsRow` and
  `RetryBudget` are invariants. None is inductive alone: that a claim never
  hands out a row in use needs `JobOwnsRow`; that an UPDATE of `finish` keeps
  the attempt numbers in step needs `OneJobPerMessage`; the number of tries
  needs to know how far each task has come. `QueueInv` joins them with
  `RowsInStep` (status against counters) and `JobsInStep` (task position against
  counters). On top of it, `AuditTrail` needs `TasksPaidUp` (what a task has yet
  to enter) and `BounceSuppresses` needs `ReportsSuppress` (what a report leaves
  behind).
  `ContractKept` is the refinement of `DeliveryContract`: every statement moves
  one message (`OneMoves`), none (`NoneMoves`), or bounces a set of messages that
  reports had answered (`SetBounces`), which is what a restart does.
  `IntakeContractKept` is the refinement of `IntakeContract`; that the `INSERT`
  adds a row that is not there yet needs `RowsInStep`, and that nothing else adds
  one needs that a task and a report work on stored rows.
  `EffortRunsDown` proves `WorkRunsDown` with the variant `StepsLeft`: a claim,
  a passed delay and each statement of a task take from it, a retry pays for
  its delay and its claim with the attempt it used up, a fault or a restart takes
  all of it, and `EffortIsFinite` bounds it. With the fairness of `FairSpec` this is
  the argument for `SettlesOrStrands`; what is left to TLC is that a step is
  enabled as long as the variant is not zero.
* **HealthMonitorProofs.** `QuarantineMeansStop`, `ListedMeansStop` and
  `QuarantineLeftOnlyUnseen`. The strengthening `PassInStep` says what a pass
  carries between statements: the flag it judges by is the stored one unless it
  has probed, and the pair it will write is one the two judges agree on. That
  agreement is `VerdictRules`, proved from the rules themselves.
* **DispatchProofs.** For tables of any size: no quarantined candidate, no
  transactional candidate for marketing while its own pools exist, no refusal
  while a usable IP is healthy, preferred pool first. Then `DispatchInv`:
  `PoolsApartUntilReseeded` needs `LoadedInStep` (an old copy of the table has
  the roles of the present one until a restart), `SignaturesVerify` needs
  `KeysInStep` (there is one key, and what is signed or published is that one or
  none).
* **PoolsProofs.** The split of any number of addresses is exact; the correction
  in `split_counts` for rounding overflow is never needed (`SharesFit`); no two
  addresses get one EHLO name unless `MAIL_HOSTNAME` is one that the pools use,
  and then one of the two is the first (`NamesDistinct`); `assign_roles` returns a
  configuration that `Dispatch` may be given (`AssignedConfig`). The same for
  `assign_explicit`, whatever the three lists (`ExplicitNamesDistinct`,
  `ExplicitConfig`).
* **VolumeGateProofs.** `DomainOvershootBounded` and `IpOvershootBounded`. The first is not inductive: at the
  moment a message is let through one must know that all earlier ones are
  counted or uncounted (`Accounted`), that `peak` has seen the latter
  (`PeakSeen`), and that a non-zero volume means room under the cap (`RoomLeft`,
  from `QuotaKeepsEveryCap`). `LetThrough` adds the calls that have yet to store,
  which may do so after midnight. The second speaks of sums over the domains that
  share the IP, of `peak[Ip]`, the greatest that the sum of what is uncounted has
  been at any one time, and `IpInv` keeps the same account of them. A sum is
  `FoldFunction` of the community modules, whose recursion no prover here can
  induct over; `SumsAgree` and `SumsExist` derive what is needed - a sum exists, is unique
  and changes by what one domain changes - from a smallest set of domains that
  would fail it (`SmallestSubset`). The assumption this rests on, that the IP's
  counter covers those of its domains, is what `counters` computes.
* **SmtpOutProofs.** `CopiesBounded` needs the copies of each host against the
  places of the walk that name it (`CopiesInStep`): a host may be at several, so
  they are counted (`CountStep`: going on by one place adds one to the host there
  and to no other). `VerdictNeedsReply` needs that a text without misleading
  numbers or phrases yields its reply's own code, hence the lemmas on `extract_code`, whose
  first place is a least number (from the library's well-founded order on `Nat`).
  `CallsRunDown` proves `CallRunsDown`: every network operation takes from
  `OperationsLeft`, because a walk is no longer than the limit (`WalkFacts`).
  Of the rules themselves: which replies end the retries
  (`FinalByPhraseOrCode`), and that a longer text is no milder
  (`LongerTextStaysFinal`).
* **IntakeProofs.** `SmtpInv` (`SessionInStep`, `StoredInStep`, `OneBox`) gives
  `NothingOutlivesReset`, `AcksFollowStores` and `RepliesInStep`; `HttpInv`
  (`CopiesInStep`: what is ahead of the loop has a copy less) gives
  `CopiesFollowTries`; with `LateInStep` (a caller past its look-up has stored
  nothing late) their composition gives `AtMostOneLate`. `HandlersEnd` proves
  `HandlersRunDown`: neither the other caller, the clients nor the list adds to
  what a loop has left. `CallersKeepContract` is the refinement of
  `IntakeContract` by the session and the requests: a message's place in its mail
  or its number among the copies of a recipient makes it new (`StoredInStep`,
  `HttpTypeOK`), and a recipient is named as `enqueue_raw` looks it up.
* **ReputationProofs.** The judges agree on every signal (`JudgesAgree`); worse
  signals never raise the volume, for every pair of signals over the same sends
  (`BadNewsLowersVolume`); the volume never exceeds the quota unless pushed, and
  then by at most a fifth (`VolumeWithinQuota`); the cap never falls with age
  (`RampIsMonotonic`); the quota is exactly what the three caps leave
  (`QuotaKeepsEveryCap`); a cut withholds the last three sends (`GateWithholds`);
  retries back off and end after seven (`RetriesBackOff`); `classify_isp` looks
  at two labels (`LastTwoLabelsDecide`, `CoUkIsOther`).

Only model-checked: liveness (`SettlesOrStrands`, `CountedBlockQuarantines`,
`DeliverReturns`, `HandlersReturn`), which is out of the prover's reach, as is
anything about ENABLED. Of three of them the well-founded half is proved, for
every value of the constants: `WorkRunsDown`, `CallRunsDown` and
`HandlersRunDown` say that the steps left are a number that only falls. No
invariant is left to TLC alone, and no module declares a RECURSIVE operator.

## Not modelled, and what could follow

* The composition of queue, routing, gate and monitor. Two hazards wait for it:
  the least-used IP is chosen by delivered mail, so that a burst is bound to one
  IP (`queue.rs` 45), and `WORKER_CONCURRENCY` limits one claim, not the tasks
  alive (`queue.rs` 143). Each part is modelled with the others as free choices,
  so that its safety properties carry over to the composition.
* The three legacy variables of `config.rs` that give an address a name of its
  own; DNS records without a variable part (MX, DMARC, MTA-STS, TLSRPT); the
  encoding of DKIM keys and of messages; the console page and the handlers that
  only read; logging.
* The installer and deployment scripts; their restarts are `Restart`.
* PostgreSQL is taken to execute each statement atomically, and the clock not to
  run backwards.
