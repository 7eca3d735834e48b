------------------------------ MODULE Dispatch ------------------------------
(***************************************************************************)
(* A message and its IP from enqueue_raw to delivery.  The IP is chosen    *)
(* when the message enters the queue and kept in messages.ip_id; it is     *)
(* used when the message is delivered, minutes or days later.  In between  *)
(* refresh_health and the administrator change the IP's health, and a      *)
(* restart with other addresses changes its role and its EHLO name         *)
(* (db::seed).  The administrator publishes the DNS records that the       *)
(* console shows (admin_dns).                                              *)
(*                                                                         *)
(* An operator named Faulty_X is X with a plausible mistake; no            *)
(* specification uses it.                                                  *)
(***************************************************************************)
EXTENDS Routing, DnsRecords, FiniteSets

Names == PoolNames \cup {mail_hostname}

CONSTANTS
  Msgs,       \* messages
  StreamOf,   \* [Msgs -> Streams]
  Addresses,  \* of the host, sooner or later
  Configs,    \* sequences that assign_roles or assign_explicit may return
  MaxSends,   \* bound: deliveries by one IP within a day
  MaxSeeds    \* bound: restarts

ASSUME DispatchAssumption ==
  /\ IsFiniteSet(Msgs)
  /\ StreamOf \in [Msgs -> Streams]
  /\ 0 \notin Addresses /\ Configs # {}
  /\ \A c \in Configs : c \in Seq([address : Addresses, hostname : Names, role : Roles]) /\ c # <<>>
  /\ MaxSends \in Nat /\ MaxSeeds \in Nat

VARIABLES
  table,   \* the ips table: addresses to rows
  usage,   \* sent_today_by_ip
  phase,   \* of a message, see Phases
  loaded,  \* the table as the message's enqueue_raw call loaded it
  via,     \* messages.ip_id; 0 before it is chosen
  seeds,   \* restarts so far, at most MaxSeeds
  key,     \* number of the DKIM key in the table domains
  signed,  \* the key a message is signed with; 0 for none
  zone     \* the records that are published, none at first

mailVars == <<table, usage, phase, loaded, via, seeds>>
nameVars == <<key, signed, zone>>
vars == <<mailVars, nameVars>>

\* "stranded": left in `sending` by a restart.
Phases == {"absent", "choosing", "queued", "sending", "stranded", "done"}

Row == [role : Roles, hostname : Names, health : Healths]
IsTable(t) == DOMAIN t \subseteq Addresses /\ t \in [DOMAIN t -> Row]

NoTable == <<>>
NoZone == [a |-> {}, dkim |-> 0]

TypeOK ==
  /\ IsTable(table)
  /\ usage \in [Addresses -> 0 .. MaxSends]
  /\ phase \in [Msgs -> Phases]
  /\ DOMAIN loaded = Msgs /\ \A m \in Msgs : IsTable(loaded[m])
  /\ via \in [Msgs -> DOMAIN table \cup {0}]    \* ip_id REFERENCES ips(id)
  /\ seeds \in 0 .. MaxSeeds
  /\ key \in Nat /\ signed \in [Msgs -> 0 .. key]
  /\ zone.a \subseteq Names \X DOMAIN table /\ zone.dkim \in 0 .. key

Configured(cfg) == {cfg[i].address : i \in DOMAIN cfg}

\* The entry of address a that is written last.
EntryOf(cfg, a) ==
  cfg[CHOOSE i \in DOMAIN cfg :
        cfg[i].address = a /\ \A k \in DOMAIN cfg : cfg[k].address = a => k <= i]

\* The rows are made anew from the configuration.
Faulty_Seed(old, cfg) ==
  [a \in Configured(cfg) |->
     [role     |-> EntryOf(cfg, a).role,
      hostname |-> EntryOf(cfg, a).hostname,
      health   |-> IF a \in DOMAIN old THEN old[a].health ELSE "warmup"]]

\* seed: a row that is there keeps its health and takes the role and the
\* name of its place; a row that is no longer configured stays as it is.
Seed(old, cfg) ==
  [a \in DOMAIN old \cup Configured(cfg) |->
     [role     |-> IF a \in Configured(cfg) THEN EntryOf(cfg, a).role ELSE old[a].role,
      hostname |-> IF a \in Configured(cfg) THEN EntryOf(cfg, a).hostname ELSE old[a].hostname,
      health   |-> IF a \in DOMAIN old THEN old[a].health ELSE "warmup"]]

\* A key for each start.
Faulty_seed_domain(k) == k + 1

\* seed_domain: a key is made for a domain without one.
seed_domain(k) == IF k = 0 THEN 1 ELSE k

Init ==
  /\ \E cfg \in Configs : table = Seed(NoTable, cfg)
  /\ usage = [a \in Addresses |-> 0]
  /\ phase = [m \in Msgs |-> "absent"]
  /\ loaded = [m \in Msgs |-> NoTable]
  /\ via = [m \in Msgs |-> 0]
  /\ seeds = 0
  /\ key = seed_domain(0)
  /\ signed = [m \in Msgs |-> 0]
  /\ zone = NoZone

-----------------------------------------------------------------------------
(* enqueue_raw *)

\* load_ips
Load(m) ==
  /\ phase[m] = "absent"
  /\ phase' = [phase EXCEPT ![m] = "choosing"]
  /\ loaded' = [loaded EXCEPT ![m] = table]
  /\ UNCHANGED <<table, usage, via, seeds, nameVars>>

\* sent_today_by_ip, the choice, sign_dkim, which may fail, and the INSERT.
Enqueue(m) ==
  /\ phase[m] = "choosing"
  /\ \E i \in Choices(StreamOf[m], loaded[m], usage) : via' = [via EXCEPT ![m] = i]
  /\ phase' = [phase EXCEPT ![m] = "queued"]
  /\ loaded' = [loaded EXCEPT ![m] = <<>>]
  /\ \E k \in {0, key} : signed' = [signed EXCEPT ![m] = k]
  /\ UNCHANGED <<table, usage, seeds, key, zone>>

\* No candidate, or a later failure: the caller gets an error.
Refuse(m) ==
  /\ phase[m] = "choosing"
  /\ phase' = [phase EXCEPT ![m] = "absent"]
  /\ loaded' = [loaded EXCEPT ![m] = <<>>]
  /\ UNCHANGED <<table, usage, via, seeds, nameVars>>

-----------------------------------------------------------------------------
(* drain_once and process_job *)

Claim(m) ==
  /\ phase[m] = "queued"
  /\ phase' = [phase EXCEPT ![m] = "sending"]
  /\ UNCHANGED <<table, usage, loaded, via, seeds, nameVars>>

\* process_job finds the row of job.ip_id whatever its role or health: rows
\* are never deleted, so pick_ip is never asked.  A deferred message goes
\* back to the queue and keeps its IP.
Deliver(m) ==
  /\ phase[m] = "sending"
  /\ usage[via[m]] < MaxSends
  /\ usage' = [usage EXCEPT ![via[m]] = @ + 1]
  /\ \E p \in {"done", "queued"} : phase' = [phase EXCEPT ![m] = p]
  /\ UNCHANGED <<table, loaded, via, seeds, nameVars>>

-----------------------------------------------------------------------------
(* What happens meanwhile *)

\* refresh_health or admin_set_health.
SetHealth(i, h) ==
  /\ table[i].health # h
  /\ table' = [table EXCEPT ![i].health = h]
  /\ UNCHANGED <<usage, phase, loaded, via, seeds, nameVars>>

\* Midnight: CURRENT_DATE has no counters yet.
NewDay ==
  /\ usage' = [a \in Addresses |-> 0]
  /\ UNCHANGED <<table, phase, loaded, via, seeds, nameVars>>

\* admin_dns, and the administrator follows it.  When the SELECT of the keys
\* fails, the bundle is the one of a server without keys (unwrap_or_default).
PublishDns ==
  /\ \E k \in {0, key} : zone' \in generate_dns(table, k)
  /\ UNCHANGED <<mailVars, key, signed>>

\* The process stops and connects again, with one configuration or another.
Restart(cfg) ==
  /\ seeds < MaxSeeds
  /\ seeds' = seeds + 1
  /\ table' = Seed(table, cfg)
  /\ key' = seed_domain(key)
  /\ phase' = [m \in Msgs |-> CASE phase[m] = "choosing" -> "absent"
                                [] phase[m] = "sending"  -> "stranded"
                                [] OTHER -> phase[m]]
  /\ loaded' = [m \in Msgs |-> NoTable]
  /\ UNCHANGED <<usage, via, signed, zone>>

Next ==
  \/ \E m \in Msgs : Load(m) \/ Enqueue(m) \/ Refuse(m) \/ Claim(m) \/ Deliver(m)
  \/ \E i \in DOMAIN table, h \in Healths : SetHealth(i, h)
  \/ NewDay \/ PublishDns
  \/ \E cfg \in Configs : Restart(cfg)

Spec == Init /\ [][Next]_vars

-----------------------------------------------------------------------------
(* Properties *)

(***************************************************************************)
(* "Marketing never uses a transactional IP when any marketing/canary IP   *)
(* exists", for as long as the roles given at start-up stand: whatever the *)
(* health of the pools was when a message was bound to its IP, and however *)
(* old the table was that the choice was made from.                        *)
(***************************************************************************)
PoolsApartUntilReseeded ==
  \A m \in Msgs :
    StreamOf[m] = "marketing" /\ via[m] # 0 /\ seeds = 0 /\ Isolated(table)
      => table[via[m]].role # "transactional"

(***************************************************************************)
(* A transactional or mailbox message is never turned away by routing      *)
(* while the table its call loaded has an IP out of quarantine; a          *)
(* marketing message is not while its own pools have one.                  *)
(***************************************************************************)
ServedWhileHealthy ==
  \A m \in Msgs : phase[m] = "choosing" =>
    LET usable == IF StreamOf[m] = "marketing" /\ Isolated(loaded[m])
                    THEN Healthy(loaded[m]) \ by_role(loaded[m], "transactional")
                    ELSE Healthy(loaded[m])
    IN  usable # {} => Choices(StreamOf[m], loaded[m], usage) # {}

(***************************************************************************)
(* README, "Marketing never shares a transactional IP when another pool    *)
(* exists": no marketing message leaves by one.                            *)
(***************************************************************************)
PoolsStayApart ==
  [][\A m \in Msgs :
       StreamOf[m] = "marketing" /\ phase[m] = "sending" /\ usage' # usage
         /\ phase'[m] # "sending" /\ Isolated(table)
           => table[via[m]].role # "transactional"]_vars

(***************************************************************************)
(* A message is signed when it is queued and checked when it arrives,      *)
(* restarts later: if a key is published, whenever that was, it is the one *)
(* that every signature is made with.                                      *)
(***************************************************************************)
SignaturesVerify ==
  zone.dkim # 0 => \A m \in Msgs : signed[m] \in {0, zone.dkim}
=============================================================================
