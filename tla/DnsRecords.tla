------------------------------ MODULE DnsRecords ------------------------------
(***************************************************************************)
(* src/src/dns_records.rs: the records that the console tells the          *)
(* administrator to publish.  Of the bundle, what changes from one call to *)
(* another: the A records and the DKIM key.  SPF and the PTR checklist     *)
(* list every row of the table, like the A records; they are left out.     *)
(* Addresses are IPv4, as install.sh finds them: the record of any other   *)
(* would be of type A all the same.                                        *)
(***************************************************************************)
EXTENDS Pools

\* The host that people's mail goes to: the first row that is transactional,
\* or the first of all; the order of the rows is unspecified.
Inbound(table) ==
  LET transactional == {i \in DOMAIN table : table[i].role = "transactional"}
  IN  IF transactional # {} THEN transactional ELSE DOMAIN table

\* Names and the addresses of their A records.
ARecords(table, inbound) ==
  {<<mail_hostname, inbound>>} \cup {<<table[i].hostname, i>> : i \in DOMAIN table}

\* What generate_dns may give for a table and a DKIM key, 0 for none.
generate_dns(table, key) ==
  {[a |-> ARecords(table, i), dkim |-> key] : i \in Inbound(table)}
=============================================================================
