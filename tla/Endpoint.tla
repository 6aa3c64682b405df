------------------------------ MODULE Endpoint ------------------------------
(***************************************************************************)
(* The address of a computer as it is typed (launcher/src/endpoint.rs):    *)
(* what is taken for the host and what for the port, and what is refused.  *)
(* The text grows by one token at a time and is parsed after each.         *)
(*                                                                         *)
(* A token is one character, except "65536"; "x" stands for the letters    *)
(* that are no hexadecimal digits. Lengths above 63 are left out.          *)
(***************************************************************************)
EXTENDS Integers, Sequences, SequencesExt, FiniteSetsExt

CONSTANTS
  Lines,       (* texts that are on the line to begin with                  *)
  Tokens,      (* tokens typed                                              *)
  MaxTyped     (* bound: tokens typed                                       *)

ASSUME AddressAssumption == Lines \subseteq Seq(Tokens) /\ MaxTyped \in Nat

VARIABLES
  input,       (* the line, a sequence of tokens                            *)
  parsed,      (* what parse returns: at most one [host, port]              *)
  typed        (* bound: tokens typed so far                                *)

addressVars == <<input, parsed, typed>>

Digits == {"0", "1", "65536"}
Alnum == Digits \cup {"x"}
DEFAULT_PORT == 3389
Ports == 1 .. 65535

Only(s, tokens) == Range(s) \subseteq tokens
Occurrences(s, token) == {n \in DOMAIN s : s[n] = token}
From(s, n) == SubSeq(s, n, Len(s))
Before(s, n) == SubSeq(s, 1, n - 1)

(* u16 and u8 parsing: the value of a digit string, however long.          *)
Number(s) ==
  FoldLeft(LAMBDA v, d : CASE d = "0" -> 10 * v [] d = "1" -> 10 * v + 1 [] OTHER -> 65536, 0, s)

(* The parts of a text between the tokens `mark`.                          *)
Parts(s, mark) ==
  LET ends == Occurrences(s, mark) \cup {Len(s) + 1}
  IN  {SubSeq(s, Max({0} \cup {m \in ends : m < n}) + 1, n - 1) : n \in ends}
-----------------------------------------------------------------------------
(* Ipv4Addr::parse and Ipv6Addr::parse, with fewer than eight groups.      *)
Ipv4Addr(s) ==
  /\ Only(s, Digits \cup {"."}) /\ Cardinality(Occurrences(s, ".")) = 3
  /\ \A part \in Parts(s, ".") :
       part # <<>> /\ Number(part) <= 255 /\ (part[1] = "0" => Len(part) = 1)

Groups(s) ==
  s = <<>> \/ \A group \in Parts(s, ":") : Len(group) \in 1 .. 4 /\ Only(group, {"0", "1"})
Ipv6Addr(s) ==
  \E n \in DOMAIN s :
    /\ n < Len(s) /\ s[n] = ":" /\ s[n + 1] = ":"
    /\ Groups(Before(s, n)) /\ Groups(From(s, n + 2))

(* ipv6: an address and, behind the first percent sign, its zone.          *)
Ipv6(s) ==
  IF "%" \notin Range(s) THEN Ipv6Addr(s)
  ELSE LET n == Min(Occurrences(s, "%"))
           zone == From(s, n + 1)
       IN  zone # <<>> /\ Only(zone, Alnum \cup {"-", "."}) /\ Ipv6Addr(Before(s, n))

HostLabel(s) == s # <<>> /\ {s[1], s[Len(s)]} \subseteq Alnum /\ Only(s, Alnum \cup {"-"})

(* hostname: digits with a dot are an IPv4 address or nothing; one dot may *)
(* end a name.                                                             *)
Hostname(s) ==
  /\ s # <<>>
  /\ IF "." \in Range(s) /\ Only(s, Digits \cup {"."}) THEN Ipv4Addr(s)
     ELSE \A label \in Parts(IF s[Len(s)] = "." THEN Front(s) ELSE s, ".") : HostLabel(label)

(* Seeded fault: the port is whatever the number parser takes.             *)
PortedSigned(host, port) ==
  LET number == Number(IF port # <<>> /\ port[1] = "+" THEN Tail(port) ELSE port)
  IN  IF Only(port, Digits \cup {"+"}) /\ number \in Ports THEN {[host |-> host, port |-> number]} ELSE {}

Ported(host, port) ==
  IF port # <<>> /\ Only(port, Digits) /\ Number(port) \in Ports
  THEN {[host |-> host, port |-> Number(port)]} ELSE {}

Unported(host) == {[host |-> host, port |-> DEFAULT_PORT]}

Trimmed(s) ==
  LET solid == {n \in DOMAIN s : s[n] # " "}
  IN  IF solid = {} THEN <<>> ELSE SubSeq(s, Min(solid), Max(solid))

(* parse: an address in brackets,                                          *)
ParseBracketed(s) ==
  IF "]" \notin Range(s) THEN {}
  ELSE LET end == Min(Occurrences(s, "]"))
           host == SubSeq(s, 2, end - 1)
           after == From(s, end + 1)
       IN  IF ~Ipv6(host) THEN {}
           ELSE IF after = <<>> THEN Unported(host)
           ELSE IF after[1] = ":" THEN Ported(host, Tail(after)) ELSE {}

(* or a name, with or without a port.                                      *)
ParseNamed(s) ==
  IF Hostname(s) THEN Unported(s)
  ELSE IF Occurrences(s, ":") = {} THEN {}
  ELSE LET colon == Min(Occurrences(s, ":"))
       IN  IF Hostname(Before(s, colon)) THEN Ported(Before(s, colon), From(s, colon + 1)) ELSE {}

ParseTrimmed(s) ==
  IF s = <<>> \/ Range(s) \cap {" ", "/"} # {} THEN {}
  ELSE IF s[1] = "[" THEN ParseBracketed(s)
  ELSE IF Cardinality(Occurrences(s, ":")) > 1 THEN (IF Ipv6(s) THEN Unported(s) ELSE {})
  ELSE ParseNamed(s)

Parse(line) == ParseTrimmed(Trimmed(line))
-----------------------------------------------------------------------------
AddressInit == input \in Lines /\ typed = 0 /\ parsed = Parse(input)

Type(token) ==
  /\ typed < MaxTyped /\ typed' = typed + 1
  /\ input' = Append(input, token) /\ parsed' = Parse(input')

AddressNext == \E token \in Tokens : Type(token)
AddressSpec == AddressInit /\ [][AddressNext]_addressVars
-----------------------------------------------------------------------------
(* The ways to write an address, independent of the order in which parse   *)
(* looks for them.                                                         *)
Written(host, digits) ==
  IF digits = <<>>
  THEN (IF Ipv6(host) THEN {host, <<"[">> \o host \o <<"]">>} ELSE {})
         \cup (IF Hostname(host) THEN {host} ELSE {})
  ELSE (IF Ipv6(host) THEN {<<"[">> \o host \o <<"]", ":">> \o digits} ELSE {})
         \cup (IF Hostname(host) THEN {host \o <<":">> \o digits} ELSE {})

Meanings(s) ==
  LET hosts == {SubSeq(s, first, last) : first \in {1, 2}, last \in DOMAIN s}
      ports == {digits \in {From(s, n) : n \in DOMAIN s} : Only(digits, Digits) /\ Number(digits) \in Ports}
  IN  {[host |-> host, port |-> DEFAULT_PORT] : host \in {h \in hosts : s \in Written(h, <<>>)}}
        \cup UNION {{[host |-> host, port |-> Number(digits)] : host \in {h \in hosts : s \in Written(h, digits)}} :
                      digits \in ports}

(* No text is taken for another computer or port than it names, refused    *)
(* though it names one, or accepted with something in front or behind: the *)
(* colons of an address are told from the one of a port, a sign is no part *)
(* of a number, and no text has two meanings.                              *)
AddressRight == parsed = Meanings(Trimmed(input)) /\ Cardinality(parsed) <= 1
=============================================================================
