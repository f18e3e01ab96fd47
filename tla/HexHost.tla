------------------------------ MODULE HexHost ------------------------------
(***************************************************************************)
(* How a share name travels from buildChild to its Dial in                 *)
(* src/tailfs/tailfsimpl/remote_impl.go (113-131): the BaseURL puts        *)
(* hex.EncodeToString(name) in the host; http.Transport dials that host    *)
(* with the default port, "host:80"; Dial takes the host back with         *)
(* net.SplitHostPort and hex.DecodeString.  Strings are sequences of byte *)
(* values, as Go's strings are.                                            *)
(***************************************************************************)
EXTENDS Integers, Sequences

CONSTANT Names    \* the share names to try: byte sequences

VARIABLE name     \* the share name buildChild is given

Colon == 58
Digit(v) == IF v < 10 THEN 48 + v ELSE 87 + v      \* "0".."9", "a".."f"

(* hex.EncodeToString: two lower-case digits per byte, high nibble first. *)
RECURSIVE EncodeToString(_)
EncodeToString(b) ==
  IF b = <<>> THEN <<>>
  ELSE <<Digit(Head(b) \div 16), Digit(Head(b) % 16)>> \o EncodeToString(Tail(b))

(* The value of a hex digit of either case, -1 for any other byte.         *)
HexValue(c) ==
  CASE c \in 48..57  -> c - 48
    [] c \in 97..102 -> c - 87
    [] c \in 65..70  -> c - 55
    [] OTHER         -> -1

(* hex.DecodeString: an error on any non-hex byte or an odd length.       *)
DecodeString(s) ==
  IF Len(s) % 2 = 1 \/ \E i \in DOMAIN s : HexValue(s[i]) < 0
  THEN [ok |-> FALSE]
  ELSE [ok |-> TRUE,
        bytes |-> [k \in 1..Len(s) \div 2 |->
                     16 * HexValue(s[2*k - 1]) + HexValue(s[2*k])]]

(* net.SplitHostPort: the host is what precedes the last colon; it may   *)
(* hold no colon, and no "[" or "]" may appear.  The bracketed IPv6 form  *)
(* ("[" first) is left out: it is reported as an error here.               *)
SplitHostPort(s) ==
  LET colons == {i \in DOMAIN s : s[i] = Colon}
      bad(c) == \E i \in DOMAIN s : s[i] = c
  IN  IF colons = {} \/ bad(91) \/ bad(93) THEN [ok |-> FALSE]
      ELSE LET last == CHOOSE i \in colons : \A j \in colons : j =< i
               host == SubSeq(s, 1, last - 1)
           IN  IF Colon \in {host[i] : i \in DOMAIN host}
               THEN [ok |-> FALSE]
               ELSE [ok |-> TRUE, host |-> host]

(* Mutation: the share name itself put in the host, without the hex.      *)
BaseURLHostRaw(n) == n

(* buildChild (118): the host of the child's BaseURL.                     *)
BaseURLHost(n) == EncodeToString(n)

(* http.Transport (119-120) dials the URL's host with the default http    *)
(* port; it refuses a URL with an empty host before any Dial.              *)
DialAddr(host) == host \o <<Colon, 56, 48>>          \* host ":80"

(* The Dial of the child's Transport (120-131): the share name it looks  *)
(* up, or failure.                                                         *)
DialShareName(addr) ==
  LET hp == SplitHostPort(addr)
      d  == IF hp.ok THEN DecodeString(hp.host) ELSE [ok |-> FALSE]
  IN  IF d.ok THEN [ok |-> TRUE, name |-> d.bytes] ELSE [ok |-> FALSE]

Init == name \in Names
Next == UNCHANGED name
Spec == Init /\ [][Next]_name

-----------------------------------------------------------------------------
(* Spec 2(b): a request for a share reaches the Dial with an address from *)
(* which that same share name, and no other, is decoded, whatever bytes   *)
(* the name holds (an empty name gives an empty host, which http refuses). *)
DialRecoversShareName ==
  name # <<>> => DialShareName(DialAddr(BaseURLHost(name))) = [ok |-> TRUE, name |-> name]

=============================================================================
