------------------------------- MODULE Convert -------------------------------
(***************************************************************************)
(* p4runtime_lib/convert.py: a value of a table entry as the bytes of a    *)
(* P4Runtime message.  Bytes are numbers, byte strings sequences of them.  *)
(* IPv6 is left out: no P4 program of the repository has such a field.     *)
(***************************************************************************)
EXTENDS Integers, Sequences

Byte == 0 .. 255

\* The values a plugin or a YAML file gives: a number, a MAC address, an IPv4
\* address (three digits for an octet pass the pattern), any other string.
Number(n) == [kind |-> "number", number |-> n]
MacAddress(octets) == [kind |-> "mac", octets |-> octets]
IPv4Address(octets) == [kind |-> "ipv4", octets |-> octets]
Text == [kind |-> "text"]

\* 2 ** n, by recursion: the provers know no law of TLA+'s own power.
Pow2[n \in Nat] == IF n = 0 THEN 1 ELSE 2 * Pow2[n - 1]

bitwidthToBytes(bitwidth) == (bitwidth + 7) \div 8

\* What encoding raises: the range checks, inet_aton, the assertion on the
\* length.  It is no grpc.RpcError.
Raises == << >>

Fits(number, bitwidth) ==
    number >= - Pow2[bitwidth - 1] /\ number < Pow2[bitwidth]

\* Big-endian, padded with zeros to whole bytes.
bytesOf(number, len) ==
    [i \in 1 .. len |-> (number \div Pow2[8 * (len - i)]) % 256]

\* Faulty variant: the sign is not checked against the width.
encodeNum_AnySign(number, bitwidth) ==
    IF number >= Pow2[bitwidth] THEN Raises
    ELSE LET len == bitwidthToBytes(bitwidth)
         IN  bytesOf(IF number < 0 THEN Pow2[8 * len] + number ELSE number, len)

\* Two's complement in bitwidth bits.
encodeNum(number, bitwidth) ==
    IF ~ Fits(number, bitwidth) THEN Raises
    ELSE bytesOf(IF number < 0 THEN Pow2[bitwidth] + number ELSE number,
                 bitwidthToBytes(bitwidth))

decodeNum(bytes) ==
    LET value[i \in 0 .. Len(bytes)] ==
          IF i = 0 THEN 0 ELSE 256 * value[i - 1] + bytes[i]
    IN  value[Len(bytes)]

\* A string that is no address is passed on as it is, and the protobuf field
\* refuses what is not bytes.
encode(x, bitwidth) ==
    CASE x.kind = "number" -> encodeNum(x.number, bitwidth)
      [] x.kind = "text" -> Raises
      [] OTHER -> IF /\ \A i \in DOMAIN x.octets : x.octets[i] \in Byte
                     /\ Len(x.octets) = bitwidthToBytes(bitwidth)
                  THEN x.octets ELSE Raises

=============================================================================
