----------------------------- MODULE MCP4Session -----------------------------
(***************************************************************************)
(* Two switches, and entries at the edges of the fields of the P4          *)
(* programs: 9 bits of an egress port, 16 bits, one, addresses.            *)
(***************************************************************************)
EXTENDS P4Session

CONSTANTS d1, d2

OneByOne == <<d1, d2>>

Edges(w) == {- (2 ^ (w - 1)) - 1, - (2 ^ (w - 1)), -1, 0, 2 ^ w - 1, 2 ^ w}

Mac == MacAddress(<<0, 255, 1, 2, 3, 4>>)
Address == IPv4Address(<<10, 0, 1, 254>>)
NoAddress == IPv4Address(<<10, 0, 1, 256>>)

\* A route as in d2_firewall.yaml, every edge of every width alone, and one
\* bad field behind good ones.
SomeEntries ==
    {{Field("lpm", <<Address>>, 32), Field("param", <<Mac>>, 48),
      Field("param", <<Number(2)>>, 9)},
     {Field("exact", <<Mac>>, 48), Field("param", <<Text>>, 9)},
     {Field("exact", <<Mac>>, 48), Field("unknown", <<Number(2)>>, 9)},
     {Field("lpm", <<NoAddress>>, 32)},
     {Field("range", <<Number(1), Number(2 ^ 16 - 1)>>, 16)},
     {Field("ternary", <<Number(1), Number(2 ^ 16)>>, 16)}}
      \cup UNION {{{Field("exact", <<Number(n)>>, w)} : n \in Edges(w)} : w \in {1, 9, 16}}

=============================================================================
