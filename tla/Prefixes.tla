---- MODULE Prefixes ----
(***************************************************************************)
(* Addresses of Width bits, most significant first, and their prefixes     *)
(* (keys with a bit length, patricia.h).  An address of IPv6 is two words  *)
(* of Word bits, as in insert_range_v6; one of IPv4 has the same width     *)
(* here and is one word.                                                   *)
(***************************************************************************)
EXTENDS Integers, Sequences, FiniteSets

CONSTANT Word

ASSUME PrefixAssumption == Word \in Nat \ {0}

Width == 2 * Word

(* 1 << n *)
Pow2[n \in Nat] == IF n = 0 THEN 1 ELSE 2 * Pow2[n - 1]

Addresses == 0 .. Pow2[Width] - 1

(* BIT_TEST *)
Bit(a, i) == (a \div Pow2[Width - 1 - i]) % 2

(* apply_cidr_mask: the host bits are cleared. *)
Mask(a, len) == (a \div Pow2[Width - len]) * Pow2[Width - len]

Prefix(a, len) == [addr |-> Mask(a, len), len |-> len]
Covers(p, a) == Mask(a, p.len) = p.addr
AddressesOf(p) == p.addr .. p.addr + Pow2[Width - p.len] - 1

LowestBit(x) == CHOOSE b \in {Pow2[i] : i \in 0 .. Width} : x % b = 0 /\ x % (2 * b) # 0
Log2(x) == CHOOSE i \in 0 .. Width : Pow2[i] <= x /\ x < Pow2[i + 1]

(* --- one iteration of each range loop: the block at s, of s .. e -------- *)

(* insert_range_v4; last: the block reaches e. *)
Block4(s, e) ==
  LET span == e - s + 1
      aligned == IF s = 0 THEN Pow2[Width] ELSE LowestBit(s)
      block == IF aligned > span THEN Pow2[Log2(span)] ELSE aligned
  IN  [len |-> Width - Log2(block), last |-> span = block, next |-> (s + block) % Pow2[Width]]

(* insert_range_v6: all arithmetic is on pairs of words that wrap.         *)
M == Pow2[Word]
Hi(x) == x \div M
Lo(x) == x % M
Wide(h, l) == (h % M) * M + (l % M)

Minus(x, y) == Wide(Hi(x) - Hi(y) - (IF Lo(x) < Lo(y) THEN 1 ELSE 0), Lo(x) - Lo(y))
PlusLow(x, y) == Wide(Hi(x) + Hi(y), Lo(x) + Lo(y))   \* without the carry
Plus(x, y) ==
  LET l == (Lo(x) + Lo(y)) % M IN Wide(Hi(x) + Hi(y) + (IF l < Lo(x) THEN 1 ELSE 0), l)

Block6(s, e) ==
  LET diff == Minus(e, s)
      lowest == IF Lo(s) # 0 THEN Wide(0, LowestBit(Lo(s)))
                ELSE IF Hi(s) # 0 THEN Wide(LowestBit(Hi(s)), 0) ELSE 0
      low == IF Lo(lowest) # 0 THEN Wide(0, Lo(lowest) - 1)
             ELSE IF Hi(lowest) # 0 THEN Wide(Hi(lowest) - 1, M - 1) ELSE Wide(M - 1, M - 1)
      ones == {Pow2[i] - 1 : i \in 0 .. Width}
      mask == IF low > diff THEN CHOOSE m \in ones : m <= diff /\ 2 * m + 1 > diff ELSE low
      block == IF low <= diff THEN lowest
               ELSE IF Lo(mask) = M - 1 THEN Wide(Hi(mask) + 1, 0) ELSE Wide(Hi(mask), Lo(mask) + 1)
      shift == IF block <= 1 THEN 0 ELSE Log2(block)
  IN  [len |-> Width - shift, last |-> mask = diff, next |-> Plus(s, block)]

====
