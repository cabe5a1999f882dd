---------------------------- MODULE Concentration ------------------------------
(***************************************************************************)
(* The pure part of pkg/metrics and pkg/asn: how concentrated the voting   *)
(* power is, and where the validators are hosted.  A power vector is the   *)
(* sequence of the powers of the validators that CometBFT reports.  Ints   *)
(* are two's complement of the width whose largest value is MaxInt.  A     *)
(* float is the pair of its numerator and denominator.                     *)
(***************************************************************************)
EXTENDS Integers, Sequences, FiniteSets, FiniteSetsExt, SequencesExt

CONSTANTS MaxInt, NULL

\* int64 arithmetic.
Int64(x) == ((x + MaxInt + 1) % (2 * (MaxInt + 1))) - (MaxInt + 1)

Total(s) == FoldSeq(LAMBDA x, acc : Int64(acc + x), 0, s)
Prefix(s, n) == SubSeq(s, 1, n)
FirstOf(s, n) == Prefix(s, Min({n, Len(s)}))

\* The elements of K in the order of before, a set of pairs (sort.Slice).
Nth(K, before, n) == CHOOSE x \in K : Cardinality({y \in K : <<y, x>> \in before}) = n - 1
InOrder(K, before) == [n \in 1..Cardinality(K) |-> Nth(K, before, n)]

\* A power vector, sorted by power and then by place.
Greater(p) == {ij \in (DOMAIN p) \X (DOMAIN p) :
                 \/ p[ij[1]] > p[ij[2]]
                 \/ p[ij[1]] = p[ij[2]] /\ ij[1] < ij[2]}
Smaller(p) == {ij \in (DOMAIN p) \X (DOMAIN p) :
                 \/ p[ij[1]] < p[ij[2]]
                 \/ p[ij[1]] = p[ij[2]] /\ ij[1] < ij[2]}
Arrange(p, before) == [n \in 1..Len(p) |-> p[InOrder(DOMAIN p, before)[n]]]
Descending(p) == Arrange(p, Greater(p))
Ascending(p)  == Arrange(p, Smaller(p))

SumOf(p, S) == MapThenSumSet(LAMBDA i : p[i], S)

\* i of the first prefix with three times its power above the bound, 0 when
\* there is none.
FirstAbove(s, bound) ==
  LET ns == {n \in 1..Len(s) : Int64(Total(Prefix(s, n)) * 3) > bound}
  IN  IF ns = {} THEN 0 ELSE Min(ns)

\* Mutant of nakamoto: a third is enough.
nakamotoAtLeast(p) ==
  LET s == Descending(p)
      total == Total(s)
  IN  <<FirstAbove(s, total - 1), FirstAbove(s, Int64(total * 2) - 1)>>

\* n33 is only set before the loop breaks, at n66.
nakamoto(p) ==
  LET s     == Descending(p)
      total == Total(s)
      n33   == FirstAbove(s, total)
      n66   == FirstAbove(s, Int64(total * 2))
  IN  <<IF n66 # 0 /\ n33 > n66 THEN 0 ELSE n33, n66>>

\* G = 2 weighted / (n sum) - (n + 1) / n
gini(p) ==
  LET n        == Len(p)
      s        == Ascending(p)
      weighted == Total([i \in 1..n |-> Int64(i * s[i])])
  IN  IF n = 0 \/ Total(s) = 0 THEN <<0, 1>>
      ELSE <<2 * weighted - (n + 1) * Total(s), n * Total(s)>>

topNShare(p, topN) ==
  LET s == Descending(p)
  IN  IF Total(s) = 0 THEN <<0, 1>> ELSE <<100 * Total(FirstOf(s, topN)), Total(s)>>

--------------------------------------------------------------------------------
(* The ASN dataset: a sequence of lines [start, end, asn], or NULL for a   *)
(* line that is skipped as malformed.                                      *)

\* Mutant of Load: the lines stay in the file's order.
LoadUnsorted(lines) == SelectSeq(lines, LAMBDA l : l # NULL)

\* The well-formed lines by their start.
Load(lines) ==
  LET kept   == {i \in DOMAIN lines : lines[i] # NULL}
      before == {p \in kept \X kept :
                   \/ lines[p[1]].start < lines[p[2]].start
                   \/ lines[p[1]].start = lines[p[2]].start /\ p[1] < p[2]}
  IN  [n \in 1..Cardinality(kept) |-> lines[InOrder(kept, before)[n]]]

\* sort.Search: the number of ranges before the first that starts after addr, found
\* by bisection.
Search(ranges, addr) ==
  LET n == Len(ranges)
      Bisect[ij \in (0..n) \X (0..n)] ==
        LET h == (ij[1] + ij[2]) \div 2
        IN  IF ij[1] >= ij[2] THEN ij[1]
            ELSE IF ranges[h + 1].start > addr THEN Bisect[<<ij[1], h>>]
                 ELSE Bisect[<<h + 1, ij[2]>>]
  IN  Bisect[<<0, n>>]

NotFound == [asn |-> 0, found |-> FALSE]

\* A NULL address is one that is not IPv4.
Lookup(ranges, addr) ==
  LET i == Search(ranges, addr)
  IN  IF addr = NULL THEN NotFound
      ELSE IF i = 0 THEN NotFound
      ELSE IF addr > ranges[i].end THEN NotFound ELSE [asn |-> ranges[i].asn, found |-> TRUE]

\* The address of the last known RPC of each validator; an RPC is
\* [validator, ip], each NULL when empty.
buildAddrToIPMap(rpcs) ==
  LET linked == {i \in DOMAIN rpcs : rpcs[i].validator # NULL /\ rpcs[i].ip # NULL}
  IN  [v \in {rpcs[i].validator : i \in linked} |->
         rpcs[Max({i \in linked : rpcs[i].validator = v})].ip]

\* enrichASNRows: the ASN of each validator's row, which stays 0 where there is no
\* address or no range: the same as AS number 0 of the dataset's unrouted space.
enrichASNRows(validators, rpcs, ranges) ==
  LET addrToIP == buildAddrToIPMap(rpcs)
  IN  [v \in validators |->
         IF v \notin DOMAIN addrToIP THEN 0
         ELSE IF Lookup(ranges, addrToIP[v]).found THEN Lookup(ranges, addrToIP[v]).asn ELSE 0]

\* The join of enrichASN: the AS numbers of the validators it does not skip.
Located(validators, rpcs, ranges) ==
  LET addrToIP == buildAddrToIPMap(rpcs)
      answer == [v \in validators \cap DOMAIN addrToIP |-> Lookup(ranges, addrToIP[v])]
  IN  [v \in {x \in DOMAIN answer : answer[x].found} |-> answer[v].asn]

\* asnMap: the validators and the power behind each AS number.
Shares(power, asn) ==
  {[asn |-> n,
    validators |-> Cardinality({v \in DOMAIN asn : asn[v] = n}),
    power |-> SumOf(power, {v \in DOMAIN asn : asn[v] = n})]
   : n \in {asn[v] : v \in DOMAIN asn}}

\* More power first, then the lower AS number.
ByPower(shares) ==
  {p \in shares \X shares : \/ p[1].power > p[2].power
                            \/ p[1].power = p[2].power /\ p[1].asn < p[2].asn}

\* enrichASN: the first shares of the hosting panel.
enrichASN(power, rpcs, ranges, topASNCount) ==
  LET shares == Shares(power, Located(DOMAIN power, rpcs, ranges))
  IN  FirstOf(InOrder(shares, ByPower(shares)), topASNCount)
================================================================================
