------------------------- MODULE CgroupRenameProofs -------------------------
(***************************************************************************)
(* Proof that cgroup_create keeps the length of the cgroup name it        *)
(* anonymizes, for every alphabet, every prefix length and every name,    *)
(* provided no id is shorter than unique_prefix_.  A shorter id can make  *)
(* replace() append characters to the name.                               *)
(***************************************************************************)
EXTENDS CgroupRename, SequenceTheorems, WellFoundedInduction, TLAPS

(* A string of k characters is a sequence of length k.                     *)
LEMMA StringLen ==
  ASSUME NEW k \in Nat, NEW s \in [1 .. k -> Chars]
  PROVE  s \in Seq(Chars) /\ Len(s) = k
<1>1. s \in Seq(Chars)
  BY SeqDef
<1>2. DOMAIN s = 1 .. Len(s) /\ Len(s) \in Nat
  BY <1>1, LenProperties
<1>3. QED
  BY <1>1, <1>2

(* For a non-empty id at least as long as the prefix, id.substr(0, 6) has *)
(* exactly as many characters as unique_prefix_.                           *)
LEMMA HeadLen ==
  ASSUME NEW id \in Strings(IdLens \cup {0}), id # <<>>,
         NEW p \in Strings({Cut}),
         \A l \in IdLens : l >= Cut
  PROVE  Len(Head6(id)) = Len(p)
<1>1. Len(p) = Cut
  BY StringLen, CutAssumption DEF Strings
<1>2. PICK k \in IdLens \cup {0} : id \in [1 .. k -> Chars]
  BY DEF Strings
<1>3. Len(id) = k /\ id \in Seq(Chars)
  BY <1>2, StringLen, CutAssumption
<1>4. k # 0
  BY <1>2, <1>3, EmptySeq
<1>5. Cut <= Len(id)
  BY <1>3, <1>4
<1>6. Head6(id) = SubSeq(id, 1, Cut)
  BY <1>5, CutAssumption DEF Head6, Lesser
<1>7. Len(SubSeq(id, 1, Cut)) = Cut
  <2>1. \A i \in 1 .. Cut : id[i] \in Chars
    BY <1>2, <1>3, <1>5, CutAssumption
  <2>2. QED
    BY <2>1, SubSeqProperties, CutAssumption
<1>8. QED
  BY <1>1, <1>6, <1>7

(* The first match find() reports lies inside the name: a non-empty set  *)
(* of positions has a least element, since < is well founded on Nat.     *)
LEMMA FindInside ==
  ASSUME NEW s \in Seq(Chars), NEW n \in Seq(Chars), Find(s, n) # 0
  PROVE  /\ Find(s, n) \in 1 .. Len(s)
         /\ Find(s, n) + Len(n) - 1 <= Len(s)
<1> DEFINE At == {i \in 1 .. Len(s) : i + Len(n) - 1 <= Len(s)
                                     /\ SubSeq(s, i, i + Len(n) - 1) = n}
<1>1. At # {}
  BY DEF Find
<1>2. At \subseteq Nat
  OBVIOUS
<1>3. \E x \in At : \A y \in At : ~(<<y, x>> \in OpToRel(<, Nat))
  BY <1>1, <1>2, NatLessThanWellFounded, WFMin
<1>4. ASSUME NEW x \in Nat, NEW y \in Nat, y < x PROVE <<y, x>> \in OpToRel(<, Nat)
  BY <1>4, Zenon DEF OpToRel
<1>5. \E x \in At : \A y \in At : x <= y
  <2>1. PICK x \in At : \A y \in At : ~(<<y, x>> \in OpToRel(<, Nat))
    BY <1>3
  <2>2. ASSUME NEW y \in At PROVE x <= y
    <3>1. ~(y < x)
      BY <1>2, <1>4, <2>1, Zenon
    <3>2. QED
      BY <1>2, <3>1
  <2>3. QED
    BY <2>2
<1>6. Find(s, n) \in At
  BY <1>1, <1>5 DEF Find
<1>7. QED
  BY <1>6

(* replace(pos, k, r) with a match of k characters inside s and a         *)
(* replacement of k characters keeps the length of s.                      *)
LEMMA ReplaceLen ==
  ASSUME NEW s \in Seq(Chars), NEW k \in Nat, NEW r \in Seq(Chars),
         NEW pos \in 1 .. Len(s), pos + k - 1 <= Len(s), Len(r) = k
  PROVE  /\ Replace(s, pos, k, r) \in Seq(Chars)
         /\ Len(Replace(s, pos, k, r)) = Len(s)
<1>1. Lesser(k, Len(s) - pos + 1) = k
  BY DEF Lesser
<1>2. Replace(s, pos, k, r) = (SubSeq(s, 1, pos - 1) \o r) \o SubSeq(s, pos + k, Len(s))
  BY <1>1 DEF Replace
<1>3. SubSeq(s, 1, pos - 1) \in Seq(Chars) /\ Len(SubSeq(s, 1, pos - 1)) = pos - 1
  BY SubSeqProperties
<1>4. SubSeq(s, pos + k, Len(s)) \in Seq(Chars)
      /\ Len(SubSeq(s, pos + k, Len(s))) = Len(s) - (pos + k) + 1
  BY SubSeqProperties
<1>5. SubSeq(s, 1, pos - 1) \o r \in Seq(Chars)
      /\ Len(SubSeq(s, 1, pos - 1) \o r) = pos - 1 + k
  BY <1>3, ConcatProperties
<1>6. /\ (SubSeq(s, 1, pos - 1) \o r) \o SubSeq(s, pos + k, Len(s)) \in Seq(Chars)
      /\ Len((SubSeq(s, 1, pos - 1) \o r) \o SubSeq(s, pos + k, Len(s)))
           = Len(SubSeq(s, 1, pos - 1) \o r) + Len(SubSeq(s, pos + k, Len(s)))
  BY <1>4, <1>5, ConcatProperties
<1>7. Len((SubSeq(s, 1, pos - 1) \o r) \o SubSeq(s, pos + k, Len(s))) = Len(s)
  <2>1. \A la, lb \in Int : la = pos - 1 + k /\ lb = Len(s) - (pos + k) + 1 => la + lb = Len(s)
    OBVIOUS
  <2>2. Len(SubSeq(s, 1, pos - 1) \o r) \in Int /\ Len(SubSeq(s, pos + k, Len(s))) \in Int
    BY <1>4, <1>5
  <2>3. QED
    BY <1>4, <1>5, <1>6, <2>1, <2>2, Zenon
<1>8. QED
  BY <1>2, <1>6, <1>7, Zenon

(* Under that hypothesis one substitution of cgroup_create keeps the      *)
(* length of the name.                                                     *)
LEMMA RenameLen ==
  ASSUME NEW name \in Seq(Chars), NEW id \in Strings(IdLens \cup {0}),
         NEW p \in Strings({Cut}),
         \A l \in IdLens : l >= Cut
  PROVE  RenameId(name, id, p) \in Seq(Chars) /\ Len(RenameId(name, id, p)) = Len(name)
<1>1. CASE id = <<>>
  BY <1>1 DEF RenameId
<1>2. CASE id # <<>>
  <2> DEFINE n == Head6(id)
             idx == Find(name, n)
  <2>1. Len(n) = Len(p)
    BY <1>2, HeadLen
  <2>2. p \in Seq(Chars) /\ Len(p) = Cut
    BY StringLen, CutAssumption DEF Strings
  <2>3. n \in Seq(Chars)
    <3>1. PICK k \in IdLens \cup {0} : id \in [1 .. k -> Chars]
      BY DEF Strings
    <3>2. Len(id) = k /\ id \in Seq(Chars)
      BY <3>1, StringLen, CutAssumption
    <3>3. \A i \in 1 .. Lesser(Cut, Len(id)) : id[i] \in Chars
      BY <3>1, <3>2, CutAssumption DEF Lesser
    <3>4. QED
      BY <3>3, SubSeqProperties, CutAssumption DEF Head6, Lesser
  <2>4. CASE idx = 0
    BY <1>2, <2>4 DEF RenameId
  <2>5. CASE idx # 0
    <3>1. idx \in 1 .. Len(name) /\ idx + Len(n) - 1 <= Len(name)
      BY <2>3, <2>5, FindInside
    <3>2. RenameId(name, id, p) = Replace(name, idx, Len(p), p)
      BY <1>2, <2>5 DEF RenameId
    <3>3. QED
      BY <2>1, <2>2, <3>1, <3>2, ReplaceLen, CutAssumption
  <2>6. QED
    BY <2>4, <2>5
<1>3. QED
  BY <1>1, <1>2

-----------------------------------------------------------------------------
(* The run's states.                                                       *)

RInv ==
  /\ prefix \in Strings({Cut})
  /\ IsCall(call, prefix)

LEMMA RInvLength ==
  ASSUME \A l \in IdLens : l >= Cut
  PROVE  RInv => NameLengthKept
<1> SUFFICES ASSUME RInv PROVE NameLengthKept
  OBVIOUS
<1>1. PICK n \in Strings(0 .. NameLen), v \in BOOLEAN,
           pd \in Strings(IdLens \cup {0}), c \in Strings(IdLens \cup {0}) :
        call = CgroupCall(n, v, pd, c, prefix)
  BY DEF RInv, IsCall
<1>2. n \in Seq(Chars)
  BY StringLen, CutAssumption DEF Strings
<1>3. RenameId(n, pd, prefix) \in Seq(Chars) /\ Len(RenameId(n, pd, prefix)) = Len(n)
  BY <1>2, RenameLen DEF RInv
<1>4. Len(RenameId(RenameId(n, pd, prefix), c, prefix)) = Len(n)
  BY <1>3, RenameLen DEF RInv
<1>5. QED
  BY <1>1, <1>4 DEF NameLengthKept, CgroupCall, AnonymizeCgroupName

(* For every alphabet, prefix length and name length, and every set of id *)
(* lengths none of which is shorter than unique_prefix_: every name        *)
(* cgroup_create writes is as long as the recorded one, so the copy into  *)
(* name[256] takes as many bytes as the recording holds.                   *)
THEOREM NameLengthKeptInvariant ==
  ASSUME \A l \in IdLens : l >= Cut
  PROVE  RSpec => []NameLengthKept
<1>1. RInit => RInv
  BY DEF RInit, RInv
<1>2. RInv /\ [CgroupCreate]_rvars => RInv'
  BY DEF RInv, CgroupCreate, rvars, IsCall
<1>3. RInv => NameLengthKept
  BY RInvLength
<1>4. QED
  BY <1>1, <1>2, <1>3, PTL DEF RSpec
====
