---------------------------- MODULE CgroupRename ----------------------------
(***************************************************************************)
(* The substitution cgroup_create applies to a cgroup name                 *)
(* (src/tools/kernel-collector-simulator/ingest_json_reader.cc): when      *)
(* CGroupParser finds a pod id or a container id in the name, the first    *)
(* occurrence of the id's first six characters is overwritten with        *)
(* unique_prefix_ by std::string::replace(idx, unique_prefix_.size(),      *)
(* unique_prefix_).  Strings are sequences of characters.                  *)
(***************************************************************************)
EXTENDS Naturals, Sequences

CONSTANTS
  Chars,    \* the characters names and ids are made of
  Cut,      \* the length of substr(0, 6) and of unique_prefix_ (6)
  NameLen,  \* the longest cgroup name considered
  IdLens    \* the lengths of the non-empty pod and container ids considered

ASSUME CutAssumption ==
  /\ Cut \in Nat \ {0}
  /\ NameLen \in Nat
  /\ IdLens \subseteq Nat \ {0}

(* The smaller of two numbers.                                             *)
Lesser(a, b) == IF a < b THEN a ELSE b

(* id.substr(0, 6).                                                        *)
Head6(id) == SubSeq(id, 1, Lesser(Cut, Len(id)))

(* s.find(n): the first position where n occurs, or 0 for npos.           *)
Find(s, n) ==
  LET At == {i \in 1 .. Len(s) : i + Len(n) - 1 <= Len(s)
                                 /\ SubSeq(s, i, i + Len(n) - 1) = n}
  IN IF At = {} THEN 0 ELSE CHOOSE i \in At : \A j \in At : i <= j

(* s.replace(pos, count, r): count is cut to what is left of s.            *)
Replace(s, pos, count, r) ==
  SubSeq(s, 1, pos - 1) \o r \o SubSeq(s, pos + Lesser(count, Len(s) - pos + 1), Len(s))

(* Mutation: the replacement starts one character after the match.         *)
RenameIdLate(name, id, prefix) ==
  IF id = <<>> THEN name
  ELSE LET idx == Find(name, Head6(id))
       IN IF idx = 0 THEN name ELSE Replace(name, idx + 1, Len(prefix), prefix)

(* One of the two substitutions: nothing for an empty id or when the id's *)
(* first six characters do not occur; otherwise the occurrence, and as    *)
(* many characters as unique_prefix_ has, become unique_prefix_.          *)
RenameId(name, id, prefix) ==
  IF id = <<>> THEN name
  ELSE LET idx == Find(name, Head6(id))
       IN IF idx = 0 THEN name ELSE Replace(name, idx, Len(prefix), prefix)

(* cgroup_create: for a valid parse, the pod id, then the container id.  *)
AnonymizeCgroupName(name, valid, podId, containerId, prefix) ==
  IF valid THEN RenameId(RenameId(name, podId, prefix), containerId, prefix)
           ELSE name

-----------------------------------------------------------------------------
(* The spec's substitution (section 4.2): the occurrence of the id, or of *)
(* its short prefix, is replaced by the session prefix; nothing else of   *)
(* the name changes.                                                       *)
SpecRenameId(name, id, prefix) ==
  IF id = <<>> THEN name
  ELSE LET n == Head6(id)
           idx == Find(name, n)
       IN IF idx = 0 THEN name ELSE Replace(name, idx, Len(n), prefix)

(* Strings of the given lengths.                                          *)
Strings(lens) == UNION {[1 .. k -> Chars] : k \in lens}

-----------------------------------------------------------------------------
(* A run of cgroup_create calls: unique_prefix_ is drawn once by the      *)
(* constructor; each call takes a cgroup name and what CGroupParser found *)
(* in it.                                                                  *)

VARIABLES
  prefix,  \* IngestJsonReader::unique_prefix_
  call     \* the last cgroup_create: its inputs and the name it writes

rvars == <<prefix, call>>

(* The record of one cgroup_create call: what CGroupParser found in name *)
(* n and the name written with session prefix p.                          *)
CgroupCall(n, v, pd, c, p) ==
  [name |-> n, valid |-> v, pod |-> pd, cid |-> c,
   out |-> AnonymizeCgroupName(n, v, pd, c, p)]

(* r is some cgroup_create call with session prefix p: data["name"] is a  *)
(* short name, and the parse is valid or not with ids that may be empty.  *)
IsCall(r, p) ==
  \E n \in Strings(0 .. NameLen), v \in BOOLEAN,
     pd \in Strings(IdLens \cup {0}), c \in Strings(IdLens \cup {0}) :
       r = CgroupCall(n, v, pd, c, p)

RInit ==
  /\ prefix \in Strings({Cut})
  /\ IsCall(call, prefix)

(* One more cgroup_create record is replayed.                              *)
CgroupCreate ==
  /\ IsCall(call', prefix)
  /\ UNCHANGED prefix

RSpec == RInit /\ [][CgroupCreate]_rvars

(* Every name cgroup_create writes is the spec's anonymization of the     *)
(* recorded name (section 4.2, anonymize_substring): for a valid parse,   *)
(* exactly the first occurrence of the pod id's, then of the container    *)
(* id's first six characters is replaced by the session prefix, and the   *)
(* rest of the name is left as it was.                                     *)
CgroupRenameFaithful ==
  call.out = IF call.valid
               THEN SpecRenameId(SpecRenameId(call.name, call.pod, prefix), call.cid, prefix)
               ELSE call.name

(* cgroup_create keeps the length of the name it anonymizes: each        *)
(* replace at line 243 overwrites a match of the id's first six           *)
(* characters with as many characters, so the name copied into            *)
(* name[256] is as long as the recorded one.  A match that ran past the   *)
(* end of the name, or a needle shorter than unique_prefix_, would make   *)
(* replace() append characters to the name instead.                       *)
NameLengthKept == Len(call.out) = Len(call.name)

=============================================================================
