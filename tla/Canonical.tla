----------------------------- MODULE Canonical -----------------------------
(***************************************************************************)
(* The canonical model as far as the crawls tell its entities apart, the   *)
(* snapshot an extraction becomes, and the discovery report over it        *)
(* (canonical/base.py, canonical/snapshot.py, discovery/service.py).       *)
(*                                                                         *)
(* An entity is what identity, references and fidelity make of it.  Its    *)
(* canonical id is the pair of its kind and its native key: the UUIDv5 of  *)
(* the code is deterministic and collides exactly when kind and key do.    *)
(***************************************************************************)
EXTENDS Naturals, Sequences, FiniteSets, SequencesExt

CONSTANT None        \* Python's None, and the empty name

Id(kind, key) == <<kind, key>>

(* _ref of a connector: no reference where the record names nothing. *)
Ref(kind, name) == IF name = None THEN {} ELSE {Id(kind, <<name>>)}

Refs(kind, names) == {Id(kind, <<n>>) : n \in names}

(* assess_mapping: LOSSLESS only when no attribute is left over and the    *)
(* mapper declares no degradation of its own.  A record with attributes    *)
(* the mapper does not consume carries the field "unmapped".               *)
Assess(row, degraded) ==
  IF degraded \/ "unmapped" \in DOMAIN row THEN "DEGRADED" ELSE "LOSSLESS"

Entity(kind, key, refs, fidelity) ==
  [kind |-> kind, key |-> key, refs |-> refs, owner |-> None, fidelity |-> fidelity]

IdOf(e) == Id(e.kind, e.key)

(* reference_fields: an owner is a reference like the others. *)
ReferencesOf(e) == e.refs \cup (IF e.owner = None THEN {} ELSE {e.owner})

Mapped(Map(_), rows) == [i \in DOMAIN rows |-> Map(rows[i])]

When(condition, sequence) == IF condition THEN sequence ELSE <<>>

(* A mapper that skips the rows that fail a test. *)
MappedWhen(Test(_), Map(_), rows) ==
  FlattenSeq([i \in DOMAIN rows |-> When(Test(rows[i]), <<Map(rows[i])>>)])

----------------------------------------------------------------------------
(* The snapshot: a sequence of entities.  by_id keeps the last entity of   *)
(* each id.                                                                *)

Ids(snapshot) == {IdOf(e) : e \in ToSet(snapshot)}

ById(snapshot) ==
  [id \in Ids(snapshot) |->
     snapshot[CHOOSE i \in DOMAIN snapshot :
                /\ IdOf(snapshot[i]) = id
                /\ \A j \in DOMAIN snapshot : IdOf(snapshot[j]) = id => j <= i]]

OfKind(snapshot, kind) == {e \in ToSet(snapshot) : e.kind = kind}

(* Two entities of one snapshot share an id: by_id drops the earlier. *)
Collapsed(snapshot) ==
  {IdOf(snapshot[i]) : i \in {k \in DOMAIN snapshot :
     \E j \in DOMAIN snapshot : j < k /\ IdOf(snapshot[j]) = IdOf(snapshot[k])}}

----------------------------------------------------------------------------
(* The discovery report: what build_estate_report finds in a snapshot. *)

(* _find_orphans: references to what is not in the snapshot, with the kind *)
(* that holds them.                                                        *)
Orphans(snapshot) ==
  LET known == Ids(snapshot)
  IN UNION {{<<e.kind, r>> : r \in ReferencesOf(e) \ known} : e \in ToSet(snapshot)}

\* mutant: lines are compared with their partitions
DuplicateLines(snapshot) ==
  LET lines == {i \in DOMAIN snapshot : snapshot[i].kind = "Line"}
  IN {snapshot[i].key[1] : i \in {k \in lines :
        \E j \in lines : j # k /\ snapshot[j].key = snapshot[k].key}}

(* The directory numbers held by more than one line. *)
DuplicateNumbers(snapshot) ==
  LET lines == {i \in DOMAIN snapshot : snapshot[i].kind = "Line"}
  IN {snapshot[i].key[1] : i \in {k \in lines :
        \E j \in lines : j # k /\ snapshot[j].key[1] = snapshot[k].key[1]}}

(* Partitions that no partition reference of any entity names. *)
UnusedPartitions(snapshot) ==
  {e.key[1] : e \in {p \in OfKind(snapshot, "Partition") :
     \A x \in ToSet(snapshot) : IdOf(p) \notin x.refs}}

(* build_estate_report: what an administrator acts on. *)
EstateReport(snapshot) ==
  [duplicate_directory_numbers |-> DuplicateNumbers(snapshot),
   unused_partitions           |-> UnusedPartitions(snapshot),
   orphans                     |-> Orphans(snapshot)]
=============================================================================
