--------------------------- MODULE RoundTripProofs ---------------------------
(***************************************************************************)
(* What holds of the migrations of RoundTrip, for any estates: that a      *)
(* validation that passes means that the estate came over, and that a run  *)
(* that completed passes.                                                  *)
(*                                                                         *)
(* The one goes from the comparison to the estates.  The target keeps its  *)
(* records under their natural keys, so that each of its entities stands   *)
(* for itself; with no difference and no kind short, each of the source    *)
(* does too, and what compares as equal names the same.  The other goes    *)
(* from the plan to the comparison: without unresolved references an       *)
(* operation becomes a record that says and names what its entity does.    *)
(***************************************************************************)
EXTENDS RoundTrip, FiniteSetTheorems, TLAPS

-----------------------------------------------------------------------------
LEMMA ExtractedFields ==
    ASSUME NEW r
    PROVE  /\ Extracted(r).kind = r.kind
           /\ Extracted(r).id = <<r.kind, r.key>>
           /\ Extracted(r).value = IF r.kind = "Line" THEN r.says.extension ELSE r.key
           /\ Extracted(r).site = r.site
           /\ Extracted(r).owner = RefTo("User", r.owner)
           /\ Extracted(r).number = RefTo("E164Number", r.number)
           /\ Extracted(r).refs = IF r.kind = "E164Number" /\ r.site # None
                                  THEN {<<"EmergencyLocation", r.site>>} ELSE {}
           /\ Extracted(r).level = Level(r)
           /\ Extracted(r).said = Attributes(r)
BY DEF Extracted, RefTo

LEMMA CompositeOf ==
    ASSUME NEW r
    PROVE  Composite(Extracted(r)) =
              <<r.kind, IF r.kind = "Line" THEN <<r.site, r.says.extension>>
                        ELSE r.key>>
BY ExtractedFields DEF Composite, NaturalKey

\* A line is written with its directory number.
LEMMA WrittenExtension ==
    ASSUME NEW r, r.kind = "Line"
    PROVE  Written(Extracted(r)).extension = r.says.extension
<1>1. Extracted(r).said = [extension |-> r.says.extension]
  BY ExtractedFields DEF Attributes
<1>2. Extracted(r).kind = "Line"
  BY ExtractedFields
<1>3. Written(Extracted(r)) = [extension |-> Extracted(r).said.extension, shared |-> {}]
  BY <1>2 DEF Written
<1>. QED  BY <1>1, <1>3

LEMMA ExtractIsFinite ==
    ASSUME NEW S, IsFiniteSet(S)
    PROVE  IsFiniteSet(Extract(S))
<1>. DEFINE f == [r \in S |-> Extracted(r)]
<1>1. f \in Surjection(S, Extract(S))
  BY DEF Surjection, Extract
<1>. QED  BY <1>1, FS_Surjection

-----------------------------------------------------------------------------
(***************************************************************************)
(* What a comparison without a difference says.                            *)
(***************************************************************************)

LEMMA ByKeyFacts ==
    ASSUME NEW E, NEW s \in ByKey(E)
    PROVE  /\ s \subseteq E
           /\ \A e \in E : \E x \in s : Composite(x) = Composite(e)
           /\ \A x, y \in s : Composite(x) = Composite(y) => x = y
BY DEF ByKey

\* Where no two entities share a key, each stands for its own.
LEMMA DistinctByKey ==
    ASSUME NEW E, Distinct(E), NEW t \in ByKey(E)
    PROVE  t = E
<1>1. t \subseteq E /\ \A e \in E : \E x \in t : Composite(x) = Composite(e)
  BY ByKeyFacts
<1>2. ASSUME NEW e \in E PROVE e \in t
  <2>1. PICK x \in t : Composite(x) = Composite(e)
    BY <1>1
  <2>2. x = e
    BY <1>1, <2>1 DEF Distinct
  <2>. QED  BY <2>2
<1>. QED  BY <1>1, <1>2

LEMMA NoDifference ==
    ASSUME NEW source_, NEW s, NEW target_, NEW t,
           Differences(source_, s, target_, t) = {}
    PROVE  /\ \A x \in s : \E y \in t : Composite(y) = Composite(x)
           /\ \A y \in t : \E x \in s : Composite(x) = Composite(y)
           /\ \A x \in s, y \in t : Composite(x) = Composite(y)
                 => View(x, source_) = View(y, target_)
<1>. DEFINE keys(some) == {Composite(e) : e \in some}
            missing == {<<c, "MISSING_ON_TARGET">> : c \in keys(s) \ keys(t)}
            extra   == {<<c, "EXTRA_ON_TARGET">> : c \in keys(t) \ keys(s)}
            other   == {d \in keys(s) \cap keys(t) :
                           \E x \in s, y \in t :
                              /\ Composite(x) = d /\ Composite(y) = d
                              /\ View(x, source_) # View(y, target_)}
            mismatched == {<<c, "MISMATCHED">> : c \in other}
<1>1. missing = {} /\ extra = {} /\ mismatched = {}
  BY DEF Differences
<1>2. keys(s) \subseteq keys(t)
  BY <1>1
<1>3. keys(t) \subseteq keys(s)
  BY <1>1
<1>4. other = {}
  BY <1>1
<1>5. ASSUME NEW x \in s PROVE \E y \in t : Composite(y) = Composite(x)
  BY <1>2
<1>6. ASSUME NEW y \in t PROVE \E x \in s : Composite(x) = Composite(y)
  BY <1>3
<1>7. ASSUME NEW x \in s, NEW y \in t, Composite(x) = Composite(y)
      PROVE  View(x, source_) = View(y, target_)
  <2>1. Composite(x) \in keys(s) \cap keys(t)
    BY <1>7
  <2>. QED  BY <1>4, <1>7, <2>1
<1>. QED  BY <1>5, <1>6, <1>7

\* Where the target has an entity of its own for every key and as many of each
\* kind as the source, no two entities of the source share a key.
LEMMA CountsMeanAll ==
    ASSUME NEW E, IsFiniteSet(E), NEW T, IsFiniteSet(T),
           \A e \in E : e.kind \in Collections,
           NEW s \in ByKey(E), Distinct(T),
           \A y \in T : \E x \in s : Composite(x) = Composite(y),
           ~Short(E, T)
    PROVE  s = E
<1>1. s \subseteq E
  BY ByKeyFacts
<1>2. ASSUME NEW k \in Collections PROVE OfKind(s, k) = OfKind(E, k)
  <2>. DEFINE Ek == OfKind(E, k)
              Tk == OfKind(T, k)
              Sk == OfKind(s, k)
              f  == [y \in Tk |-> CHOOSE x \in s : Composite(x) = Composite(y)]
  <2>1. Ek \subseteq E /\ Tk \subseteq T /\ Sk \subseteq Ek
    BY <1>1 DEF OfKind
  <2>2. IsFiniteSet(Ek) /\ IsFiniteSet(Tk) /\ IsFiniteSet(Sk)
    BY <2>1, FS_Subset
  <2>3. \A y \in Tk : /\ f[y] \in s /\ Composite(f[y]) = Composite(y)
    BY <2>1
  <2>4. \A y \in Tk : f[y] \in Sk
    <3>. SUFFICES ASSUME NEW y \in Tk PROVE f[y] \in Sk
      OBVIOUS
    <3>1. f[y].kind = y.kind
      BY <2>3 DEF Composite
    <3>2. y.kind = k
      BY DEF OfKind
    <3>. QED  BY <2>3, <3>1, <3>2 DEF OfKind
  <2>5. \A y, z \in Tk : f[y] = f[z] => y = z
    BY <2>1, <2>3 DEF Distinct
  <2>6. f \in Injection(Tk, Sk)
    BY <2>4, <2>5 DEF Injection, IsInjective
  <2>7. Cardinality(Tk) <= Cardinality(Sk)
    BY <2>2, <2>6, FS_Injection
  <2>8. Cardinality(Ek) <= Cardinality(Tk)
    <3>1. ~(Cardinality(Tk) < Cardinality(Ek))
      BY DEF Short
    <3>2. Cardinality(Tk) \in Nat /\ Cardinality(Ek) \in Nat
      BY <2>2, FS_CardinalityType
    <3>. QED  BY <3>1, <3>2
  <2>9. /\ Cardinality(Sk) \in Nat /\ Cardinality(Ek) \in Nat
        /\ Cardinality(Tk) \in Nat
    BY <2>2, FS_CardinalityType
  <2>10. Cardinality(Sk) <= Cardinality(Ek)
         /\ (Cardinality(Sk) = Cardinality(Ek) => Sk = Ek)
    BY <2>1, <2>2, FS_Subset
  <2>. QED  BY <2>7, <2>8, <2>9, <2>10
<1>3. ASSUME NEW e \in E PROVE e \in s
  <2>1. e \in OfKind(s, e.kind)
    BY <1>2 DEF OfKind
  <2>. QED  BY <2>1 DEF OfKind
<1>. QED  BY <1>1, <1>3

-----------------------------------------------------------------------------
(***************************************************************************)
(* References.                                                             *)
(***************************************************************************)

\* The reference to a user or a number compares by the key it names, if there
\* is one.
LEMMA NeutralOfKey ==
    ASSUME NEW S, NEW kind \in {"User", "E164Number", "EmergencyLocation"},
           NEW key, <<kind, key>> # None
    PROVE  Neutral(<<kind, key>>, Extract(S)) =
              IF Names(S, kind, key) THEN key ELSE UNRESOLVED
<1>. DEFINE ref == <<kind, key>>
            E   == Extract(S)
<1>1. \A e \in E : e.id = ref => /\ NaturalKey(e) = key
                                 /\ Names(S, kind, key)
  <2>. SUFFICES ASSUME NEW r \in S, Extracted(r).id = ref
                PROVE  NaturalKey(Extracted(r)) = key /\ Names(S, kind, key)
    BY DEF Extract
  <2>0. <<r.kind, r.key>> = <<kind, key>>
    BY ExtractedFields
  <2>1. r.kind = kind /\ r.key = key
    BY <2>0
  <2>2. Extracted(r).kind = kind /\ Extracted(r).value = key
    BY <2>1, ExtractedFields
  <2>. QED  BY <2>1, <2>2 DEF NaturalKey, Names
<1>2. ASSUME Names(S, kind, key) PROVE \E e \in E : e.id = ref
  <2>1. PICK r \in S : r.kind = kind /\ r.key = key
    BY <1>2 DEF Names
  <2>2. Extracted(r).id = ref /\ Extracted(r) \in E
    BY <2>1, ExtractedFields DEF Extract
  <2>. QED  BY <2>2
<1>3. CASE \E e \in E : e.id = ref
  <2>. DEFINE c == CHOOSE e \in E : e.id = ref
  <2>1. c \in E /\ c.id = ref
    BY <1>3
  <2>2. NaturalKey(c) = key /\ Names(S, kind, key)
    BY <1>1, <2>1
  <2>3. Neutral(ref, E) = NaturalKey(c)
    <3>. HIDE DEF E, ref
    <3>1. ref # None
      BY DEF ref
    <3>. QED  BY <1>3, <3>1 DEF Neutral
  <2>. QED  BY <2>2, <2>3
<1>4. CASE ~ \E e \in E : e.id = ref
  <2>1. ~Names(S, kind, key)
    BY <1>2, <1>4
  <2>2. Neutral(ref, E) = UNRESOLVED
    BY <1>4 DEF Neutral
  <2>. QED  BY <2>1, <2>2
<1>. QED  BY <1>3, <1>4

LEMMA NeutralOfNone ==
    ASSUME NEW E
    PROVE  Neutral(None, E) = None
BY DEF Neutral

\* Two references that compare as equal name one thing, if the first names one.
LEMMA NameKept ==
    ASSUME NEW S, NEW T, NEW kind \in {"User", "E164Number"}, NEW a, NEW b,
           IsEstate(S), None # UNRESOLVED,
           <<kind, a>> # None, <<kind, b>> # None,
           Names(S, kind, a) \/ a = None,
           Neutral(RefTo(kind, a), Extract(S)) = Neutral(RefTo(kind, b), Extract(T))
    PROVE  b = a
<1>1. CASE a = None
  <2>1. Neutral(RefTo(kind, a), Extract(S)) = None
    BY <1>1, NeutralOfNone DEF RefTo
  <2>2. CASE b # None
    <3>1. RefTo(kind, b) = <<kind, b>>
      BY <2>2 DEF RefTo
    <3>2. Neutral(<<kind, b>>, Extract(T)) \in {b, UNRESOLVED}
      BY NeutralOfKey
    <3>. QED  BY <2>1, <2>2, <3>1, <3>2
  <2>. QED  BY <1>1, <2>2
<1>2. CASE a # None
  <2>1. Names(S, kind, a) /\ a # UNRESOLVED
    <3>1. PICK r \in S : r.kind = kind /\ r.key = a
      BY <1>2 DEF Names
    <3>. QED  BY <1>2, <3>1 DEF IsEstate
  <2>2. Neutral(RefTo(kind, a), Extract(S)) = a
    BY <1>2, <2>1, NeutralOfKey DEF RefTo
  <2>3. b # None
    BY <1>2, <2>2, NeutralOfNone DEF RefTo
  <2>4. Neutral(RefTo(kind, b), Extract(T)) \in {b, UNRESOLVED}
    BY <2>3, NeutralOfKey DEF RefTo
  <2>. QED  BY <2>1, <2>2, <2>4
<1>. QED  BY <1>1, <1>2

-----------------------------------------------------------------------------
(***************************************************************************)
(* A validation that passes.                                               *)
(***************************************************************************)

\* The names a record holds are keys.
NamesKeys(estate) ==
    \A r \in estate : r.owner \in NativeKeys \cup {None}
                      /\ r.number \in NativeKeys \cup {None}

LEMMA KeyedIsDistinct ==
    ASSUME NEW T, IsKeyed(T)
    PROVE  Distinct(Extract(T))
<1>. SUFFICES ASSUME NEW r \in T, NEW w \in T,
                     Composite(Extracted(r)) = Composite(Extracted(w))
              PROVE  Extracted(r) = Extracted(w)
  BY DEF Distinct, Extract
<1>1. r = w
  BY DEF IsKeyed
<1>. QED  BY <1>1

\* Every entity of the source has one on the target that looks like it.
LEMMA PassedMeansAlike ==
    ASSUME NEW S, NEW T, IsEstate(S), IsFiniteSet(T), IsKeyed(T),
           NEW s \in ByKey(Extract(S)), NEW t \in ByKey(Extract(T)),
           Failed(Extract(S), Extract(T),
                  Differences(Extract(S), s, Extract(T), t)) = {},
           NEW r \in S
    PROVE  \E w \in T :
              /\ Composite(Extracted(w)) = Composite(Extracted(r))
              /\ View(Extracted(r), Extract(S)) = View(Extracted(w), Extract(T))
<1>. DEFINE E == Extract(S)
            F == Extract(T)
<1>1. ~Short(E, F) /\ Differences(E, s, F, t) = {}
  BY DEF Failed
<1>2. IsFiniteSet(E) /\ IsFiniteSet(F)
  BY ExtractIsFinite DEF IsEstate
<1>3. Distinct(F) /\ t = F
  BY KeyedIsDistinct, DistinctByKey
<1>4. \A e \in E : e.kind \in Collections
  <2>1. \A x \in S : Extracted(x).kind = x.kind /\ x.kind \in Collections
    BY ExtractedFields DEF IsEstate
  <2>. QED  BY <2>1 DEF Extract
<1>5. /\ \A x \in s : \E y \in F : Composite(y) = Composite(x)
      /\ \A y \in F : \E x \in s : Composite(x) = Composite(y)
      /\ \A x \in s, y \in F : Composite(x) = Composite(y)
            => View(x, E) = View(y, F)
  BY <1>1, <1>3, NoDifference
<1>6. s = E
  <2>. HIDE DEF E, F
  <2>. QED  BY <1>1, <1>2, <1>3, <1>4, <1>5, CountsMeanAll DEF E
<1>7. Extracted(r) \in E
  BY DEF Extract
<1>8. PICK y \in F : Composite(y) = Composite(Extracted(r))
  BY <1>5, <1>6, <1>7
<1>9. PICK w \in T : y = Extracted(w)
  BY DEF Extract
<1>10. View(Extracted(r), E) = View(y, F)
  <2>. HIDE DEF E, F
  <2>. QED  BY <1>5, <1>6, <1>7, <1>8
<1>11. Composite(Extracted(w)) = Composite(Extracted(r))
  BY <1>8, <1>9
<1>12. View(Extracted(r), Extract(S)) = View(Extracted(w), Extract(T))
  BY <1>9, <1>10
<1>. QED  BY <1>11, <1>12

\* ... and what looks like it, carries what it says and names.
LEMMA AlikeMeansCarried ==
    ASSUME NEW S \in Sources, NEW T, NamesKeys(T), NEW r \in S, NEW w \in T,
           Composite(Extracted(w)) = Composite(Extracted(r)),
           View(Extracted(r), Extract(S)) = View(Extracted(w), Extract(T))
    PROVE  Carried(r, S, w, T)
<1>1. w.kind = r.kind /\ NaturalKey(Extracted(w)) = NaturalKey(Extracted(r))
  BY ExtractedFields DEF Composite
<1>2. /\ Extracted(w).said = Extracted(r).said /\ w.site = r.site
      /\ Neutral(RefTo("User", r.owner), Extract(S))
             = Neutral(RefTo("User", w.owner), Extract(T))
      /\ Neutral(RefTo("E164Number", r.number), Extract(S))
             = Neutral(RefTo("E164Number", w.number), Extract(T))
  BY ExtractedFields DEF View
<1>3. r.owner \in NativeKeys /\ r.number \in NativeKeys
  BY DEF NativeKeys
<1>4. IsEstate(S) /\ None # UNRESOLVED
  BY RoundTripAssumption, NoneIsNothingElse
<1>5. \A key \in NativeKeys \cup {None} :
          <<"User", key>> # None /\ <<"E164Number", key>> # None
  BY NoneIsNothingElse DEF Collections
<1>6. Names(S, "User", r.owner) \/ r.owner = None => w.owner = r.owner
  BY <1>2, <1>3, <1>4, <1>5, NameKept DEF NamesKeys
<1>7. Names(S, "E164Number", r.number) \/ r.number = None => w.number = r.number
  BY <1>2, <1>3, <1>4, <1>5, NameKept DEF NamesKeys
<1>. QED  BY <1>1, <1>2, <1>6, <1>7 DEF Carried

-----------------------------------------------------------------------------
(***************************************************************************)
(* What is written to the target.                                          *)
(***************************************************************************)
KeyedTarget(estate) ==
    /\ IsFiniteSet(estate) /\ IsKeyed(estate) /\ NamesKeys(estate)

\* The record an operation becomes: of the entity it was planned for, under its
\* natural key, with the names that were resolved and no others.
LEMMA WrittenRecord ==
    ASSUME NEW src \in Sources,
           NEW o \in BuildResult(Extract(src), {}).operations
    PROVE  /\ \E r \in src :
                 /\ o.entity = Extracted(r)
                 /\ RecordOf(o).kind = r.kind /\ RecordOf(o).site = r.site
                 /\ RecordOf(o).says = Written(Extracted(r))
                 /\ RecordOf(o).owner \in {None, r.owner}
                 /\ RecordOf(o).number \in {None, r.number}
           /\ Place(RecordOf(o)) = Composite(o.entity)
           /\ Composite(Extracted(RecordOf(o))) = Composite(o.entity)
           /\ {RecordOf(o).owner, RecordOf(o).number} \subseteq NativeKeys \cup {None}
<1>. DEFINE E == Extract(src)
            w == RecordOf(o)
<1>1. PICK e \in Planned(E) : o = Operation(e, E, {})
  BY DEF BuildResult
<1>2. o.entity = e /\ o.keys = {<<t.kind, KeyFor(t)>> : t \in Resolved(e, E, {})}
  BY <1>1 DEF Operation
<1>3. PICK r \in src : e = Extracted(r)
  BY DEF Planned, Extract
<1>4. None \notin o.keys
  <2>. SUFFICES ASSUME NEW t \in Resolved(e, E, {}) PROVE None # <<t.kind, KeyFor(t)>>
    BY <1>2
  <2>1. PICK x \in src : t = Extracted(x)
    BY DEF Resolved, Resolvable, Targets, Extract
  <2>2. KeyFor(t) = NaturalKey(Extracted(x)) /\ t.kind \in Collections
    BY <2>1, RoundTripAssumption, ExtractedFields DEF IsEstate, Extract
  <2>3. NaturalKey(Extracted(x)) \in NativeKeys
    BY DEF NativeKeys
  <2>. QED  BY <2>2, <2>3, NoneIsNothingElse
<1>5. /\ w.kind = e.kind /\ w.key = NaturalKey(e) /\ w.site = e.site
      /\ w.says = Written(e)
      /\ w.owner = IF e.owner \in o.keys THEN e.owner[2] ELSE None
      /\ w.number = IF e.number \in o.keys THEN e.number[2] ELSE None
  BY <1>2 DEF RecordOf
<1>6. /\ e.kind = r.kind /\ e.site = r.site
      /\ e.owner = RefTo("User", r.owner) /\ e.number = RefTo("E164Number", r.number)
  BY <1>3, ExtractedFields
<1>7. w.owner \in {None, r.owner} /\ w.number \in {None, r.number}
  BY <1>4, <1>5, <1>6 DEF RefTo
<1>8. r.owner \in NativeKeys /\ r.number \in NativeKeys
  BY DEF NativeKeys
<1>9. Place(w) = Composite(e)
  BY <1>5 DEF Place, Composite
<1>10. Composite(Extracted(w)) = Composite(e)
  <2>1. CASE r.kind = "Line"
    <3>1. w.says.extension = r.says.extension
      BY <1>3, <1>5, <2>1, WrittenExtension
    <3>. QED  BY <1>3, <1>5, <1>6, <2>1, <3>1, CompositeOf
  <2>2. CASE r.kind # "Line"
    <3>1. w.key = r.key
      <4>1. e.value = r.key
        BY <1>3, <2>2, ExtractedFields
      <4>. QED  BY <1>5, <1>6, <2>2, <4>1 DEF NaturalKey
    <3>. QED  BY <1>3, <1>5, <1>6, <2>2, <3>1, CompositeOf
  <2>. QED  BY <2>1, <2>2
<1>. QED  BY <1>2, <1>3, <1>5, <1>6, <1>7, <1>8, <1>9, <1>10

LEMMA WrittenIsFinite ==
    ASSUME NEW src \in Sources, NEW some,
           some \subseteq BuildResult(Extract(src), {}).operations
    PROVE  IsFiniteSet({RecordOf(o) : o \in some})
<1>. DEFINE E   == Extract(src)
            all == BuildResult(E, {}).operations
            f   == [e \in Planned(E) |-> Operation(e, E, {})]
            g   == [o \in some |-> RecordOf(o)]
<1>1. IsFiniteSet(E)
  BY RoundTripAssumption, ExtractIsFinite DEF IsEstate
<1>2. IsFiniteSet(Planned(E))
  BY <1>1, FS_Subset DEF Planned
<1>3. f \in Surjection(Planned(E), all)
  BY DEF Surjection, BuildResult
<1>4. IsFiniteSet(some)
  BY <1>2, <1>3, FS_Surjection, FS_Subset
<1>5. g \in Surjection(some, {RecordOf(o) : o \in some})
  BY DEF Surjection
<1>. QED  BY <1>4, <1>5, FS_Surjection

LEMMA StoredIsKeyed ==
    ASSUME NEW T, KeyedTarget(T), NEW last, IsFiniteSet(last),
           NamesKeys(last), IsKeyed(last)
    PROVE  KeyedTarget(Stored(T, last))
<1>. DEFINE kept == {r \in T : Place(r) \notin {Place(w) : w \in last}}
<1>1. Stored(T, last) = kept \cup last
  BY DEF Stored
<1>2. IsFiniteSet(kept \cup last)
  BY FS_Subset, FS_Union DEF KeyedTarget
<1>3. NamesKeys(kept \cup last)
  BY DEF NamesKeys, KeyedTarget
<1>4. \A r \in kept \cup last : Place(r) = Composite(Extracted(r))
  BY DEF IsKeyed, KeyedTarget
<1>5. ASSUME NEW r \in kept \cup last, NEW w \in kept \cup last, Place(r) = Place(w)
      PROVE  r = w
  <2>1. CASE r \in kept /\ w \in kept
    BY <1>5, <2>1 DEF KeyedTarget, IsKeyed
  <2>2. CASE r \in last /\ w \in last
    BY <1>5, <2>2 DEF IsKeyed
  <2>3. ~(r \in kept /\ w \in last) /\ ~(r \in last /\ w \in kept)
    BY <1>5
  <2>. QED  BY <2>1, <2>2, <2>3
<1>. QED  BY <1>1, <1>2, <1>3, <1>4, <1>5 DEF KeyedTarget, IsKeyed

LEMMA RestoredIsKeyed ==
    ASSUME NEW T, KeyedTarget(T), NEW before, KeyedTarget(before), NEW places
    PROVE  KeyedTarget(Restored(T, places, before))
<1>. DEFINE kept == {r \in T : Place(r) \notin places}
            back == {r \in before : Place(r) \in places}
<1>1. Restored(T, places, before) = kept \cup back
  BY DEF Restored
<1>2. IsFiniteSet(kept \cup back)
  BY FS_Subset, FS_Union DEF KeyedTarget
<1>3. NamesKeys(kept \cup back)
  BY DEF NamesKeys, KeyedTarget
<1>4. \A r \in kept \cup back : Place(r) = Composite(Extracted(r))
  BY DEF IsKeyed, KeyedTarget
<1>5. ASSUME NEW r \in kept \cup back, NEW w \in kept \cup back, Place(r) = Place(w)
      PROVE  r = w
  <2>1. CASE r \in kept /\ w \in kept
    BY <1>5, <2>1 DEF KeyedTarget, IsKeyed
  <2>2. CASE r \in back /\ w \in back
    BY <1>5, <2>2 DEF KeyedTarget, IsKeyed
  <2>3. ~(r \in kept /\ w \in back) /\ ~(r \in back /\ w \in kept)
    BY <1>5
  <2>. QED  BY <2>1, <2>2, <2>3
<1>. QED  BY <1>1, <1>2, <1>3, <1>4, <1>5 DEF KeyedTarget, IsKeyed

-----------------------------------------------------------------------------
(***************************************************************************)
(* The invariant: the plan is of the snapshot, the last run of some estate *)
(* that was discovered, the report of one that was and of a target that    *)
(* was, and every target there ever was is keyed.                          *)
(***************************************************************************)
PlanOfSnapshot ==
    plan_result # None => snapshot # None /\ plan_result = BuildResult(snapshot, {})

\* Of several records with one place one is written last.
WrittenOn(before, records, after) ==
    \E last \in SUBSET records :
        /\ \A r \in records : \E w \in last : Place(w) = Place(r)
        /\ \A r, w \in last : Place(w) = Place(r) => w = r
        /\ after = Stored(before, last)

RunOfItsPlan ==
    run # None => \E src \in Sources :
        /\ run.planned = Extract(src) /\ run.plan = BuildResult(run.planned, {})
        /\ run.succeeded \subseteq run.plan.operations
        /\ KeyedTarget(run.before)
        /\ WrittenOn(run.before, {RecordOf(o) : o \in run.succeeded}, run.after)

ReportOfEstates ==
    validation # None =>
        /\ KeyedTarget(validation.held)
        /\ \E s \in ByKey(Extract(validation.of)),
              t \in ByKey(Extract(validation.held)) :
              validation.failed =
                  Failed(Extract(validation.of), Extract(validation.held),
                         Differences(Extract(validation.of), s,
                                     Extract(validation.held), t))

Inv == /\ TypeOK /\ KeyedTarget(target)
       /\ PlanOfSnapshot /\ RunOfItsPlan /\ ReportOfEstates

LEMMA InitInv == Init => Inv
<1>. SUFFICES ASSUME Init PROVE Inv
  OBVIOUS
<1>1. KeyedTarget(target)
  <2>1. target \in InitialTargets /\ IsEstate(target) /\ IsKeyed(target)
    BY RoundTripAssumption DEF Init
  <2>2. NamesKeys(target)
    BY <2>1 DEF NamesKeys, NativeKeys
  <2>. QED  BY <2>1, <2>2 DEF KeyedTarget, IsEstate
<1>2. TypeOK
  BY <1>1, RoundTripAssumption DEF Init, TypeOK, KeyedTarget, IsKeyed
<1>. QED  BY <1>1, <1>2 DEF Init, Inv, PlanOfSnapshot, RunOfItsPlan, ReportOfEstates

LEMMA AssessedFindings ==
    ASSUME NEW entities
    PROVE  /\ Assessed(entities) \subseteq Findings
           /\ \A f \in Assessed(entities) : f.severity = "BLOCKER" => f.status = "OPEN"
<1>1. DOMAIN SeverityOf = {"EMG001", "EMG002", "EMG003", "EMG004", "LIC001"}
  BY DEF SeverityOf
<1>2. \A r \in DOMAIN SeverityOf : SeverityOf[r] \in Severity
  BY <1>1 DEF SeverityOf, Severity
<1>. QED  BY <1>2 DEF Assessed, Findings, FindingStatus

LEMMA WaivedFindings ==
    ASSUME NEW findings \in SUBSET Findings, NEW rule,
           \A f \in findings : f.severity = "BLOCKER" => f.status = "OPEN"
    PROVE  /\ Waived(findings, rule) \subseteq Findings
           /\ \A f \in Waived(findings, rule) : f.severity = "BLOCKER" => f.status = "OPEN"
BY DEF Waived, Findings, FindingStatus

LEMMA StepInv == Inv /\ [Next]_vars => Inv'
<1>. SUFFICES ASSUME Inv, [Next]_vars PROVE Inv'
  OBVIOUS
<1>. USE DEF Inv
<1>1. ASSUME NEW to \in EditedTo, Edit(to) PROVE Inv'
  <2>1. edits' \in 0..MaxEdits
    BY <1>1, RoundTripAssumption DEF Edit, TypeOK
  <2>. QED  BY <1>1, <2>1, RoundTripAssumption DEF Edit, TypeOK, PlanOfSnapshot, RunOfItsPlan, ReportOfEstates
<1>2. CASE Discover
  <2>1. /\ snapshot' = Extract(source) /\ discovered' = source /\ source \in Sources
        /\ assessment' = None /\ plan_result' = None /\ validation' = None
        /\ UNCHANGED <<source, target, run, validating, edits, runs>>
    BY <1>2 DEF Discover, TypeOK
  <2>2. snapshot' # None /\ discovered' # None
    BY <2>1, NoneIsNothingElse
  <2>3. TypeOK'
    BY <2>1, <2>2 DEF TypeOK
  <2>. QED  BY <2>1, <2>3 DEF PlanOfSnapshot, RunOfItsPlan, ReportOfEstates
<1>3. CASE Assess
  <2>1. TypeOK'
    BY <1>3, AssessedFindings DEF Assess, TypeOK
  <2>. QED  BY <1>3, <2>1 DEF Assess, PlanOfSnapshot, RunOfItsPlan, ReportOfEstates
<1>4. ASSUME NEW rule, Waive(rule) PROVE Inv'
  <2>1. TypeOK'
    BY <1>4, WaivedFindings DEF Waive, TypeOK
  <2>. QED  BY <1>4, <2>1 DEF Waive, PlanOfSnapshot, RunOfItsPlan, ReportOfEstates
<1>5. CASE BuildPlan
  <2>1. TypeOK'
    BY <1>5 DEF BuildPlan, TypeOK
  <2>. QED  BY <1>5, <2>1 DEF BuildPlan, PlanOfSnapshot, RunOfItsPlan, ReportOfEstates
<1>6. ASSUME plan_result # None, NEW failed \in SUBSET plan_result.operations,
             Execute(failed)
      PROVE  Inv'
  <2>. DEFINE done    == plan_result.operations \ failed
              records == {RecordOf(o) : o \in done}
  <2>1. /\ runs < MaxRuns /\ runs' = runs + 1
        /\ run' = [planned |-> snapshot, plan |-> plan_result, succeeded |-> done,
                   before |-> target, after |-> target']
        /\ UNCHANGED <<source, snapshot, assessment, plan_result, validation,
                       validating, discovered, edits>>
    BY <1>6 DEF Execute
  <2>2. PICK last \in SUBSET records :
            /\ \A r \in records : \E w \in last : Place(w) = Place(r)
            /\ \A r, w \in last : Place(w) = Place(r) => w = r
            /\ target' = Stored(target, last)
    BY <1>6 DEF Execute
  <2>3. /\ snapshot # None /\ plan_result = BuildResult(snapshot, {})
        /\ discovered \in Sources /\ snapshot = Extract(discovered)
    BY <1>6 DEF PlanOfSnapshot, TypeOK
  <2>4. \A o \in done :
            /\ Place(RecordOf(o)) = Composite(Extracted(RecordOf(o)))
            /\ RecordOf(o).owner \in NativeKeys \cup {None}
            /\ RecordOf(o).number \in NativeKeys \cup {None}
    <3>. SUFFICES ASSUME NEW o \in done
                  PROVE  /\ Place(RecordOf(o)) = Composite(Extracted(RecordOf(o)))
                         /\ RecordOf(o).owner \in NativeKeys \cup {None}
                         /\ RecordOf(o).number \in NativeKeys \cup {None}
      OBVIOUS
    <3>1. o \in BuildResult(Extract(discovered), {}).operations
      BY <2>3
    <3>. QED  BY <2>3, <3>1, WrittenRecord
  <2>5. IsFiniteSet(last)
    <3>1. done \subseteq BuildResult(Extract(discovered), {}).operations
      BY <2>3
    <3>2. IsFiniteSet(records)
      BY <2>3, <3>1, WrittenIsFinite
    <3>. QED  BY <2>2, <3>2, FS_Subset
  <2>6. NamesKeys(last) /\ IsKeyed(last)
    BY <2>2, <2>4 DEF NamesKeys, IsKeyed
  <2>7. KeyedTarget(target')
    BY <2>2, <2>5, <2>6, StoredIsKeyed
  <2>8. TypeOK'
    <3>1. runs' \in 0..MaxRuns
      BY <2>1, RoundTripAssumption DEF TypeOK
    <3>. QED  BY <2>1, <2>7, <3>1 DEF TypeOK, KeyedTarget, IsKeyed
  <2>9. RunOfItsPlan'
    <3>1. WrittenOn(target, records, target')
      BY <2>2 DEF WrittenOn
    <3>2. /\ run'.planned = Extract(discovered) /\ run'.plan = BuildResult(run'.planned, {})
          /\ run'.succeeded = done /\ done \subseteq run'.plan.operations
          /\ run'.before = target /\ run'.after = target'
      BY <2>1, <2>3
    <3>. QED  BY <2>3, <3>1, <3>2 DEF RunOfItsPlan
  <2>10. PlanOfSnapshot' /\ ReportOfEstates'
    BY <2>1 DEF PlanOfSnapshot, ReportOfEstates
  <2>11. KeyedTarget(target)'
    BY <2>7
  <2>. QED  BY <2>8, <2>9, <2>10, <2>11
<1>7. CASE Rollback
  <2>1. /\ run # None /\ run' = None
        /\ target' = Restored(target, {Place(RecordOf(o)) : o \in run.succeeded},
                              run.before)
        /\ UNCHANGED <<source, snapshot, assessment, plan_result, validation,
                       validating, discovered, edits, runs>>
    BY <1>7 DEF Rollback
  <2>2. KeyedTarget(target')
    BY <2>1, RestoredIsKeyed DEF RunOfItsPlan
  <2>3. TypeOK'
    BY <2>1, <2>2 DEF TypeOK, KeyedTarget, IsKeyed
  <2>4. PlanOfSnapshot' /\ RunOfItsPlan' /\ ReportOfEstates'
    BY <2>1 DEF PlanOfSnapshot, RunOfItsPlan, ReportOfEstates
  <2>5. KeyedTarget(target)'
    BY <2>2
  <2>. QED  BY <2>3, <2>4, <2>5
<1>8. CASE StartValidate
  <2>1. discovered \in Sources
    BY <1>8 DEF StartValidate, TypeOK
  <2>2. TypeOK'
    BY <1>8, <2>1 DEF StartValidate, TypeOK
  <2>. QED  BY <1>8, <2>2 DEF StartValidate, PlanOfSnapshot, RunOfItsPlan, ReportOfEstates
<1>9. ASSUME NEW of \in validating, FinishValidate(of) PROVE Inv'
  <2>1. /\ of \in Sources /\ validating' = validating \ {of}
        /\ UNCHANGED <<source, target, snapshot, assessment, plan_result, run,
                       discovered, edits, runs>>
    BY <1>9 DEF FinishValidate, TypeOK
  <2>2. PICK s \in ByKey(Extract(of)), t \in ByKey(Extract(target)) :
            validation' = [of |-> of, held |-> target,
                           failed |-> Failed(Extract(of), Extract(target),
                                       Differences(Extract(of), s, Extract(target), t))]
    BY <1>9 DEF FinishValidate
  <2>3. /\ validation'.of = of /\ validation'.held = target
        /\ validation'.failed =
               Failed(Extract(of), Extract(target),
                      Differences(Extract(of), s, Extract(target), t))
    BY <2>2
  <2>4. ReportOfEstates'
    BY <2>2, <2>3 DEF ReportOfEstates
  <2>5. TypeOK'
    BY <2>1, <2>3 DEF TypeOK
  <2>6. PlanOfSnapshot' /\ RunOfItsPlan' /\ KeyedTarget(target)'
    BY <2>1 DEF PlanOfSnapshot, RunOfItsPlan
  <2>. QED  BY <2>4, <2>5, <2>6
<1>10. CASE UNCHANGED vars
  BY <1>10 DEF vars, TypeOK, PlanOfSnapshot, RunOfItsPlan, ReportOfEstates
<1>. QED  BY <1>1, <1>2, <1>3, <1>4, <1>5, <1>6, <1>7, <1>8, <1>9, <1>10 DEF Next

LEMMA InvHolds == Spec => []Inv
BY InitInv, StepInv, PTL DEF Spec

-----------------------------------------------------------------------------
(***************************************************************************)
(* A run that completed.                                                   *)
(***************************************************************************)

\* A reference that was resolved names a record of the source.
LEMMA ResolvedNames ==
    ASSUME NEW src \in Sources, NEW e,
           NEW kind \in Collections \ {"Line"}, NEW key,
           <<kind, key>> \in References(e), Unresolved(e, Extract(src), {}) = {}
    PROVE  /\ Names(src, kind, key)
           /\ \E x \in src : /\ x.kind = kind /\ x.key = key
                            /\ Extracted(x) \in Resolved(e, Extract(src), {})
                            /\ KeyFor(Extracted(x)) = key
<1>1. PICK t \in Resolved(e, Extract(src), {}) : t.id = <<kind, key>>
  BY DEF Unresolved
<1>2. t \in Extract(src)
  BY DEF Resolved, Resolvable, Targets
<1>3. PICK x \in src : t = Extracted(x)
  BY <1>2 DEF Extract
<1>4. <<x.kind, x.key>> = <<kind, key>>
  BY <1>1, <1>3, ExtractedFields
<1>5. x.kind = kind /\ x.key = key
  BY <1>4
<1>6. KeyFor(t) = NaturalKey(t)
  BY <1>2, RoundTripAssumption
<1>7. NaturalKey(Extracted(x)) = key
  BY <1>5, ExtractedFields DEF NaturalKey
<1>. QED  BY <1>1, <1>3, <1>5, <1>6, <1>7 DEF Names

\* A record like another, kept under the natural key.
IsCopy(w, r) ==
    /\ w.kind = r.kind /\ w.key = NaturalKey(Extracted(r)) /\ w.site = r.site
    /\ w.says = Written(Extracted(r)) /\ w.owner = r.owner /\ w.number = r.number

\* The operation of an entity whose references were all resolved becomes a
\* record with all its names.
LEMMA CompleteRecord ==
    ASSUME NEW src \in Sources, NEW r \in src,
           Unresolved(Extracted(r), Extract(src), {}) = {}
    PROVE  IsCopy(RecordOf(Operation(Extracted(r), Extract(src), {})), r)
<1>. DEFINE e == Extracted(r)
            E == Extract(src)
            o == Operation(e, E, {})
            w == RecordOf(o)
<1>1. o.entity = e /\ o.keys = {<<t.kind, KeyFor(t)>> : t \in Resolved(e, E, {})}
  BY DEF Operation
<1>2. /\ w.kind = e.kind /\ w.key = NaturalKey(e) /\ w.site = e.site
      /\ w.says = Written(e)
      /\ w.owner = IF e.owner \in o.keys THEN e.owner[2] ELSE None
      /\ w.number = IF e.number \in o.keys THEN e.number[2] ELSE None
  BY <1>1 DEF RecordOf
<1>3. /\ e.kind = r.kind /\ e.site = r.site
      /\ e.owner = RefTo("User", r.owner) /\ e.number = RefTo("E164Number", r.number)
  BY ExtractedFields
<1>4. ASSUME NEW kind \in {"User", "E164Number"}, NEW key \in NativeKeys,
             RefTo(kind, key) \in {e.owner, e.number}
      PROVE  key = IF RefTo(kind, key) \in o.keys THEN RefTo(kind, key)[2] ELSE None
  <2>0. kind \in Collections \ {"Line"}
    BY DEF Collections
  <2>1. CASE key = None
    <3>1. None \notin o.keys
      <4>. SUFFICES ASSUME NEW t \in Resolved(e, E, {}) PROVE None # <<t.kind, KeyFor(t)>>
        BY <1>1
      <4>1. PICK x \in src : t = Extracted(x)
        BY DEF Resolved, Resolvable, Targets, Extract
      <4>2. KeyFor(t) = NaturalKey(Extracted(x)) /\ t.kind \in Collections
        BY <4>1, RoundTripAssumption, ExtractedFields DEF IsEstate, Extract
      <4>3. NaturalKey(Extracted(x)) \in NativeKeys
        BY DEF NativeKeys
      <4>. QED  BY <4>2, <4>3, NoneIsNothingElse
    <3>. QED  BY <2>1, <3>1 DEF RefTo
  <2>2. CASE key # None
    <3>1. RefTo(kind, key) = <<kind, key>> /\ <<kind, key>> # None
      BY <2>0, <2>2, NoneIsNothingElse DEF RefTo
    <3>2. <<kind, key>> \in References(e)
      BY <1>4, <3>1 DEF References
    <3>3. PICK x \in src : /\ x.kind = kind
                           /\ Extracted(x) \in Resolved(e, E, {})
                           /\ KeyFor(Extracted(x)) = key
      BY <2>0, <3>2, ResolvedNames
    <3>4. Extracted(x).kind = kind
      BY <3>3, ExtractedFields
    <3>5. <<kind, key>> \in o.keys
      BY <1>1, <3>3, <3>4
    <3>. QED  BY <3>1, <3>5
  <2>. QED  BY <2>1, <2>2
<1>5. r.owner \in NativeKeys /\ r.number \in NativeKeys
  BY DEF NativeKeys
<1>6. w.owner = r.owner /\ w.number = r.number
  BY <1>2, <1>3, <1>4, <1>5
<1>. QED  BY <1>2, <1>3, <1>6 DEF IsCopy

\* What a completed run leaves on a target that held nothing besides: the
\* records of its operations and no others.
LEMMA CompletedTarget ==
    ASSUME NEW src \in Sources, NEW before, IsKeyed(before), NEW after,
           Distinct(Extract(src)),
           BuildResult(Extract(src), {}).unresolved = {},
           \A r \in Extract(before) :
               \E e \in Extract(src) : Composite(e) = Composite(r),
           WrittenOn(before,
                   {RecordOf(o) : o \in BuildResult(Extract(src), {}).operations},
                   after)
    PROVE  /\ \A r \in src : Unresolved(Extracted(r), Extract(src), {}) = {}
           /\ \A r \in src : \E w \in after : IsCopy(w, r)
           /\ \A w \in after : \E r \in src : IsCopy(w, r)
<1>. DEFINE E       == Extract(src)
            W(e)    == RecordOf(Operation(e, E, {}))
            records == {W(e) : e \in E}
<1>1. Planned(E) = E
  <2>1. \A r \in src : Extracted(r).level # "UNMAPPABLE"
    BY ExtractedFields DEF Level
  <2>2. \A e \in E : e.level # "UNMAPPABLE"
    BY <2>1 DEF Extract
  <2>. QED  BY <2>2 DEF Planned
<1>2. {RecordOf(o) : o \in BuildResult(E, {}).operations} = records
  <2>1. BuildResult(E, {}).operations = {Operation(e, E, {}) : e \in E}
    BY <1>1 DEF BuildResult
  <2>. QED  BY <2>1
<1>3. \A r \in src : Unresolved(Extracted(r), E, {}) = {}
  <2>. SUFFICES ASSUME NEW r \in src, NEW x \in Unresolved(Extracted(r), E, {})
                PROVE  FALSE
    OBVIOUS
  <2>1. Extracted(r) \in Planned(E)
    BY <1>1 DEF Extract
  <2>2. <<Extracted(r).id, x>> \in BuildResult(E, {}).unresolved
    BY <2>1 DEF BuildResult
  <2>. QED  BY <2>2
<1>4. ASSUME NEW e \in E PROVE Place(W(e)) = Composite(e)
  <2>1. PICK r \in src : e = Extracted(r)
    BY DEF Extract
  <2>2. W(e).kind = r.kind /\ W(e).key = NaturalKey(e)
    BY <1>3, <2>1, CompleteRecord DEF IsCopy
  <2>. QED  BY <2>1, <2>2, ExtractedFields DEF Place, Composite
<1>. HIDE DEF W
<1>5. PICK last \in SUBSET records :
          /\ \A r \in records : \E w \in last : Place(w) = Place(r)
          /\ after = Stored(before, last)
  BY <1>2 DEF WrittenOn
<1>6. last = records
  <2>. SUFFICES ASSUME NEW e \in E PROVE W(e) \in last
    BY <1>5
  <2>1. PICK w \in last : Place(w) = Place(W(e))
    BY <1>5
  <2>2. PICK d \in E : w = W(d)
    BY <1>5
  <2>3. d = e
    BY <1>4, <2>1, <2>2 DEF Distinct
  <2>. QED  BY <2>1, <2>2, <2>3
<1>7. ASSUME NEW r \in before PROVE Place(r) \in {Place(w) : w \in records}
  <2>1. Place(r) = Composite(Extracted(r)) /\ Extracted(r) \in Extract(before)
    BY DEF IsKeyed, Extract
  <2>2. PICK e \in E : Composite(e) = Place(r)
    BY <2>1
  <2>3. Place(r) = Place(W(e)) /\ W(e) \in records
    BY <1>4, <2>2
  <2>. QED  BY <2>3
<1>8. after = records
  BY <1>5, <1>6, <1>7 DEF Stored
<1>9. ASSUME NEW r \in src PROVE W(Extracted(r)) \in after /\ IsCopy(W(Extracted(r)), r)
  <2>1. IsCopy(W(Extracted(r)), r)
    BY <1>3, CompleteRecord DEF W
  <2>2. Extracted(r) \in E
    BY DEF Extract
  <2>. QED  BY <1>8, <2>1, <2>2
<1>10. ASSUME NEW w \in after PROVE \E r \in src : IsCopy(w, r)
  <2>1. PICK e \in E : w = W(e)
    BY <1>8
  <2>2. PICK r \in src : e = Extracted(r)
    BY DEF Extract
  <2>. QED  BY <1>9, <2>1, <2>2
<1>. QED  BY <1>3, <1>9, <1>10

\* A copy has the key of what it is a copy of, and its references.
LEMMA CopyHasTheKey ==
    ASSUME NEW r, NEW w, IsCopy(w, r)
    PROVE  /\ Composite(Extracted(w)) = Composite(Extracted(r))
           /\ Extracted(w).refs = Extracted(r).refs
           /\ r.kind # "Line" => w.key = r.key
<1>1. w.kind = r.kind /\ w.site = r.site /\ w.owner = r.owner
      /\ w.says = Written(Extracted(r)) /\ w.key = NaturalKey(Extracted(r))
  BY DEF IsCopy
<1>2. Extracted(w).refs = Extracted(r).refs
  BY <1>1, ExtractedFields
<1>3. CASE r.kind = "Line"
  <2>1. w.says.extension = r.says.extension
    BY <1>1, <1>3, WrittenExtension
  <2>. QED  BY <1>1, <1>2, <1>3, <2>1, CompositeOf
<1>4. CASE r.kind # "Line"
  <2>1. w.key = r.key
    BY <1>1, <1>4, ExtractedFields DEF NaturalKey
  <2>. QED  BY <1>1, <1>2, <1>4, <2>1, CompositeOf
<1>. QED  BY <1>3, <1>4

\* A copy of a plain record says the same.
LEMMA CopyOfASite ==
    ASSUME NEW r, NEW w, IsCopy(w, r), IsPlain(r), r.kind = "EmergencyLocation",
           r.says.validated => r.says.on # None
    PROVE  Attributes(w) = Attributes(r)
<1>. DEFINE said == Extracted(r).said
<1>1. /\ w.kind = "EmergencyLocation" /\ w.says = Written(Extracted(r)) /\ w.key = r.key
      /\ Extracted(r).kind = "EmergencyLocation"
  BY CopyHasTheKey, ExtractedFields DEF IsCopy
<1>2. said = [display |-> r.says.name, name |-> r.says.name,
              dispatchable |-> r.says.dispatchable, validated |-> r.says.validated,
              at |-> IF r.says.validated THEN r.says.on ELSE None,
              dynamic |-> r.says.dynamic]
  BY ExtractedFields DEF Attributes, IsPlain
<1>3. w.says = [name |-> said.name, dispatchable |-> said.dispatchable,
                validated |-> said.validated, on |-> DatePart(said.at),
                dynamic |-> said.dynamic]
  BY <1>1 DEF Written
<1>. HIDE DEF said
<1>4. /\ w.says.name = r.says.name /\ w.says.dispatchable = r.says.dispatchable
      /\ w.says.validated = r.says.validated /\ w.says.dynamic = r.says.dynamic
      /\ w.says.on = DatePart(said.at)
  BY <1>2, <1>3
<1>5. r.says.validated => w.says.on = r.says.on
  <2>1. r.says.validated => said.at = r.says.on
    BY <1>2
  <2>2. r.says.validated => DatePart(r.says.on) = r.says.on
    BY DEF IsPlain
  <2>. QED  BY <1>4, <2>1, <2>2
<1>6. r.says.name # None
  BY DEF IsPlain
<1>. QED  BY <1>1, <1>4, <1>5, <1>6 DEF Attributes

LEMMA CopyOfAUser ==
    ASSUME NEW r, NEW w, IsCopy(w, r), IsPlain(r), r.kind = "User"
    PROVE  Attributes(w) = Attributes(r)
<1>. DEFINE said == Extracted(r).said
<1>1. /\ w.kind = "User" /\ w.says = Written(Extracted(r)) /\ w.key = r.key
      /\ Extracted(r).kind = "User"
  BY CopyHasTheKey, ExtractedFields DEF IsCopy
<1>2. r.says.first # ABSENT /\ r.says.last # ABSENT
  BY DEF IsPlain
<1>3. /\ said.given = r.says.first /\ said.surname = r.says.last
      /\ said.voice = r.says.voice
  <2>. DEFINE display == IF Word(r.says.first) = "" /\ Word(r.says.last) = ""
                         THEN r.key ELSE <<Word(r.says.first), Word(r.says.last)>>
  <2>1. FieldOf(r.says.first) = r.says.first /\ FieldOf(r.says.last) = r.says.last
    BY <1>2 DEF FieldOf
  <2>2. said = [display |-> display, given |-> FieldOf(r.says.first),
                surname |-> FieldOf(r.says.last), voice |-> r.says.voice]
    BY ExtractedFields DEF Attributes
  <2>. HIDE DEF said, display
  <2>. QED  BY <2>1, <2>2
<1>4. w.says = [first |-> said.given, last |-> said.surname, voice |-> said.voice,
                cor |-> None]
  BY <1>1 DEF Written
<1>. HIDE DEF said
<1>5. /\ w.says.first = r.says.first /\ w.says.last = r.says.last
      /\ w.says.voice = r.says.voice
  BY <1>3, <1>4
<1>. QED  BY <1>1, <1>5 DEF Attributes

LEMMA CopySaysTheSame ==
    ASSUME NEW src \in Sources, NEW r \in src, NEW w, IsCopy(w, r), IsPlain(r)
    PROVE  Extracted(w).said = Extracted(r).said
<1>1. w.kind = r.kind /\ w.owner = r.owner /\ w.says = Written(Extracted(r))
  BY DEF IsCopy
<1>2. r.kind \in Collections
      /\ (r.kind = "EmergencyLocation" /\ r.says.validated => r.says.on # None)
  BY RoundTripAssumption DEF IsEstate
<1>3. CASE r.kind = "EmergencyLocation"
  <2>1. r.says.validated => r.says.on # None
    BY <1>2, <1>3
  <2>2. Attributes(w) = Attributes(r)
    BY <1>3, <2>1, CopyOfASite
  <2>. QED  BY <2>2, ExtractedFields
<1>4. CASE r.kind = "User"
  BY <1>4, CopyOfAUser, ExtractedFields
<1>5. CASE r.kind = "E164Number"
  <2>1. Extracted(r).said = [elin |-> r.says.elin, assigned |-> r.owner # None]
        /\ Extracted(r).kind = "E164Number"
    BY <1>5, ExtractedFields DEF Attributes
  <2>2. w.says = [elin |-> Extracted(r).said.elin]
    BY <1>1, <2>1 DEF Written
  <2>3. w.says.elin = r.says.elin
    BY <2>1, <2>2
  <2>4. Extracted(w).said = [elin |-> w.says.elin, assigned |-> w.owner # None]
    BY <1>1, <1>5, ExtractedFields DEF Attributes
  <2>. QED  BY <1>1, <2>1, <2>3, <2>4
<1>6. CASE r.kind = "Line"
  <2>1. w.says.extension = r.says.extension
    BY <1>1, <1>6, WrittenExtension
  <2>. QED  BY <1>1, <1>6, <2>1, ExtractedFields DEF Attributes
<1>. QED  BY <1>2, <1>3, <1>4, <1>5, <1>6 DEF Collections

\* References that were resolved compare as equal once all that was planned is
\* on the target.
LEMMA CopyLooksAlike ==
    ASSUME NEW src \in Sources, NEW after,
           \A x \in src : \E y \in after : IsCopy(y, x),
           NEW r \in src, Unresolved(Extracted(r), Extract(src), {}) = {},
           NEW w, IsCopy(w, r), IsPlain(r)
    PROVE  View(Extracted(r), Extract(src)) = View(Extracted(w), Extract(after))
<1>. DEFINE E == Extract(src)
            F == Extract(after)
            e == Extracted(r)
            f == Extracted(w)
<1>1. f.said = e.said /\ f.site = e.site /\ f.refs = e.refs
      /\ f.owner = e.owner /\ f.number = e.number
  <2>1. f.said = e.said /\ f.refs = e.refs
    BY CopySaysTheSame, CopyHasTheKey
  <2>2. w.site = r.site /\ w.owner = r.owner /\ w.number = r.number
    BY DEF IsCopy
  <2>3. f.site = e.site /\ f.owner = e.owner /\ f.number = e.number
    BY <2>2, ExtractedFields
  <2>. QED  BY <2>1, <2>3
<1>2. ASSUME NEW kind \in {"User", "E164Number", "EmergencyLocation"}, NEW key,
             <<kind, key>> \in References(e), <<kind, key>> # None
      PROVE  Neutral(<<kind, key>>, E) = Neutral(<<kind, key>>, F)
  <2>1. kind \in Collections \ {"Line"}
    BY DEF Collections
  <2>2. PICK x \in src : x.kind = kind /\ x.key = key
    BY <1>2, <2>1, ResolvedNames
  <2>3. PICK y \in after : IsCopy(y, x)
    OBVIOUS
  <2>4. y.kind = kind /\ y.key = key
    BY <2>1, <2>2, <2>3, ExtractedFields DEF IsCopy, NaturalKey
  <2>5. Names(src, kind, key) /\ Names(after, kind, key)
    BY <2>2, <2>4 DEF Names
  <2>. QED  BY <1>2, <2>5, NeutralOfKey
<1>3. /\ e.owner = RefTo("User", r.owner) /\ e.number = RefTo("E164Number", r.number)
      /\ e.refs = IF r.kind = "E164Number" /\ r.site # None
                  THEN {<<"EmergencyLocation", r.site>>} ELSE {}
  BY ExtractedFields
<1>4. \A key \in NativeKeys : /\ <<"User", key>> # None /\ <<"E164Number", key>> # None
                            /\ <<"EmergencyLocation", key>> # None
  BY NoneIsNothingElse DEF Collections
<1>5. r.owner \in NativeKeys /\ r.number \in NativeKeys /\ r.site \in NativeKeys
  BY DEF NativeKeys
<1>6. ASSUME NEW ref \in {e.owner, e.number} PROVE Neutral(ref, E) = Neutral(ref, F)
  <2>1. CASE ref = None
    BY <2>1, NeutralOfNone
  <2>2. CASE ref # None
    <3>1. ref \in References(e)
      BY <1>6, <2>2 DEF References
    <3>2. PICK kind \in {"User", "E164Number"}, key \in NativeKeys : ref = <<kind, key>>
      BY <1>3, <1>5, <1>6, <2>2 DEF RefTo
    <3>. QED  BY <1>2, <2>2, <3>1, <3>2
  <2>. QED  BY <2>1, <2>2
<1>7. ASSUME NEW ref \in e.refs PROVE Neutral(ref, E) = Neutral(ref, F)
  <2>1. ref = <<"EmergencyLocation", r.site>>
    BY <1>3, <1>7
  <2>2. ref \in References(e) /\ ref # None
    BY <1>4, <1>5, <1>7, <2>1 DEF References
  <2>. QED  BY <1>2, <2>1, <2>2
<1>. HIDE DEF E, F, e, f
<1>8. View(e, E) = View(f, F)
  BY <1>1, <1>6, <1>7 DEF View
<1>. QED  BY <1>8 DEF E, F, e, f

\* An estate of plain records and a target of copies of it pass every check but that of the
\* locations; and that one, when no number lacks one.
LEMMA CopiesPass ==
    ASSUME NEW src \in Sources, Distinct(Extract(src)), NEW after, KeyedTarget(after),
           \A r \in src : Unresolved(Extracted(r), Extract(src), {}) = {},
           \A r \in src : IsPlain(r),
           \A r \in src : \E w \in after : IsCopy(w, r),
           \A w \in after : \E r \in src : IsCopy(w, r),
           NEW s \in ByKey(Extract(src)), NEW t \in ByKey(Extract(after))
    PROVE  /\ ~Short(Extract(src), Extract(after))
           /\ Differences(Extract(src), s, Extract(after), t) = {}
           /\ Unrouted(Extract(after)) = {}
           /\ (\A n \in OfKind(Extract(src), "E164Number") : n.refs # {})
                 => Unlocated(Extract(after)) = {}
<1>. DEFINE E == Extract(src)
            F == Extract(after)
<1>1. IsEstate(src) /\ IsFiniteSet(E) /\ IsFiniteSet(F) /\ Distinct(F)
  BY RoundTripAssumption, ExtractIsFinite, KeyedIsDistinct DEF IsEstate, KeyedTarget
<1>2. s = E /\ t = F
  BY <1>1, DistinctByKey
<1>3. ASSUME NEW e \in E
      PROVE  \E f \in F : Composite(f) = Composite(e) /\ f.kind = e.kind
  <2>1. PICK r \in src : e = Extracted(r)
    BY DEF Extract
  <2>2. PICK w \in after : IsCopy(w, r)
    OBVIOUS
  <2>3. Composite(Extracted(w)) = Composite(e) /\ Extracted(w) \in F
    BY <2>1, <2>2, CopyHasTheKey DEF Extract
  <2>. QED  BY <2>3 DEF Composite
<1>4. ASSUME NEW f \in F
      PROVE  \E r \in src, w \in after : f = Extracted(w) /\ IsCopy(w, r)
  BY DEF Extract
<1>5. ASSUME NEW f \in F
      PROVE  \E e \in E : Composite(e) = Composite(f) /\ View(e, E) = View(f, F)
  <2>1. PICK r \in src, w \in after : f = Extracted(w) /\ IsCopy(w, r)
    BY <1>4
  <2>2. Extracted(r) \in E /\ Composite(Extracted(r)) = Composite(f)
    BY <2>1, CopyHasTheKey DEF Extract
  <2>3. View(Extracted(r), E) = View(f, F)
    BY <2>1, CopyLooksAlike
  <2>. QED  BY <2>2, <2>3
<1>6. ~Short(E, F)
  <2>. SUFFICES ASSUME NEW k \in Collections
                PROVE  ~(Cardinality(OfKind(F, k)) < Cardinality(OfKind(E, k)))
    BY DEF Short
  <2>. DEFINE Ek == OfKind(E, k)
              Fk == OfKind(F, k)
              g  == [e \in Ek |-> CHOOSE f \in F : Composite(f) = Composite(e)
                                                  /\ f.kind = e.kind]
  <2>1. IsFiniteSet(Ek) /\ IsFiniteSet(Fk)
    BY <1>1, FS_Subset DEF OfKind
  <2>2. \A e \in Ek : g[e] \in Fk /\ Composite(g[e]) = Composite(e)
    <3>. SUFFICES ASSUME NEW e \in Ek
                  PROVE  g[e] \in Fk /\ Composite(g[e]) = Composite(e)
      OBVIOUS
    <3>1. e \in E /\ e.kind = k
      BY DEF OfKind
    <3>. HIDE DEF E, F
    <3>2. g[e] \in F /\ Composite(g[e]) = Composite(e) /\ g[e].kind = e.kind
      BY <1>3, <3>1
    <3>. QED  BY <3>1, <3>2 DEF OfKind
  <2>3. \A d, e \in Ek : g[d] = g[e] => d = e
    <3>. HIDE DEF g
    <3>1. Ek \subseteq E
      BY DEF OfKind
    <3>. QED  BY <2>2, <3>1 DEF Distinct
  <2>4. g \in Injection(Ek, Fk)
    BY <2>2, <2>3 DEF Injection, IsInjective
  <2>5. /\ Cardinality(Ek) <= Cardinality(Fk)
        /\ Cardinality(Ek) \in Nat /\ Cardinality(Fk) \in Nat
    BY <2>1, <2>4, FS_Injection, FS_CardinalityType
  <2>. QED  BY <2>5
<1>7. Differences(E, E, F, F) = {}
  <2>. DEFINE keys(some) == {Composite(e) : e \in some}
  <2>. HIDE DEF E, F
  <2>1. keys(E) \subseteq keys(F)
    BY <1>3
  <2>2. keys(F) \subseteq keys(E)
    BY <1>5
  <2>3. ASSUME NEW x \in E, NEW y \in F, Composite(x) = Composite(y)
        PROVE  View(x, E) = View(y, F)
    <3>1. PICK e \in E : Composite(e) = Composite(y) /\ View(e, E) = View(y, F)
      BY <1>5
    <3>2. e = x
      BY <2>3, <3>1 DEF Distinct, E
    <3>. QED  BY <3>1, <3>2
  <2>4. keys(E) = keys(F)
    BY <2>1, <2>2
  <2>5. {d \in keys(E) \cap keys(F) :
            \E x \in E, y \in F : /\ Composite(x) = d /\ Composite(y) = d
                                  /\ View(x, E) # View(y, F)} = {}
    BY <2>3
  <2>. QED  BY <2>4, <2>5 DEF Differences
<1>8. Unrouted(F) = {}
  <2>. SUFFICES ASSUME NEW n \in F, n.kind = "E164Number", n.said.assigned, n.owner = None
                PROVE  FALSE
    BY DEF Unrouted, OfKind
  <2>1. PICK r \in src, w \in after : n = Extracted(w) /\ IsCopy(w, r)
    BY <1>4
  <2>2. r.kind = "E164Number" /\ w.owner = r.owner
    <3>1. w.kind = r.kind /\ w.owner = r.owner
      BY <2>1 DEF IsCopy
    <3>2. n.kind = w.kind
      BY <2>1, ExtractedFields
    <3>. QED  BY <3>1, <3>2
  <2>3. n.said = Attributes(r)
    <3>1. IsPlain(r)
      OBVIOUS
    <3>2. Extracted(w).said = Extracted(r).said
      BY <2>1, <3>1, CopySaysTheSame
    <3>. QED  BY <2>1, <3>2, ExtractedFields
  <2>4. n.said = [elin |-> r.says.elin, assigned |-> r.owner # None]
    BY <2>2, <2>3 DEF Attributes
  <2>5. r.owner # None
    <3>0. \A x, b : [elin |-> x, assigned |-> b].assigned = b
      OBVIOUS
    <3>1. n.said.assigned = (r.owner # None)
      BY <2>4, <3>0, Zenon
    <3>2. n.said.assigned
      OBVIOUS
    <3>. QED  BY ONLY <3>1, <3>2, Zenon
  <2>6. <<"User", r.owner>> # None
    <3>1. r.owner \in NativeKeys
      BY DEF NativeKeys
    <3>. QED  BY <3>1, NoneIsNothingElse DEF Collections
  <2>7. n.owner = RefTo("User", r.owner)
    <3>1. n.owner = RefTo("User", w.owner)
      BY <2>1, ExtractedFields
    <3>. QED  BY <2>2, <3>1
  <2>. QED  BY <2>5, <2>6, <2>7 DEF RefTo
<1>9. ASSUME \A n \in OfKind(E, "E164Number") : n.refs # {} PROVE Unlocated(F) = {}
  <2>. SUFFICES ASSUME NEW n \in F, n.kind = "E164Number"
                PROVE  \E l \in OfKind(F, "EmergencyLocation") : l.id \in n.refs
    BY DEF Unlocated, OfKind
  <2>1. PICK r \in src, w \in after : n = Extracted(w) /\ IsCopy(w, r)
    BY <1>4
  <2>2. r.kind = "E164Number" /\ n.refs = Extracted(r).refs
    <3>1. w.kind = r.kind
      BY <2>1 DEF IsCopy
    <3>2. n.kind = w.kind
      BY <2>1, ExtractedFields
    <3>3. n.refs = Extracted(r).refs
      BY <2>1, CopyHasTheKey
    <3>. QED  BY <3>1, <3>2, <3>3
  <2>3. Extracted(r).refs # {}
    <3>1. Extracted(r) \in OfKind(E, "E164Number")
      BY <2>2, ExtractedFields DEF OfKind, Extract
    <3>. QED  BY <1>9, <3>1
  <2>4. n.refs = {<<"EmergencyLocation", r.site>>}
    BY <2>2, <2>3, ExtractedFields
  <2>5. <<"EmergencyLocation", r.site>> \in References(Extracted(r))
    BY <2>2, <2>4 DEF References
  <2>6. PICK x \in src : x.kind = "EmergencyLocation" /\ x.key = r.site
    <3>1. "EmergencyLocation" \in Collections \ {"Line"}
      BY DEF Collections
    <3>. QED  BY <2>5, <3>1, ResolvedNames
  <2>7. PICK y \in after : IsCopy(y, x)
    OBVIOUS
  <2>8. y.kind = "EmergencyLocation" /\ y.key = r.site
    BY <2>6, <2>7, ExtractedFields DEF IsCopy, NaturalKey
  <2>9. Extracted(y).id = <<"EmergencyLocation", r.site>>
        /\ Extracted(y).kind = "EmergencyLocation" /\ Extracted(y) \in F
    BY <2>8, ExtractedFields DEF Extract
  <2>. QED  BY <2>4, <2>9 DEF OfKind
<1>. QED  BY <1>2, <1>6, <1>7, <1>8, <1>9

\* EMG-001 finds the numbers without a location, ELINs apart.
LEMMA ReadyMeansLocated ==
    ASSUME NEW E, ReadyToPlan(Assessed(E)),
           \A n \in OfKind(E, "E164Number") : ~n.said.elin
    PROVE  \A n \in OfKind(E, "E164Number") : n.refs # {}
<1>1. RuleOf(E)["EMG001"] = {n \in OfKind(E, "E164Number") : n.refs = {} /\ ~n.said.elin}
  BY DEF RuleOf
<1>2. RuleOf(E)["EMG001"] = {}
  <2>. SUFFICES ASSUME RuleOf(E)["EMG001"] # {} PROVE FALSE
    OBVIOUS
  <2>. DEFINE found == [rule |-> "EMG001", severity |-> SeverityOf["EMG001"],
                        status |-> "OPEN"]
  <2>1. "EMG001" \in DOMAIN SeverityOf /\ SeverityOf["EMG001"] = "BLOCKER"
    BY DEF SeverityOf
  <2>2. found \in Assessed(E)
    BY <2>1 DEF Assessed
  <2>3. found.severity = "BLOCKER"
    BY <2>1
  <2>. QED  BY <2>2, <2>3 DEF ReadyToPlan
<1>. QED  BY <1>1, <1>2

-----------------------------------------------------------------------------
\* The types, for any estates: the snapshot is of the estate discovered last and
\* the report of one that was, a blocker is never waived, a place of the target
\* holds one record.
THEOREM RoundTripTypes == Spec => []TypeOK
<1>1. Inv => TypeOK
  BY DEF Inv
<1>. QED  BY <1>1, InvHolds, PTL

\* A pass means that the estate whose snapshot was read is on the target, with
\* what the connector reads of it, its owners and its numbers, whatever failed,
\* was rolled back, discovered meanwhile or there before, for any estates on a
\* target that keeps its records under their natural keys (validate, reconcile,
\* _object_counts).
THEOREM PassMeansCarriedOver == Spec => []PassedMeansCarriedOver
<1>1. Inv => PassedMeansCarriedOver
  <2>. SUFFICES ASSUME Inv, validation # None, Passed(validation),
                       NEW r \in validation.of
                PROVE  \E w \in validation.held :
                          Carried(r, validation.of, w, validation.held)
    BY DEF PassedMeansCarriedOver
  <2>. DEFINE S == validation.of
              T == validation.held
  <2>1. S \in Sources /\ IsEstate(S)
    BY RoundTripAssumption DEF Inv, TypeOK, ReportOfEstates
  <2>2. KeyedTarget(T)
    BY DEF Inv, ReportOfEstates
  <2>3. PICK s \in ByKey(Extract(S)), t \in ByKey(Extract(T)) :
            Failed(Extract(S), Extract(T),
                   Differences(Extract(S), s, Extract(T), t)) = {}
    BY DEF Inv, ReportOfEstates, Passed
  <2>4. PICK w \in T :
            /\ Composite(Extracted(w)) = Composite(Extracted(r))
            /\ View(Extracted(r), Extract(S)) = View(Extracted(w), Extract(T))
    BY <2>1, <2>2, <2>3, PassedMeansAlike DEF KeyedTarget
  <2>5. Carried(r, S, w, T)
    BY <2>1, <2>2, <2>4, AlikeMeansCarried DEF KeyedTarget
  <2>. QED  BY <2>5
<1>. QED  BY <1>1, InvHolds, PTL

\* A run that completed, of a plan without unresolved references, of an estate
\* of plain records with distinct keys, on a target that held nothing besides, passes every check
\* but that of the locations, and that one too when the assessment found no
\* blocker and no number is an ELIN, for any estates (build_apply_plan, the
\* record builders, _extract_batches, reconcile).
THEOREM ACompletedRunPasses == Spec => []CompletedRunsPass
<1>1. Inv => CompletedRunsPass
  <2>. SUFFICES ASSUME Inv, validation # None, run # None,
                       validation.held = run.after,
                       run.planned = Extract(validation.of),
                       run.succeeded = run.plan.operations,
                       run.plan.unresolved = {}, Distinct(run.planned),
                       \A r \in validation.of : IsPlain(r),
                       \A r \in Extract(run.before) :
                          \E e \in run.planned : Composite(e) = Composite(r)
                PROVE  /\ validation.failed \subseteq {"VAL-003"}
                       /\ /\ ReadyToPlan(Assessed(run.planned))
                          /\ \A n \in OfKind(run.planned, "E164Number") : ~n.said.elin
                          => Passed(validation)
    BY DEF CompletedRunsPass
  <2>. DEFINE src == validation.of
              T   == validation.held
  <2>1. src \in Sources
    BY DEF Inv, TypeOK, ReportOfEstates
  <2>2. /\ KeyedTarget(run.before)
        /\ WrittenOn(run.before,
                   {RecordOf(o) : o \in BuildResult(Extract(src), {}).operations}, T)
        /\ BuildResult(Extract(src), {}).unresolved = {}
    BY DEF Inv, RunOfItsPlan
  <2>3. KeyedTarget(T)
    BY DEF Inv, ReportOfEstates
  <2>4. PICK s \in ByKey(Extract(src)), t \in ByKey(Extract(T)) :
            validation.failed = Failed(Extract(src), Extract(T),
                                       Differences(Extract(src), s, Extract(T), t))
    BY DEF Inv, ReportOfEstates
  <2>5. /\ \A r \in src : Unresolved(Extracted(r), Extract(src), {}) = {}
        /\ \A r \in src : \E w \in T : IsCopy(w, r)
        /\ \A w \in T : \E r \in src : IsCopy(w, r)
    <3>1. IsKeyed(run.before)
      BY <2>2 DEF KeyedTarget
    <3>2. Distinct(Extract(src))
      OBVIOUS
    <3>3. \A r \in Extract(run.before) :
              \E e \in Extract(src) : Composite(e) = Composite(r)
      OBVIOUS
    <3>. HIDE DEF src, T
    <3>. QED  BY <2>1, <2>2, <3>1, <3>2, <3>3, CompletedTarget
  <2>6. /\ ~Short(Extract(src), Extract(T))
        /\ Differences(Extract(src), s, Extract(T), t) = {}
        /\ Unrouted(Extract(T)) = {}
        /\ (\A n \in OfKind(Extract(src), "E164Number") : n.refs # {})
              => Unlocated(Extract(T)) = {}
    <3>1. Distinct(Extract(src))
      OBVIOUS
    <3>2. \A r \in src : IsPlain(r)
      OBVIOUS
    <3>. HIDE DEF src, T
    <3>. QED  BY <2>1, <2>3, <2>4, <2>5, <3>1, <3>2, CopiesPass
  <2>7. validation.failed \subseteq {"VAL-003"}
    BY <2>4, <2>6 DEF Failed
  <2>8. ASSUME ReadyToPlan(Assessed(run.planned)),
               \A n \in OfKind(run.planned, "E164Number") : ~n.said.elin
        PROVE  Passed(validation)
    <3>1. \A n \in OfKind(Extract(src), "E164Number") : n.refs # {}
      BY <2>8, ReadyMeansLocated
    <3>. QED  BY <2>4, <2>6, <3>1 DEF Failed, Passed
  <2>. QED  BY <2>7, <2>8
<1>. QED  BY <1>1, InvHolds, PTL
=============================================================================
