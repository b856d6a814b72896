-------------------------- MODULE AuditChainProofs --------------------------
(***************************************************************************)
(* Theorems about AuditChain, for any number of records and edits.         *)
(***************************************************************************)
EXTENDS AuditChain, SequenceTheorems, TLAPS

-----------------------------------------------------------------------------
(***************************************************************************)
(* Lemmas about sequences.                                                 *)
(***************************************************************************)

\* A list, whatever it lists: what a hash is made of is left open.
Shape(s) == s \in Seq(Range(s))

\* A sequence over some set has that shape.
LEMMA HasShape == ASSUME NEW S, NEW s \in Seq(S) PROVE Shape(s)
<1>1. /\ Len(s) \in Nat /\ DOMAIN s = 1..Len(s)
      /\ s \in [1..Len(s) -> S]
  BY LenProperties
<1>2. \A i \in 1..Len(s) : s[i] \in Range(s)
  BY <1>1 DEF Range
<1>3. s \in [1..Len(s) -> Range(s)]
  BY <1>1, <1>2
<1> QED
  BY <1>1, <1>3, SeqDef DEF Shape

\* What appending to a list does, and that it leaves a list.
LEMMA AppendShape ==
    ASSUME NEW s, Shape(s), NEW x
    PROVE  /\ Shape(Append(s, x))
           /\ Len(s) \in Nat /\ Len(Append(s, x)) = Len(s) + 1
           /\ DOMAIN s = 1..Len(s) /\ DOMAIN Append(s, x) = 1..Len(s) + 1
           /\ \A i \in 1..Len(s) : Append(s, x)[i] = s[i]
           /\ Append(s, x)[Len(s) + 1] = x
           /\ Append(s, x) # <<>>
<1> DEFINE S == Range(s) \cup {x}
<1>1. s \in Seq(S)
  BY SeqMonotonic, Range(s) \subseteq S DEF Shape
<1>2. Append(s, x) \in Seq(S) /\ Len(Append(s, x)) = Len(s) + 1
  BY <1>1, AppendProperties
<1>3. Shape(Append(s, x))
  BY <1>2, HasShape
<1>4. Len(s) \in Nat /\ DOMAIN s = 1..Len(s)
  BY <1>1, LenProperties
<1>5. /\ \A i \in 1..Len(s) : Append(s, x)[i] = s[i]
      /\ Append(s, x)[Len(s) + 1] = x
  BY <1>1, AppendProperties
<1>6. DOMAIN Append(s, x) = 1..Len(s) + 1
  BY <1>2, LenProperties
<1>7. Append(s, x) # <<>>
  BY <1>2, <1>4, Len(<<>>) = 0
<1> QED
  BY <1>3, <1>2, <1>4, <1>5, <1>6, <1>7

\* Overwriting an element of a list leaves a list.
LEMMA ExceptShape ==
    ASSUME NEW s, Shape(s), NEW i \in DOMAIN s, NEW x
    PROVE  /\ Shape([s EXCEPT ![i] = x])
           /\ DOMAIN [s EXCEPT ![i] = x] = DOMAIN s
           /\ \A j \in DOMAIN s :
                [s EXCEPT ![i] = x][j] = IF j = i THEN x ELSE s[j]
<1> DEFINE S == Range(s) \cup {x}
<1>1. s \in Seq(S)
  BY SeqMonotonic, Range(s) \subseteq S DEF Shape
<1>2. DOMAIN s = 1..Len(s) /\ i \in 1..Len(s)
  BY <1>1, LenProperties
<1>3. [s EXCEPT ![i] = x] \in Seq(S)
  BY <1>1, <1>2, ExceptSeq
<1> QED
  BY <1>3, <1>2, HasShape

\* Removing an element of a list leaves a list of other elements of it.
LEMMA RemoveAtShape ==
    ASSUME NEW s, Shape(s), NEW i \in DOMAIN s
    PROVE  /\ Shape(RemoveAt(s, i))
           /\ \A j \in DOMAIN RemoveAt(s, i) :
                \E k \in DOMAIN s : RemoveAt(s, i)[j] = s[k]
<1>1. Len(s) \in Nat /\ DOMAIN s = 1..Len(s) /\ i \in 1..Len(s)
  BY LenProperties DEF Shape
<1>2. SubSeq(s, 1, i - 1) \in Seq(Range(s))
  BY <1>1, SubSeqProperties DEF Range
<1>3. SubSeq(s, i + 1, Len(s)) \in Seq(Range(s))
  BY <1>1, SubSeqProperties DEF Range
<1>4. RemoveAt(s, i) \in Seq(Range(s))
  BY <1>2, <1>3, ConcatProperties DEF RemoveAt
<1>5. \A j \in DOMAIN RemoveAt(s, i) : RemoveAt(s, i)[j] \in Range(s)
  BY <1>4, ElementOfSeq, LenProperties
<1> QED
  BY <1>4, <1>5, HasShape DEF Range

\* The record append makes.
Fresh(rs, body) ==
    LET draft == [sequence |-> Len(rs), body |-> body,
                  previous_hash |-> HeadHash(rs)]
    IN  [sequence |-> draft.sequence, body |-> draft.body,
         previous_hash |-> draft.previous_hash, record_hash |-> Digest(draft)]

\* append puts that record behind the others; it hashes to what it says.
LEMMA AppendedIs ==
    ASSUME NEW rs, Shape(rs), NEW body
    PROVE  /\ Appended(rs, body) = Append(rs, Fresh(rs, body))
           /\ Last(Appended(rs, body)) = Fresh(rs, body)
           /\ Fresh(rs, body).record_hash = Digest(Content(Fresh(rs, body)))
<1>1. Appended(rs, body) = Append(rs, Fresh(rs, body))
  BY DEF Appended, Fresh, NextSequence
<1>2. Last(Appended(rs, body)) = Fresh(rs, body)
  BY <1>1, AppendShape DEF Last
<1>3. Fresh(rs, body).record_hash = Digest(Content(Fresh(rs, body)))
  BY DEF Fresh, Content
<1> QED
  BY <1>1, <1>2, <1>3

-----------------------------------------------------------------------------
(***************************************************************************)
(* A log nobody edited.                                                    *)
(***************************************************************************)

\* Both lists are lists, and an unfinished line is one.
Shapes == /\ Shape(records) /\ Shape(file)
          /\ open => file # <<>>

\* While nothing went wrong the file verifies and is what is in memory.
Sound == damages = 0 /\ ~failed =>
             /\ ~open
             /\ Verifies(file)
             /\ up => file = records

SoundInv == Shapes /\ Sound /\ damages \in Nat

\* A verifying list still verifies with the record append adds to it.
LEMMA AppendVerifies ==
    ASSUME NEW rs, Shape(rs), Verifies(rs), NEW body
    PROVE  Verifies(Append(rs, Fresh(rs, body)))
<1> DEFINE r == Fresh(rs, body)
           longer == Append(rs, r)
<1>1. /\ Len(rs) \in Nat /\ DOMAIN rs = 1..Len(rs)
      /\ DOMAIN longer = 1..Len(rs) + 1
      /\ \A i \in 1..Len(rs) : longer[i] = rs[i]
      /\ longer[Len(rs) + 1] = r
  BY AppendShape
<1>2. ASSUME NEW i \in 1..Len(rs)
      PROVE  /\ longer[i].sequence = i - 1
             /\ longer[i].previous_hash = Expected(longer, i)
             /\ longer[i].record_hash = Digest(Content(longer[i]))
  <2>1. /\ rs[i].sequence = i - 1
        /\ rs[i].previous_hash = Expected(rs, i)
        /\ rs[i].record_hash = Digest(Content(rs[i]))
    BY <1>1 DEF Verifies
  <2>2. i # 1 => i - 1 \in 1..Len(rs)
    BY <1>1
  <2>3. Expected(longer, i) = Expected(rs, i)
    BY <1>1, <2>2 DEF Expected
  <2> QED
    BY <1>1, <2>1, <2>3
<1>3. /\ r.sequence = Len(rs)
      /\ r.previous_hash = HeadHash(rs)
      /\ r.record_hash = Digest(Content(r))
  BY AppendedIs DEF Fresh
<1>4. HeadHash(rs) = Expected(longer, Len(rs) + 1)
  <2>1. CASE rs = <<>>
    BY <2>1, <1>1, Len(<<>>) = 0 DEF HeadHash, Expected
  <2>2. CASE rs # <<>>
    <3>1. Len(rs) # 0
      BY <2>2, EmptySeq DEF Shape
    <3>2. Len(rs) \in 1..Len(rs) /\ Len(rs) + 1 - 1 = Len(rs)
      BY <3>1, <1>1
    <3> QED
      BY <2>2, <3>1, <3>2, <1>1 DEF HeadHash, Expected, Last
  <2> QED
    BY <2>1, <2>2
<1>5. \A i \in DOMAIN longer : i \in 1..Len(rs) \/ i = Len(rs) + 1
  BY <1>1
<1>6. Len(rs) + 1 - 1 = Len(rs)
  BY <1>1
<1> QED
  BY <1>1, <1>2, <1>3, <1>4, <1>5, <1>6 DEF Verifies

\* Whatever becomes of a write, the file stays a list.
LEMMA WriteShape ==
    ASSUME Shapes, NEW line, Write(line) \/ WriteFails(line)
    PROVE  Shape(file') /\ (open' => file' # <<>>)
<1>1. ASSUME NEW x PROVE Shape(Extended(x)) /\ Extended(x) # <<>>
  <2>1. CASE ~open
    BY <2>1, AppendShape DEF Extended, Shapes
  <2>2. CASE open
    <3>1. Len(file) \in Nat \ {0} /\ DOMAIN file = 1..Len(file)
      BY <2>2, EmptySeq, LenProperties DEF Shapes, Shape
    <3>2. Len(file) \in DOMAIN file
      BY <3>1
    <3>3. Shape(Extended(x)) /\ DOMAIN Extended(x) = DOMAIN file
      BY <2>2, <3>2, ExceptShape DEF Extended, Shapes
    <3>4. DOMAIN Extended(x) # DOMAIN <<>>
      BY <3>2, <3>3
    <3> QED
      BY <3>3, <3>4
  <2> QED
    BY <2>1, <2>2
<1> QED
  BY <1>1 DEF Write, WriteFails, Shapes

\* So it does when somebody edits it.
LEMMA DamageShape == ASSUME Shapes, Damage PROVE Shape(file')
<1>1. CASE \E i \in DOMAIN file : file' = RemoveAt(file, i)
  BY <1>1, RemoveAtShape DEF Shapes
<1>2. CASE \E i \in DOMAIN file, body \in Body :
             file' = [file EXCEPT ![i].body = body]
  <2>1. PICK i \in DOMAIN file, body \in Body :
          file' = [file EXCEPT ![i].body = body]
    BY <1>2
  <2>2. PICK x : x = [file[i] EXCEPT !.body = body]
    OBVIOUS
  <2>3. file' = [file EXCEPT ![i] = x]
    BY <2>1, <2>2
  <2> QED
    BY <2>3, ExceptShape DEF Shapes
<1>3. CASE \E i, j \in DOMAIN file :
             file' = [file EXCEPT ![i] = file[j], ![j] = file[i]]
  <2>1. PICK i, j \in DOMAIN file :
          file' = [file EXCEPT ![i] = file[j], ![j] = file[i]]
    BY <1>3
  <2>2. Shape([file EXCEPT ![i] = file[j]])
        /\ j \in DOMAIN [file EXCEPT ![i] = file[j]]
    BY ExceptShape DEF Shapes
  <2> QED
    BY <2>1, <2>2, ExceptShape
<1> QED
  BY <1>1, <1>2, <1>3 DEF Damage

\* An empty log is sound.
LEMMA SoundInit == Init => SoundInv
<1>1. Shape(<<>>)
  BY HasShape, EmptySeq
<1>2. Verifies(<<>>)
  BY DEF Verifies
<1> QED
  BY <1>1, <1>2 DEF Init, SoundInv, Shapes, Sound

\* Every step keeps a log sound that nothing went wrong with.
LEMMA SoundStep == SoundInv /\ [Next]_vars => SoundInv'
<1> SUFFICES ASSUME SoundInv, [Next]_vars PROVE SoundInv'
  OBVIOUS
<1> USE DEF SoundInv
<1>1. CASE AppendRecord
  <2>1. PICK body \in Body :
          LET r == Fresh(records, body) IN
          /\ records' = Append(records, r)
          /\ \/ Write(r) /\ UNCHANGED failed
             \/ WriteFails(r)
    BY <1>1, AppendedIs DEF AppendRecord, Shapes
  <2> DEFINE r == Fresh(records, body)
  <2>2. up /\ up' /\ damages' = damages
    BY <1>1 DEF AppendRecord
  <2>3. Shapes'
    BY <2>1, WriteShape, AppendShape DEF Shapes
  <2>4. CASE Write(r) /\ UNCHANGED failed
    <3> SUFFICES ASSUME damages = 0, ~failed
                 PROVE  ~open' /\ Verifies(file') /\ file' = records'
      BY <2>2, <2>3, <2>4 DEF Sound
    <3>1. ~open /\ Verifies(file) /\ file = records
      BY <2>2 DEF Sound
    <3>2. file' = Append(file, r) /\ ~open'
      BY <2>4, <3>1 DEF Write, Extended
    <3> QED
      BY <2>1, <3>1, <3>2, AppendVerifies DEF Shapes
  <2>5. CASE WriteFails(r)
    BY <2>2, <2>3, <2>5 DEF Sound, WriteFails
  <2> QED
    BY <2>1, <2>4, <2>5
<1>2. CASE Die
  <2>1. Shape(records') /\ ~up' /\ damages' = damages
    BY <1>2, HasShape, EmptySeq DEF Die
  <2>2. CASE UNCHANGED <<file, open, written, failed, appends>>
    BY <2>1, <2>2 DEF Shapes, Sound, Verifies, Expected
  <2>3. CASE ~ UNCHANGED <<file, open, written, failed, appends>>
    <3>1. PICK line : WriteFails(line)
      BY <1>2, <2>3 DEF Die
    <3>2. Shapes'
      BY <2>1, <3>1, WriteShape DEF Shapes
    <3> QED
      BY <2>1, <3>1, <3>2 DEF Sound, WriteFails
  <2> QED
    BY <2>2, <2>3
<1>3. CASE Start
  <2>1. /\ records' = file /\ file' = file /\ open' = open
        /\ failed' = failed /\ damages' = damages
    BY <1>3 DEF Start, Load
  <2> QED
    BY <2>1 DEF Shapes, Sound, Verifies, Expected
<1>4. CASE Damage
  <2>1. damages' \in Nat /\ damages' # 0 /\ ~open' /\ records' = records
    BY <1>4 DEF Damage
  <2>2. Shape(file')
    BY <1>4, DamageShape
  <2> QED
    BY <2>1, <2>2 DEF Shapes, Sound
<1>5. CASE UNCHANGED vars
  BY <1>5 DEF vars, Shapes, Sound, Verifies, Expected
<1> QED
  BY <1>1, <1>2, <1>3, <1>4, <1>5 DEF Next

\* No false alarm: a log nobody edited, and no write of which failed,
\* verifies, and memory and file hold the same.
THEOREM NoFalseAlarm == Spec => []UndamagedLogVerifies
<1>1. SoundInv => UndamagedLogVerifies
  BY DEF SoundInv, Sound, UndamagedLogVerifies
<1> QED
  BY <1>1, SoundInit, SoundStep, PTL DEF Spec

-----------------------------------------------------------------------------
(***************************************************************************)
(* A log somebody edited.                                                  *)
(***************************************************************************)

With(w, body) ==
    [sequence |-> w.sequence, body |-> body,
     previous_hash |-> w.previous_hash, record_hash |-> w.record_hash]

\* What append makes has four parts and hashes to what it says.
Made(w) == w = With(w, w.body) /\ w.record_hash = Digest(Content(w))

\* A line is a record append made, but for what it says.
Stems(r, made) == \E w \in made, body \in Body : r = With(w, body)

Origin ==
    /\ \A w \in written : Made(w) /\ w.body \in Body
    /\ \A i \in DOMAIN records : Stems(records[i], written)
    /\ \A i \in DOMAIN file : file[i] # Torn => Stems(file[i], written)

GenuineInv == Shapes /\ Origin

\* Saying something else leaves the hash behind, unless it is what it said.
LEMMA StemIsMade ==
    ASSUME Origin, NEW r, Stems(r, written), r.record_hash = Digest(Content(r))
    PROVE  r \in written
<1>1. PICK w \in written, body \in Body : r = With(w, body)
  BY DEF Stems
<1>2. w = With(w, w.body) /\ w.record_hash = Digest(Content(w))
  BY DEF Origin, Made
<1>3. Digest(Content(r)) = Digest(Content(w))
  BY <1>1, <1>2 DEF With
<1>4. Content(r) = Content(w)
  BY <1>3 DEF Digest
<1>5. Content(r).body = body /\ Content(w).body = w.body
  BY <1>1 DEF Content, With
<1>6. r = w
  BY <1>1, <1>2, <1>4, <1>5
<1> QED
  BY <1>6

\* The record append makes is Made.
LEMMA FreshIsMade ==
    ASSUME NEW rs, Shape(rs), NEW body \in Body
    PROVE  /\ Made(Fresh(rs, body))
           /\ Fresh(rs, body).body = body
           /\ Fresh(rs, body) = With(Fresh(rs, body), body)
BY DEF Made, With, Fresh, Content

\* What a write leaves in the file stems from what was there or is the line.
LEMMA WriteStems ==
    ASSUME Shapes, NEW line, Write(line) \/ WriteFails(line),
           NEW i \in DOMAIN file'
    PROVE  file'[i] \in {line, Torn}
               \/ (i \in DOMAIN file /\ file'[i] = file[i])
<1>1. ASSUME NEW x \in {line, Torn}, NEW j \in DOMAIN Extended(x)
      PROVE  Extended(x)[j] \in {line, Torn}
                 \/ (j \in DOMAIN file /\ Extended(x)[j] = file[j])
  <2>1. CASE ~open
    <3>1. /\ Extended(x) = Append(file, x)
          /\ Len(file) \in Nat /\ DOMAIN file = 1..Len(file)
          /\ j \in 1..Len(file) + 1
      BY <2>1, AppendShape DEF Extended, Shapes
    <3>2. j \in 1..Len(file) \/ j = Len(file) + 1
      BY <3>1
    <3> QED
      BY <3>1, <3>2, AppendShape DEF Shapes
  <2>2. CASE open
    <3>1. Len(file) \in DOMAIN file
      BY <2>2, EmptySeq, LenProperties DEF Shapes, Shape
    <3> QED
      BY <2>2, <3>1, ExceptShape DEF Extended, Shapes
  <2> QED
    BY <2>1, <2>2
<1> QED
  BY <1>1 DEF Write, WriteFails

\* Append, in memory or cut short by the end of the process, keeps Origin.
LEMMA WriteOrigin ==
    ASSUME GenuineInv, NEW body \in Body,
           written' = written \cup {Fresh(records, body)},
           Write(Fresh(records, body)) \/ WriteFails(Fresh(records, body)),
           records' \in {<<>>, Append(records, Fresh(records, body))}
    PROVE  GenuineInv'
<1> DEFINE r == Fresh(records, body)
<1>1. Shapes'
  BY WriteShape, AppendShape, HasShape, EmptySeq DEF GenuineInv, Shapes
<1>2. Made(r) /\ r.body = body /\ r = With(r, body)
  BY FreshIsMade DEF GenuineInv, Shapes
<1>3. \A w \in written' : Made(w) /\ w.body \in Body
  BY <1>2 DEF GenuineInv, Origin
<1>4. \A x : Stems(x, written) => Stems(x, written')
  BY DEF Stems
<1>5. Stems(r, written')
  BY <1>2 DEF Stems
<1>6. ASSUME NEW i \in DOMAIN records' PROVE Stems(records'[i], written')
  <2>1. CASE records' = <<>>
    BY <2>1
  <2>2. CASE records' = Append(records, r)
    <3>1. /\ Len(records) \in Nat /\ DOMAIN records = 1..Len(records)
          /\ i \in 1..Len(records) + 1
          /\ \A j \in 1..Len(records) : records'[j] = records[j]
          /\ records'[Len(records) + 1] = r
      BY <2>2, AppendShape DEF GenuineInv, Shapes
    <3>2. CASE i = Len(records) + 1
      BY <3>1, <3>2, <1>5
    <3>3. CASE i # Len(records) + 1
      <4>1. i \in DOMAIN records /\ records'[i] = records[i]
        BY <3>1, <3>3
      <4> QED
        BY <4>1, <1>4 DEF GenuineInv, Origin
    <3> QED
      BY <3>2, <3>3
  <2> QED
    BY <2>1, <2>2
<1>7. ASSUME NEW i \in DOMAIN file', file'[i] # Torn
      PROVE  Stems(file'[i], written')
  <2>1. CASE file'[i] = r
    BY <2>1, <1>5
  <2>2. CASE i \in DOMAIN file /\ file'[i] = file[i]
    BY <2>2, <1>7, <1>4 DEF GenuineInv, Origin
  <2> QED
    BY <1>7, <2>1, <2>2, WriteStems DEF GenuineInv
<1> QED
  BY <1>1, <1>3, <1>6, <1>7 DEF GenuineInv, Origin

\* So does every edit of the file.
LEMMA DamageOrigin ==
    ASSUME GenuineInv, Damage
    PROVE  \A k \in DOMAIN file' : file'[k] # Torn => Stems(file'[k], written)
<1> USE DEF GenuineInv, Shapes
<1>1. CASE \E i \in DOMAIN file : file' = RemoveAt(file, i)
  BY <1>1, RemoveAtShape DEF Origin
<1>2. CASE \E i \in DOMAIN file, body \in Body :
             file[i] # Torn /\ file' = [file EXCEPT ![i].body = body]
  <2>1. PICK i \in DOMAIN file, body \in Body :
          file[i] # Torn /\ file' = [file EXCEPT ![i].body = body]
    BY <1>2
  <2>2. PICK w \in written, old \in Body : file[i] = With(w, old)
    BY <2>1 DEF Origin, Stems
  <2>3. [file[i] EXCEPT !.body = body] = With(w, body)
    BY <2>2 DEF With
  <2>4. file' = [file EXCEPT ![i] = With(w, body)]
    BY <2>1, <2>3
  <2>5. Stems(With(w, body), written)
    BY DEF Stems
  <2> QED
    BY <2>4, <2>5, ExceptShape DEF Origin
<1>3. CASE \E i, j \in DOMAIN file :
             file' = [file EXCEPT ![i] = file[j], ![j] = file[i]]
  <2>1. PICK i, j \in DOMAIN file :
          file' = [file EXCEPT ![i] = file[j], ![j] = file[i]]
    BY <1>3
  <2> DEFINE half == [file EXCEPT ![i] = file[j]]
  <2>2. /\ Shape(half) /\ DOMAIN half = DOMAIN file
        /\ \A k \in DOMAIN file :
             half[k] = IF k = i THEN file[j] ELSE file[k]
    BY ExceptShape
  <2>3. /\ DOMAIN file' = DOMAIN half
        /\ \A k \in DOMAIN half :
             file'[k] = IF k = j THEN file[i] ELSE half[k]
    <3> HIDE DEF half
    <3>1. file' = [half EXCEPT ![j] = file[i]]
      BY <2>1 DEF half
    <3> QED
      BY <3>1, <2>2, ExceptShape
  <2> HIDE DEF half
  <2> QED
    BY <2>2, <2>3 DEF Origin
<1> QED
  BY <1>1, <1>2, <1>3 DEF Damage

\* An empty log has nothing but what append made.
LEMMA GenuineInit == Init => GenuineInv
BY SoundInit DEF SoundInv, Init, GenuineInv, Origin

\* Every step keeps each line a record append made, but for what it says.
LEMMA GenuineStep == GenuineInv /\ [Next]_vars => GenuineInv'
<1> SUFFICES ASSUME GenuineInv, [Next]_vars PROVE GenuineInv'
  OBVIOUS
<1> USE DEF GenuineInv
<1>1. CASE AppendRecord
  BY <1>1, WriteOrigin, AppendedIs DEF AppendRecord, Shapes
<1>2. CASE Die
  <2>1. CASE UNCHANGED <<file, open, written, failed, appends>>
    <3>1. records' = <<>> /\ Shape(records')
      BY <1>2, HasShape, EmptySeq DEF Die
    <3>2. file' = file /\ open' = open /\ written' = written
      BY <2>1
    <3>3. DOMAIN records' = {}
      BY <3>1
    <3> QED
      BY <3>1, <3>2, <3>3 DEF Shapes, Origin, Stems, Made
  <2>2. CASE ~ UNCHANGED <<file, open, written, failed, appends>>
    <3>1. PICK body \in Body :
            /\ written' = written \cup {Fresh(records, body)}
            /\ WriteFails(Fresh(records, body))
      BY <1>2, <2>2, AppendedIs DEF Die, Shapes
    <3>2. records' = <<>>
      BY <1>2 DEF Die
    <3> QED
      BY <3>1, <3>2, WriteOrigin
  <2> QED
    BY <2>1, <2>2
<1>3. CASE Start
  <2>1. /\ records' = file /\ file' = file /\ open' = open
        /\ written' = written
    BY <1>3 DEF Start, Load
  <2>2. \A i \in DOMAIN file : file[i] # Torn
    BY <1>3 DEF Start, Range
  <2> QED
    BY <2>1, <2>2 DEF Shapes, Origin, Stems, Made
<1>4. CASE Damage
  <2>1. ~open' /\ records' = records /\ written' = written
    BY <1>4 DEF Damage
  <2>2. Shape(file')
    BY <1>4, DamageShape
  <2>3. \A k \in DOMAIN file' : file'[k] # Torn => Stems(file'[k], written')
    BY <1>4, <2>1, DamageOrigin DEF Stems
  <2> QED
    BY <2>1, <2>2, <2>3 DEF Shapes, Origin, Stems, Made
<1>5. CASE UNCHANGED vars
  BY <1>5 DEF vars, Shapes, Origin, Stems, Made
<1> QED
  BY <1>1, <1>2, <1>3, <1>4, <1>5 DEF Next

\* No forgery within: a log that verifies, whatever was done to its file and
\* however it went on, has only records append made.
THEOREM NothingForged == Spec => []VerifiedLogIsGenuine
<1>1. GenuineInv => VerifiedLogIsGenuine
  BY StemIsMade DEF GenuineInv, Origin, VerifiedLogIsGenuine, Verifies
<1> QED
  BY <1>1, GenuineInit, GenuineStep, PTL DEF Spec
=============================================================================
