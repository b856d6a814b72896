------------------------------ MODULE MemoryPBX ------------------------------
(***************************************************************************)
(* The reference connector as a translator (connectors/reference):         *)
(* records of the platform's four collections become canonical entities on *)
(* extraction, planned operations become records again when they are       *)
(* applied.  How one write is tried, confirmed and inverted is Execution.  *)
(*                                                                         *)
(* An estate is a set of records [kind, key, site, says, owner, number];   *)
(* "owner" and "number" are the native keys a record names: of a number    *)
(* the "assigned_to", of a user and a line the "did", of a site the        *)
(* "elin".  "says" is what the record holds besides, a record of           *)
(*   a site     name, dispatchable, validated (by whom and when are both   *)
(*              there), on (the day and the time of it), dynamic           *)
(*   a number   elin                                                       *)
(*   a user     first, last (ABSENT without the field, None when it is     *)
(*              null), voice, cor (the class of restriction)               *)
(*   a line     extension, shared (the other users it appears at)          *)
(* and further fields that are carried over unchanged are left out.        *)
(***************************************************************************)
EXTENDS Planner

Collections == {"EmergencyLocation", "E164Number", "User", "Line"}

\* natural_key_for(): of a line the site and the directory number, which need
\* not be the key the platform keeps it under.
NaturalKey(e) == IF e.kind = "Line" THEN <<e.site, e.value>> ELSE e.value

RefTo(kind, key) == IF key = None THEN None ELSE <<kind, key>>

ABSENT == "<absent>"
Midnight == "00:00"

\* f"{record.get('first_name', '')} ...": a field that is null prints as "None".
Word(name) == IF name = ABSENT THEN "" ELSE IF name = None THEN "None" ELSE name
FieldOf(name) == IF name = ABSENT THEN None ELSE name

\* The attributes of the entity a record becomes.  The other users of a line
\* and the class of restriction of a user are in the fidelity only.
Attributes(r) ==
    IF r.kind = "EmergencyLocation"
    THEN [display |-> r.says.name,
          name |-> IF r.says.name = None THEN r.key ELSE r.says.name,
          dispatchable |-> r.says.dispatchable, validated |-> r.says.validated,
          at |-> IF r.says.validated THEN r.says.on ELSE None,
          dynamic |-> r.says.dynamic]
    ELSE IF r.kind = "E164Number"
    THEN [elin |-> r.says.elin, assigned |-> r.owner # None]
    ELSE IF r.kind = "User"
    THEN [display |-> IF Word(r.says.first) = "" /\ Word(r.says.last) = "" THEN r.key
                      ELSE <<Word(r.says.first), Word(r.says.last)>>,
          given |-> FieldOf(r.says.first), surname |-> FieldOf(r.says.last),
          voice |-> r.says.voice]
    ELSE [extension |-> r.says.extension]

\* A missing sub-unit of an address degrades too; nothing here is UNMAPPABLE.
Level(r) ==
    IF \/ r.kind = "User"
       \/ r.kind = "Line" /\ r.says.shared # {}
       \/ r.kind = "EmergencyLocation" /\ ~r.says.validated
    THEN "DEGRADED" ELSE "LOSSLESS"

\* _site_to_location, _number_to_e164, _user_to_canonical, _line_to_canonical:
\* the state of a number follows from "assigned_to", its location from its
\* site, whether or not there is such a user or site.
Extracted(r) ==
    [kind |-> r.kind, id |-> <<r.kind, r.key>>,
     value |-> IF r.kind = "Line" THEN r.says.extension ELSE r.key,
     site |-> r.site, department |-> None,
     owner |-> RefTo("User", r.owner), number |-> RefTo("E164Number", r.number),
     refs |-> IF r.kind = "E164Number" /\ r.site # None
              THEN {<<"EmergencyLocation", r.site>>} ELSE {},
     level |-> Level(r), said |-> Attributes(r)]

\* _extract_batches()
Extract(records) == {Extracted(r) : r \in records}

\* _date_part()
DatePart(at) == IF at = None THEN None ELSE <<at[1], Midnight>>

\* What the builders make of the attributes: every field of a user is written,
\* null where there is nothing, a site gets its code for a name it lacks.
Written(e) ==
    IF e.kind = "EmergencyLocation"
    THEN [name |-> e.said.name, dispatchable |-> e.said.dispatchable,
          validated |-> e.said.validated, on |-> DatePart(e.said.at),
          dynamic |-> e.said.dynamic]
    ELSE IF e.kind = "E164Number"
    THEN [elin |-> e.said.elin]
    ELSE IF e.kind = "User"
    THEN [first |-> e.said.given, last |-> e.said.surname, voice |-> e.said.voice,
          cor |-> None]
    ELSE [extension |-> e.said.extension, shared |-> {}]

\* mutant: the builder of a site forgets the number of its ELIN
RecordOfForgetsElin(o) ==
    LET named(ref) == IF ref \in o.keys THEN ref[2] ELSE None
        e == o.entity
    IN  [kind |-> e.kind, key |-> NaturalKey(e), site |-> e.site, says |-> Written(e),
         owner |-> named(e.owner),
         number |-> IF e.kind = "EmergencyLocation" THEN None ELSE named(e.number)]

\* _location_record, _number_record, _user_record, _line_record: what the plan
\* resolved of the references; the location of a number is not written.
RecordOf(o) ==
    LET named(ref) == IF ref \in o.keys THEN ref[2] ELSE None
        e == o.entity
    IN  [kind |-> e.kind, key |-> NaturalKey(e), site |-> e.site, says |-> Written(e),
         owner |-> named(e.owner), number |-> named(e.number)]

\* Where a record is kept: its collection and its key.
Place(r) == <<r.kind, r.key>>

\* upsert() of several records, one to a place, and the reverse.
Stored(estate, records) ==
    {r \in estate : Place(r) \notin {Place(w) : w \in records}} \cup records
Restored(estate, places, before) ==
    {r \in estate : Place(r) \notin places} \cup {r \in before : Place(r) \in places}
=============================================================================
