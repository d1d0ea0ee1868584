--------------------------- MODULE LibraryProofs ----------------------------
(***************************************************************************)
(* The theorems about Library, for any names, robots, requests in flight   *)
(* and length of a loadout, and about Sessions, for any number of browsers *)
(* and tokens and any lifetime.                                            *)
(***************************************************************************)
EXTENDS Library, Sessions, SequenceTheorems, WellFoundedInduction, TLAPS

\* What somebody holds as version v of program id, with rules body, is right and stays
\* so: the version was approved once, the id is not given out again, a version not
\* numbered yet is a later one, and as long as the library has it, its body is body.
Truthful(id, v, body) ==
  /\ id <= lastId
  /\ \A p \in programs : p.id = id => v <= p.version
  /\ \A f \in versions : f.id = id /\ f.version = v => f.body = body
  /\ <<id, v>> \in blessed

\* The rows: ids given out in order and once, a version belongs to a row and is not
\* ahead of it, one body a version, and the approved one was approved.
RowsInv ==
  /\ \A p \in programs : p.id <= lastId /\ <<p.id, p.approved>> \in blessed
  /\ \A p, q \in programs : p.id = q.id => p = q
  /\ \A f \in versions : \E p \in programs : p.id = f.id /\ f.version <= p.version
  /\ \A f, g \in versions : f.id = g.id /\ f.version = g.version => f = g

\* What a request in flight has read.
Sound(q) ==
  /\ calls[q].op \in {"choose", "chosen"} =>
       \A k \in DOMAIN calls[q].entries :
         Truthful(calls[q].entries[k].id, calls[q].entries[k].version, calls[q].entries[k].body)
  /\ calls[q].op = "chosen" =>
       calls[q].left # <<>> /\ <<Head(calls[q].left), calls[q].version>> \in blessed
  /\ calls[q].op = "approved" => <<calls[q].id, calls[q].version>> \in blessed
  /\ calls[q].op = "loaded" => Truthful(calls[q].id, calls[q].version, calls[q].body)

\* Every snapshot of a version, wherever it has got to, is truthful.
SnapshotsInv ==
  /\ \A q \in Callers : Sound(q)
  /\ \A k \in DOMAIN loadout : Truthful(loadout[k].id, loadout[k].version, loadout[k].body)
  /\ \A x \in rt : Truthful(x.ref.id, x.ref.version, x.body)

\* Whatever a robot runs, or may be built to run, is installed.
FieldInv ==
  /\ match # "open" => \A k \in DOMAIN loadout : \E x \in rt : x.ref = ColonyRef(loadout[k])
  /\ \A r \in Robots : robots[r] \in Ref => \E x \in rt : x.ref = robots[r]

LibraryInv == LibraryTypeOK /\ RowsInv /\ SnapshotsInv /\ FieldInv

------------------------------------------------------------------------------
\* What a request of a kind is.
LEMMA RequestFields ==
  ASSUME LibraryTypeOK, NEW q \in Callers
  PROVE  /\ calls[q].op = "seed" => calls[q] \in [op : {"seed"}, left : SUBSET Starters]
         /\ calls[q].op = "save" =>
              calls[q] \in [op : {"save"}, id : Nat, name : Names, approve : BOOLEAN]
         /\ calls[q].op = "choose" =>
              calls[q] \in [op : {"choose"}, left : Seq(Nat), entries : Seq(Version)]
         /\ calls[q].op = "chosen" =>
              calls[q] \in [op : {"chosen"}, left : Seq(Nat), entries : Seq(Version),
                          version : Nat]
         /\ calls[q].op = "install" => calls[q] \in [op : {"install"}, robot : Robots, id : Nat]
         /\ calls[q].op = "approved" =>
              calls[q] \in [op : {"approved"}, robot : Robots, id : Nat, version : Nat]
         /\ calls[q].op = "loaded" =>
              calls[q] \in [op : {"loaded"}, robot : Robots, id : Nat, version : Nat, body : Nat]
<1>1. calls[q] \in Request
  BY DEF LibraryTypeOK
<1> QED BY <1>1 DEF Request, Idle

\* The last of some positions of a sequence.
LEMMA LastOf ==
  ASSUME NEW n \in Nat, NEW S \in SUBSET (1..n), S # {}
  PROVE  \E m \in S : \A k \in S : k <= m
<1> DEFINE less == OpToRel(<, Nat)
           T == {n - k : k \in S}
<1>1. IsWellFoundedOn(less, Nat)
  BY NatLessThanWellFounded
<1>2. \A x, y \in Nat : <<y, x>> \in less <=> y < x
  BY DEF OpToRel
<1>3. T \subseteq Nat /\ T # {}
  <2>1. \A k \in S : n - k \in Nat
    OBVIOUS
  <2>2. PICK k \in S : TRUE
    OBVIOUS
  <2>3. n - k \in T
    OBVIOUS
  <2> QED BY <2>1, <2>3
<1> HIDE DEF less
<1>4. PICK x \in T : \A y \in T : <<y, x>> \notin less
  <2> HIDE DEF T
  <2> QED BY <1>1, <1>3, WFMin
<1>5. PICK m \in S : x = n - m
  BY <1>4
<1>6. ASSUME NEW k \in S PROVE k <= m
  <2>1. n - k \in T /\ n - k \in Nat /\ x \in Nat
    BY <1>3, <1>4
  <2>2. ~(n - k < x)
    BY <1>2, <1>4, <2>1
  <2> QED BY <1>5, <2>2
<1> QED BY <1>6

------------------------------------------------------------------------------
\* What a step may do to the library.
Edited ==
  \/ UNCHANGED library
  \/ \E name \in Names : Create(name)
  \/ \E q \in Callers : SaveWrites(q)
  \/ \E id, v \in Nat : Approve(id, v)
  \/ \E id \in Nat : Delete(id)

LEMMA EditedType ==
  ASSUME LibraryTypeOK, Edited
  PROVE  /\ programs' \subseteq ProgramRow /\ versions' \subseteq Version
         /\ lastId' \in Nat /\ saves' \in Nat /\ blessed' \subseteq Nat \X Nat
<1>1. CASE UNCHANGED library
  BY <1>1 DEF library, LibraryTypeOK
<1>2. ASSUME NEW name \in Names, Create(name)
      PROVE  /\ programs' \subseteq ProgramRow /\ versions' \subseteq Version
             /\ lastId' \in Nat /\ saves' \in Nat /\ blessed' \subseteq Nat \X Nat
  BY <1>2 DEF Create, NewId, LibraryTypeOK, ProgramRow, Version
<1>3. ASSUME NEW q \in Callers, SaveWrites(q)
      PROVE  /\ programs' \subseteq ProgramRow /\ versions' \subseteq Version
             /\ lastId' \in Nat /\ saves' \in Nat /\ blessed' \subseteq Nat \X Nat
  <2>1. calls[q] \in [op : {"save"}, id : Nat, name : Names, approve : BOOLEAN]
    BY <1>3, RequestFields DEF SaveWrites
  <2>2. PICK p \in programs :
          /\ programs' = (programs \ {p}) \cup
               {[id |-> p.id, name |-> calls[q].name, version |-> p.version + 1,
                 approved |-> IF calls[q].approve THEN p.version + 1 ELSE p.approved]}
          /\ versions' = versions \cup {[id |-> p.id, version |-> p.version + 1,
                                         body |-> saves + 1]}
          /\ blessed' = blessed \cup (IF calls[q].approve THEN {<<p.id, p.version + 1>>} ELSE {})
    BY <1>3 DEF SaveWrites
  <2>3. p \in ProgramRow /\ p.version + 1 \in Nat
    BY DEF LibraryTypeOK, ProgramRow
  <2>4. programs' \subseteq ProgramRow
    BY <2>1, <2>2, <2>3 DEF LibraryTypeOK, ProgramRow
  <2>5. versions' \subseteq Version
    BY <2>2, <2>3 DEF LibraryTypeOK, ProgramRow, Version
  <2>6. blessed' \subseteq Nat \X Nat
    BY <2>2, <2>3 DEF LibraryTypeOK, ProgramRow
  <2> QED BY <1>3, <2>4, <2>5, <2>6 DEF SaveWrites, LibraryTypeOK
<1>4. ASSUME NEW id \in Nat, NEW v \in Nat, Approve(id, v)
      PROVE  /\ programs' \subseteq ProgramRow /\ versions' \subseteq Version
             /\ lastId' \in Nat /\ saves' \in Nat /\ blessed' \subseteq Nat \X Nat
  BY <1>4 DEF Approve, LibraryTypeOK, ProgramRow
<1>5. ASSUME NEW id \in Nat, Delete(id)
      PROVE  /\ programs' \subseteq ProgramRow /\ versions' \subseteq Version
             /\ lastId' \in Nat /\ saves' \in Nat /\ blessed' \subseteq Nat \X Nat
  BY <1>5 DEF Delete, LibraryTypeOK
<1> QED BY <1>1, <1>2, <1>3, <1>4, <1>5 DEF Edited

\* However the library is edited, its rows stay in order, what was read of it stays
\* truthful and what was approved stays approved.
LEMMA EditedKeeps ==
  ASSUME LibraryTypeOK, RowsInv, Edited
  PROVE  /\ RowsInv'
         /\ blessed \subseteq blessed'
         /\ \A id, v, body \in Nat : Truthful(id, v, body) => Truthful(id, v, body)'
<1>1. CASE UNCHANGED library
  BY <1>1 DEF library, RowsInv, Truthful
<1>2. ASSUME NEW name \in Names, Create(name)
      PROVE  /\ RowsInv' /\ blessed \subseteq blessed'
             /\ \A id, v, body \in Nat : Truthful(id, v, body) => Truthful(id, v, body)'
  <2> DEFINE row == [id |-> lastId + 1, name |-> name, version |-> 1, approved |-> 1]
             new == [id |-> lastId + 1, version |-> 1, body |-> saves + 1]
  <2>1. /\ programs' = programs \cup {row} /\ versions' = versions \cup {new}
        /\ lastId' = lastId + 1 /\ blessed' = blessed \cup {<<lastId + 1, 1>>}
    BY <1>2 DEF Create, NewId
  <2>2. /\ row.id = lastId + 1 /\ row.version = 1 /\ row.approved = 1
        /\ new.id = lastId + 1 /\ new.version = 1
    OBVIOUS
  <2> HIDE DEF row, new
  <2>3. /\ lastId \in Nat
        /\ \A p \in programs : p.id \in Nat /\ p.id <= lastId
        /\ \A f \in versions : f.id \in Nat /\ f.id <= lastId
    BY DEF LibraryTypeOK, ProgramRow, Version, RowsInv
  <2>4. \A p \in programs' : p.id <= lastId' /\ <<p.id, p.approved>> \in blessed'
    <3>1. \A p \in programs : p.id <= lastId'
      BY <2>1, <2>3
    <3>2. \A p \in programs : <<p.id, p.approved>> \in blessed'
      BY <2>1 DEF RowsInv
    <3>3. row.id <= lastId' /\ <<row.id, row.approved>> \in blessed'
      BY <2>1, <2>2, <2>3
    <3> QED BY <2>1, <3>1, <3>2, <3>3
  <2>5. \A p, q \in programs' : p.id = q.id => p = q
    BY <2>1, <2>2, <2>3 DEF RowsInv
  <2>6. \A f \in versions' : \E p \in programs' : p.id = f.id /\ f.version <= p.version
    BY <2>1, <2>2 DEF RowsInv
  <2>7. \A f, g \in versions' : f.id = g.id /\ f.version = g.version => f = g
    BY <2>1, <2>2, <2>3 DEF RowsInv
  <2>8. ASSUME NEW id \in Nat, NEW v \in Nat, NEW body \in Nat, Truthful(id, v, body)
        PROVE  Truthful(id, v, body)'
    BY <2>1, <2>2, <2>3, <2>8 DEF Truthful
  <2> QED BY <2>1, <2>4, <2>5, <2>6, <2>7, <2>8 DEF RowsInv
<1>3. ASSUME NEW r \in Callers, SaveWrites(r)
      PROVE  /\ RowsInv' /\ blessed \subseteq blessed'
             /\ \A id, v, body \in Nat : Truthful(id, v, body) => Truthful(id, v, body)'
  <2>1. PICK p \in programs :
          /\ programs' = (programs \ {p}) \cup
               {[id |-> p.id, name |-> calls[r].name, version |-> p.version + 1,
                 approved |-> IF calls[r].approve THEN p.version + 1 ELSE p.approved]}
          /\ versions' = versions \cup {[id |-> p.id, version |-> p.version + 1,
                                         body |-> saves + 1]}
          /\ blessed' = blessed \cup (IF calls[r].approve THEN {<<p.id, p.version + 1>>} ELSE {})
    BY <1>3 DEF SaveWrites
  <2> DEFINE row == [id |-> p.id, name |-> calls[r].name, version |-> p.version + 1,
                     approved |-> IF calls[r].approve THEN p.version + 1 ELSE p.approved]
             new == [id |-> p.id, version |-> p.version + 1, body |-> saves + 1]
  <2>2. programs' = (programs \ {p}) \cup {row} /\ versions' = versions \cup {new}
        /\ lastId' = lastId
    BY <1>3, <2>1 DEF SaveWrites
  <2>3. /\ row.id = p.id /\ row.version = p.version + 1
        /\ new.id = p.id /\ new.version = p.version + 1
        /\ <<row.id, row.approved>> \in blessed'
    BY <2>1 DEF RowsInv
  <2>4. blessed \subseteq blessed'
    BY <2>1
  <2> HIDE DEF row, new
  <2>5. /\ \A q \in programs : q.id \in Nat /\ q.version \in Nat
        /\ \A f \in versions : f.version \in Nat
    BY DEF LibraryTypeOK, ProgramRow, Version
  <2>6. \A q \in programs' : q.id <= lastId' /\ <<q.id, q.approved>> \in blessed'
    BY <2>2, <2>3, <2>4 DEF RowsInv
  <2>7. \A q, s \in programs' : q.id = s.id => q = s
    BY <2>2, <2>3 DEF RowsInv
  <2>8. \A f \in versions' : \E q \in programs' : q.id = f.id /\ f.version <= q.version
    <3>1. ASSUME NEW f \in versions
          PROVE  \E q \in programs' : q.id = f.id /\ f.version <= q.version
      <4>1. PICK q \in programs : q.id = f.id /\ f.version <= q.version
        BY DEF RowsInv
      <4>2. CASE q = p
        BY <2>2, <2>3, <2>5, <4>1, <4>2
      <4> QED BY <2>2, <4>1, <4>2
    <3>2. row \in programs' /\ row.id = new.id /\ new.version <= row.version
      BY <2>2, <2>3, <2>5
    <3> QED BY <2>2, <3>1, <3>2
  <2>9. \A f \in versions : f.id = p.id => f.version <= p.version
    BY DEF RowsInv
  <2>10. \A f, g \in versions' : f.id = g.id /\ f.version = g.version => f = g
    BY <2>2, <2>3, <2>5, <2>9 DEF RowsInv
  <2>11. ASSUME NEW id \in Nat, NEW v \in Nat, NEW body \in Nat, Truthful(id, v, body)
         PROVE  Truthful(id, v, body)'
    <3>1. \A q \in programs' : q.id = id => v <= q.version
      BY <2>2, <2>3, <2>5, <2>11 DEF Truthful
    <3>2. \A f \in versions' : f.id = id /\ f.version = v => f.body = body
      BY <2>2, <2>3, <2>5, <2>11 DEF Truthful
    <3> QED BY <2>2, <2>4, <2>11, <3>1, <3>2 DEF Truthful
  <2> QED BY <2>4, <2>6, <2>7, <2>8, <2>10, <2>11 DEF RowsInv
<1>4. ASSUME NEW i \in Nat, NEW w \in Nat, Approve(i, w)
      PROVE  /\ RowsInv' /\ blessed \subseteq blessed'
             /\ \A id, v, body \in Nat : Truthful(id, v, body) => Truthful(id, v, body)'
  <2>1. PICK p \in programs :
          p.id = i /\ programs' = (programs \ {p}) \cup {[p EXCEPT !.approved = w]}
    BY <1>4 DEF Approve
  <2> DEFINE row == [p EXCEPT !.approved = w]
  <2>2. row.id = i /\ row.version = p.version /\ row.approved = w /\ p.id = i
    BY <2>1 DEF LibraryTypeOK, ProgramRow
  <2>3. /\ programs' = (programs \ {p}) \cup {row} /\ UNCHANGED <<versions, lastId>>
        /\ blessed' = blessed \cup {<<i, w>>}
    BY <1>4, <2>1 DEF Approve
  <2> HIDE DEF row
  <2>4. \A q \in programs' : q.id <= lastId' /\ <<q.id, q.approved>> \in blessed'
    BY <2>2, <2>3 DEF RowsInv
  <2>5. \A q, s \in programs' : q.id = s.id => q = s
    BY <2>2, <2>3 DEF RowsInv
  <2>6. \A f \in versions' : \E q \in programs' : q.id = f.id /\ f.version <= q.version
    BY <2>2, <2>3 DEF RowsInv
  <2>7. ASSUME NEW id \in Nat, NEW v \in Nat, NEW body \in Nat, Truthful(id, v, body)
        PROVE  Truthful(id, v, body)'
    BY <2>2, <2>3, <2>7 DEF Truthful
  <2> QED BY <2>3, <2>4, <2>5, <2>6, <2>7 DEF RowsInv
<1>5. ASSUME NEW i \in Nat, Delete(i)
      PROVE  /\ RowsInv' /\ blessed \subseteq blessed'
             /\ \A id, v, body \in Nat : Truthful(id, v, body) => Truthful(id, v, body)'
  BY <1>5 DEF Delete, RowsInv, Truthful
<1> QED BY <1>1, <1>2, <1>3, <1>4, <1>5 DEF Edited

LEMMA StepEdits ==
  ASSUME LibraryTypeOK, LibraryNext
  PROVE  Edited
<1>1. 1..lastId \subseteq Nat /\ 1..saves \subseteq Nat
  BY DEF LibraryTypeOK
<1>2. ASSUME NEW q \in Callers, SeedOne(q) PROVE Edited
  <2>1. calls[q].left \subseteq Names
    BY <1>2, RequestFields, LibraryAssumption DEF SeedOne
  <2> QED BY <1>2, <2>1 DEF SeedOne, Edited
<1>3. ASSUME NEW q \in Callers, Editing(q) PROVE Edited
  BY <1>2, <1>3 DEF Editing, ListFindsNothing, Refuse, SaveReadsField, Edited
<1>4. ASSUME NEW q \in Callers, Choosing(q) PROVE Edited
  BY <1>4 DEF Choosing, ChooseReceives, ChooseReadsRow, ChooseReadsBody, ChooseStores, Edited
<1>5. ASSUME NEW q \in Callers, Installing(q) PROVE Edited
  BY <1>5 DEF Installing, InstallReceives, InstallReadsRow, InstallReadsBody,
              InstallApplies, Edited
<1>6. ASSUME NEW name \in Names, SaveNew(name) PROVE Edited
  BY <1>6 DEF SaveNew, Edited
<1>7. ASSUME NEW id \in 1..lastId, Delete(id) \/ (\E v \in 1..saves : Approve(id, v))
      PROVE  Edited
  BY <1>1, <1>7 DEF Edited
<1>8. ASSUME NEW r \in Robots, Produced(r) \/ Destroyed(r) PROVE Edited
  BY <1>8 DEF Produced, Destroyed, Edited
<1>9. CASE Start \/ Ends
  BY <1>9 DEF Start, Ends, Edited
<1> QED BY <1>3, <1>4, <1>5, <1>6, <1>7, <1>8, <1>9 DEF LibraryNext

\* What a request in flight has read stays true while it waits.
LEMMA WaitingStaysSound ==
  ASSUME LibraryInv, Edited, NEW q \in Callers, calls'[q] = calls[q]
  PROVE  Sound(q)'
<1>1. /\ blessed \subseteq blessed'
      /\ \A id, v, body \in Nat : Truthful(id, v, body) => Truthful(id, v, body)'
  BY EditedKeeps DEF LibraryInv
<1>2. Sound(q) /\ LibraryTypeOK
  BY DEF LibraryInv, SnapshotsInv
<1>3. calls[q].op \in {"choose", "chosen"} =>
        \A k \in DOMAIN calls[q].entries :
          Truthful(calls[q].entries[k].id, calls[q].entries[k].version, calls[q].entries[k].body)'
  <2> SUFFICES ASSUME calls[q].op \in {"choose", "chosen"}, NEW k \in DOMAIN calls[q].entries
               PROVE  Truthful(calls[q].entries[k].id, calls[q].entries[k].version,
                               calls[q].entries[k].body)'
    OBVIOUS
  <2>1. calls[q].entries \in Seq(Version)
    BY <1>2, RequestFields
  <2>2. calls[q].entries[k] \in Version
    BY <2>1, LenProperties, ElementOfSeq
  <2>3. /\ calls[q].entries[k].id \in Nat /\ calls[q].entries[k].version \in Nat
        /\ calls[q].entries[k].body \in Nat
    BY <2>2 DEF Version
  <2> QED BY <1>1, <1>2, <2>3 DEF Sound
<1> QED BY <1>1, <1>2, <1>3, RequestFields DEF Sound

\* What a step leaves of the field is still true of the library.
LEMMA FieldStaysTrue ==
  ASSUME LibraryInv, Edited
  PROVE  /\ UNCHANGED loadout =>
              (\A k \in DOMAIN loadout :
                 Truthful(loadout[k].id, loadout[k].version, loadout[k].body))'
         /\ \A x \in rt : Truthful(x.ref.id, x.ref.version, x.body)'
<1>1. \A id, v, body \in Nat : Truthful(id, v, body) => Truthful(id, v, body)'
  BY EditedKeeps DEF LibraryInv
<1>2. SnapshotsInv /\ LibraryTypeOK
  BY DEF LibraryInv
<1>3. ASSUME UNCHANGED loadout, NEW k \in DOMAIN loadout'
      PROVE  Truthful(loadout[k].id, loadout[k].version, loadout[k].body)'
  <2>1. loadout[k] \in Version
    BY <1>2, <1>3, LenProperties, ElementOfSeq DEF LibraryTypeOK
  <2>2. loadout[k].id \in Nat /\ loadout[k].version \in Nat /\ loadout[k].body \in Nat
    BY <2>1 DEF Version
  <2>3. Truthful(loadout[k].id, loadout[k].version, loadout[k].body)
    BY <1>2, <1>3 DEF SnapshotsInv
  <2>4. loadout'[k] = loadout[k]
    BY <1>3
  <2> QED BY <1>1, <2>2, <2>3, <2>4 DEF Truthful
<1>4. ASSUME NEW x \in rt PROVE Truthful(x.ref.id, x.ref.version, x.body)'
  <2>1. x.ref.id \in Nat /\ x.ref.version \in Nat /\ x.body \in Nat
    BY <1>2 DEF LibraryTypeOK, Ref
  <2> QED BY <1>1, <1>2, <2>1 DEF SnapshotsInv
<1> QED BY <1>3, <1>4

\* A step keeps the invariant when it edits the library by one of its operations, what
\* it puts in a request is sound, and the field it leaves is well typed and in order.
LEMMA StepKeeps ==
  ASSUME LibraryInv, Edited,
         calls' \in [Callers -> Request],
         \A q \in Callers :
           calls'[q] = calls[q] \/ Sound(q)',
         loadout' \in Seq(Version), match' \in {"open", "running", "over"},
         rt' \subseteq [ref : Ref, body : Nat],
         robots' \in [Robots -> Ref \cup {BuiltIn, Unborn, Gone}],
         (\A k \in DOMAIN loadout :
            Truthful(loadout[k].id, loadout[k].version, loadout[k].body))',
         (\A x \in rt : Truthful(x.ref.id, x.ref.version, x.body))',
         FieldInv'
  PROVE  LibraryInv'
<1>1. LibraryTypeOK'
  <2>1. /\ programs' \subseteq ProgramRow /\ versions' \subseteq Version
        /\ lastId' \in Nat /\ saves' \in Nat /\ blessed' \subseteq Nat \X Nat
    BY EditedType DEF LibraryInv
  <2> QED BY <2>1 DEF LibraryTypeOK
<1>2. RowsInv'
  BY EditedKeeps DEF LibraryInv
<1>3. ASSUME NEW q \in Callers PROVE Sound(q)'
  BY WaitingStaysSound
<1> QED BY <1>1, <1>2, <1>3 DEF LibraryInv, SnapshotsInv

\* The same of a step that leaves the field alone.
LEMMA RequestStepKeeps ==
  ASSUME LibraryInv, Edited, UNCHANGED field,
         calls' \in [Callers -> Request],
         \A q \in Callers :
           calls'[q] = calls[q] \/ Sound(q)'
  PROVE  LibraryInv'
<1>1. UNCHANGED <<loadout, match, rt, robots>>
  BY DEF field
<1>2. /\ (\A k \in DOMAIN loadout :
            Truthful(loadout[k].id, loadout[k].version, loadout[k].body))'
      /\ (\A x \in rt : Truthful(x.ref.id, x.ref.version, x.body))'
  BY <1>1, FieldStaysTrue
<1>3. FieldInv'
  BY <1>1 DEF LibraryInv, FieldInv, ColonyRef
<1>4. /\ loadout' \in Seq(Version) /\ match' \in {"open", "running", "over"}
      /\ rt' \subseteq [ref : Ref, body : Nat]
      /\ robots' \in [Robots -> Ref \cup {BuiltIn, Unborn, Gone}]
  BY <1>1 DEF LibraryInv, LibraryTypeOK
<1> QED BY <1>2, <1>3, <1>4, StepKeeps

\* One request moves on.
LEMMA OneMovesOn ==
  ASSUME LibraryTypeOK, NEW q \in Callers, NEW new \in Request,
         calls' = [calls EXCEPT ![q] = new]
  PROVE  /\ calls' \in [Callers -> Request]
         /\ calls'[q] = new
         /\ \A p \in Callers : p # q => calls'[p] = calls[p]
BY DEF LibraryTypeOK

\* A request that has ended, a seeding or a save has read nothing that could go stale.
LEMMA NothingRead ==
  ASSUME LibraryInv, Edited, UNCHANGED field, NEW q \in Callers,
         NEW new \in Request, calls' = [calls EXCEPT ![q] = new],
         new.op \in {"idle", "seed", "save", "install"}
  PROVE  LibraryInv'
<1>1. /\ calls' \in [Callers -> Request]
      /\ calls'[q] = new
      /\ \A p \in Callers : p # q => calls'[p] = calls[p]
  BY OneMovesOn DEF LibraryInv
<1>2. Sound(q)'
  BY <1>1 DEF Sound
<1>3. \A p \in Callers : calls'[p] = calls[p] \/ Sound(p)'
  BY <1>1, <1>2
<1> QED BY <1>1, <1>3, RequestStepKeeps

LEMMA EditingKeeps ==
  ASSUME LibraryInv, Edited, NEW q \in Callers, Editing(q)
  PROVE  LibraryInv'
<1>0. LibraryTypeOK
  BY DEF LibraryInv
<1>1. CASE Refuse(q)
  <2>1. Idle \in Request /\ Idle.op = "idle"
    BY DEF Request, Idle
  <2> QED BY <1>1, <2>1, NothingRead DEF Refuse, Return
<1>2. CASE ListFindsNothing(q)
  <2> DEFINE new == [op |-> "seed", left |-> Starters]
  <2>1. new \in Request /\ new.op = "seed"
    BY DEF Request
  <2>2. calls' = [calls EXCEPT ![q] = new] /\ UNCHANGED field
    BY <1>2 DEF ListFindsNothing, Receive
  <2> HIDE DEF new
  <2> QED BY <2>1, <2>2, NothingRead
<1>3. CASE SeedOne(q)
  <2>1. PICK name \in calls[q].left :
          Becomes(q, IF calls[q].left = {name} THEN Idle ELSE [calls[q] EXCEPT !.left = @ \ {name}])
    BY <1>3 DEF SeedOne
  <2> DEFINE new == IF calls[q].left = {name} THEN Idle ELSE [calls[q] EXCEPT !.left = @ \ {name}]
  <2>2. calls[q] \in [op : {"seed"}, left : SUBSET Starters]
    BY <1>0, <1>3, RequestFields DEF SeedOne
  <2>3. [calls[q] EXCEPT !.left = @ \ {name}] \in [op : {"seed"}, left : SUBSET Starters]
    BY <2>2
  <2>4. new \in Request /\ new.op \in {"idle", "seed"}
    BY <2>3 DEF Request, Idle
  <2>5. calls' = [calls EXCEPT ![q] = new] /\ UNCHANGED field
    BY <1>3, <2>1 DEF SeedOne, Becomes
  <2> HIDE DEF new
  <2> QED BY <2>4, <2>5, NothingRead
<1>4. CASE SaveWrites(q)
  <2>1. Idle \in Request /\ Idle.op = "idle"
    BY DEF Request, Idle
  <2> QED BY <1>4, <2>1, NothingRead DEF SaveWrites, Return
<1>5. ASSUME NEW id \in 1..lastId, NEW name \in Names, SaveReadsField(q, id, name)
      PROVE  LibraryInv'
  <2> DEFINE new == [op |-> "save", id |-> id, name |-> name, approve |-> ~Fielded(id)]
  <2>1. id \in Nat /\ (~Fielded(id)) \in BOOLEAN
    BY <1>0 DEF LibraryTypeOK
  <2>2. new \in Request
    BY <2>1 DEF Request
  <2>3. new.op = "save"
    OBVIOUS
  <2>4. calls' = [calls EXCEPT ![q] = new] /\ UNCHANGED field
    BY <1>5 DEF SaveReadsField, Receive
  <2> HIDE DEF new
  <2> QED BY <2>2, <2>3, <2>4, NothingRead
<1> QED BY <1>1, <1>2, <1>3, <1>4, <1>5 DEF Editing

\* What is read of the library is sound at once.
LEMMA GivenIsSound ==
  ASSUME LibraryInv, NEW p \in programs
  PROVE  Given(p) \in Nat /\ p.id \in Nat /\ <<p.id, Given(p)>> \in blessed
BY DEF LibraryInv, LibraryTypeOK, RowsInv, ProgramRow, Given

LEMMA BodyIsTruthful ==
  ASSUME LibraryInv, NEW id \in Nat, NEW v \in Nat, <<id, v>> \in blessed,
         NEW f \in Body(id, v)
  PROVE  /\ f \in Version /\ f.id = id /\ f.version = v /\ f.body \in Nat
         /\ Truthful(id, v, f.body)
<1>1. f \in versions /\ f.id = id /\ f.version = v
  BY DEF Body
<1>2. f \in Version /\ f.body \in Nat
  BY <1>1 DEF LibraryInv, LibraryTypeOK, Version
<1>3. PICK p \in programs : p.id = id /\ v <= p.version
  BY <1>1 DEF LibraryInv, RowsInv
<1>4. id <= lastId /\ (\A s \in programs : s.id = id => v <= s.version)
  BY <1>3 DEF LibraryInv, RowsInv
<1>5. \A g \in versions : g.id = id /\ g.version = v => g.body = f.body
  BY <1>1 DEF LibraryInv, RowsInv
<1> QED BY <1>1, <1>2, <1>4, <1>5 DEF Truthful

LEMMA ChoosingKeeps ==
  ASSUME LibraryInv, Edited, NEW q \in Callers, Choosing(q), ~ChooseStores(q)
  PROVE  LibraryInv'
<1>0. LibraryTypeOK /\ Sound(q)
  BY DEF LibraryInv, SnapshotsInv
<1>1. ASSUME NEW n \in 0..MaxEntries, NEW ids \in [1..n -> 1..lastId], ChooseReceives(q, ids)
      PROVE  LibraryInv'
  <2> DEFINE new == [op |-> "choose", left |-> ids, entries |-> <<>>]
  <2>1. n \in Nat /\ 1..lastId \subseteq Nat
    BY <1>0, LibraryAssumption DEF LibraryTypeOK
  <2>2. ids \in Seq(Nat)
    <3>1. ids \in [1..n -> Nat]
      BY <2>1
    <3> QED BY <2>1, <3>1, SeqDef
  <2>3. <<>> \in Seq(Version)
    BY EmptySeq
  <2>4. new \in Request
    BY <2>2, <2>3 DEF Request
  <2>5. calls' = [calls EXCEPT ![q] = new] /\ UNCHANGED field
    BY <1>1 DEF ChooseReceives, Receive
  <2>6. new.op = "choose" /\ DOMAIN new.entries = {}
    BY <2>3, EmptySeq, LenProperties
  <2> HIDE DEF new
  <2>7. /\ calls' \in [Callers -> Request]
        /\ calls'[q] = new
        /\ \A p \in Callers : p # q => calls'[p] = calls[p]
    BY <1>0, <2>4, <2>5, OneMovesOn
  <2>8. Sound(q)'
    BY <2>6, <2>7 DEF Sound
  <2> QED BY <2>5, <2>6, <2>7, <2>8, RequestStepKeeps
<1>2. CASE ChooseReadsRow(q)
  <2>1. PICK p \in programs :
          /\ p.id = Head(calls[q].left)
          /\ Becomes(q, [op |-> "chosen", left |-> calls[q].left, entries |-> calls[q].entries,
                         version |-> Given(p)])
    BY <1>2 DEF ChooseReadsRow
  <2> DEFINE new == [op |-> "chosen", left |-> calls[q].left, entries |-> calls[q].entries,
                     version |-> Given(p)]
  <2>2. /\ calls[q].op = "choose" /\ calls[q].left # <<>>
        /\ calls[q].left \in Seq(Nat) /\ calls[q].entries \in Seq(Version)
    BY <1>0, <1>2, RequestFields DEF ChooseReadsRow
  <2>3. Given(p) \in Nat /\ <<Head(calls[q].left), Given(p)>> \in blessed
    BY <2>1, GivenIsSound
  <2>4. new \in Request
    BY <2>2, <2>3 DEF Request
  <2>5. calls' = [calls EXCEPT ![q] = new] /\ UNCHANGED <<library, field>>
    BY <1>2, <2>1 DEF ChooseReadsRow, Becomes
  <2>6. /\ new.op = "chosen" /\ new.entries = calls[q].entries
        /\ new.left = calls[q].left /\ new.version = Given(p)
    OBVIOUS
  <2> HIDE DEF new
  <2>7. /\ calls' \in [Callers -> Request]
        /\ calls'[q] = new
        /\ \A r \in Callers : r # q => calls'[r] = calls[r]
    BY <1>0, <2>4, <2>5, OneMovesOn
  <2>8. \A k \in DOMAIN calls[q].entries :
          Truthful(calls[q].entries[k].id, calls[q].entries[k].version, calls[q].entries[k].body)
    BY <1>0, <2>2 DEF Sound
  <2>9. Sound(q)'
    <3>1. (\A k \in DOMAIN calls[q].entries :
             Truthful(calls[q].entries[k].id, calls[q].entries[k].version,
                      calls[q].entries[k].body))'
      BY <2>5, <2>6, <2>7, <2>8 DEF library, Truthful
    <3>2. (calls[q].left # <<>> /\ <<Head(calls[q].left), calls[q].version>> \in blessed)'
      BY <2>2, <2>3, <2>5, <2>6, <2>7 DEF library
    <3>3. calls'[q].op = "chosen"
      BY <2>6, <2>7
    <3> QED BY <3>1, <3>2, <3>3 DEF Sound
  <2> QED BY <2>5, <2>6, <2>7, <2>9, RequestStepKeeps
<1>3. CASE ChooseReadsBody(q)
  <2> DEFINE id == Head(calls[q].left)
             v == calls[q].version
  <2>1. PICK f \in Body(id, v) :
          Becomes(q, [op |-> "choose", left |-> Tail(calls[q].left),
                      entries |-> Append(calls[q].entries, [id |-> id, version |-> v,
                                                          body |-> f.body])])
    BY <1>3 DEF ChooseReadsBody
  <2>2. /\ calls[q].op = "chosen" /\ calls[q].left \in Seq(Nat)
        /\ calls[q].entries \in Seq(Version) /\ v \in Nat
    BY <1>0, <1>3, RequestFields DEF ChooseReadsBody
  <2>3. <<id, v>> \in blessed /\ id \in Nat
    BY <1>0, <2>2 DEF Sound, LibraryTypeOK
  <2> HIDE DEF id, v
  <2>4. f.body \in Nat /\ Truthful(id, v, f.body)
    BY <2>2, <2>3, BodyIsTruthful
  <2> DEFINE e == [id |-> id, version |-> v, body |-> f.body]
             new == [op |-> "choose", left |-> Tail(calls[q].left),
                     entries |-> Append(calls[q].entries, e)]
  <2>5. e \in Version /\ e.id = id /\ e.version = v /\ e.body = f.body
    BY <2>2, <2>3, <2>4 DEF Version
  <2> HIDE DEF e
  <2>6. /\ Append(calls[q].entries, e) \in Seq(Version)
        /\ Len(Append(calls[q].entries, e)) = Len(calls[q].entries) + 1
        /\ \A k \in 1..Len(calls[q].entries) : Append(calls[q].entries, e)[k] = calls[q].entries[k]
        /\ Append(calls[q].entries, e)[Len(calls[q].entries) + 1] = e
    BY <2>2, <2>5, AppendProperties
  <2>7. Tail(calls[q].left) \in Seq(Nat)
    <3>1. calls[q].left # <<>>
      BY <1>0, <2>2 DEF Sound
    <3> QED BY <2>2, <3>1, HeadTailProperties
  <2>8. new \in Request
    BY <2>6, <2>7 DEF Request
  <2>9. calls' = [calls EXCEPT ![q] = new] /\ UNCHANGED <<library, field>>
    BY <1>3, <2>1 DEF ChooseReadsBody, Becomes, e
  <2>10. new.op = "choose" /\ new.entries = Append(calls[q].entries, e)
    OBVIOUS
  <2> HIDE DEF new
  <2>11. /\ calls' \in [Callers -> Request]
         /\ calls'[q] = new
         /\ \A r \in Callers : r # q => calls'[r] = calls[r]
    BY <1>0, <2>8, <2>9, OneMovesOn
  <2>12. ASSUME NEW k \in DOMAIN new.entries
         PROVE  Truthful(new.entries[k].id, new.entries[k].version, new.entries[k].body)
    <3>1. DOMAIN new.entries = 1..(Len(calls[q].entries) + 1) /\ Len(calls[q].entries) \in Nat
      BY <2>2, <2>6, <2>10, LenProperties
    <3>2. CASE k = Len(calls[q].entries) + 1
      BY <2>4, <2>5, <2>6, <2>10, <3>2
    <3>3. CASE k # Len(calls[q].entries) + 1
      <4>0. k \in 1..Len(calls[q].entries)
        BY ONLY <3>1, <3>3
      <4>1. k \in 1..Len(calls[q].entries) /\ k \in DOMAIN calls[q].entries
        BY ONLY <2>2, <4>0, LenProperties
      <4>2. new.entries[k] = calls[q].entries[k]
        BY <2>6, <2>10, <4>1
      <4> QED BY <1>0, <2>2, <4>1, <4>2 DEF Sound
    <3> QED BY <3>2, <3>3
  <2>13. Sound(q)'
    BY <2>9, <2>10, <2>11, <2>12 DEF Sound, library, Truthful
  <2> QED BY <2>9, <2>10, <2>11, <2>13, RequestStepKeeps
<1> QED BY <1>1, <1>2, <1>3 DEF Choosing

LEMMA InstallingKeeps ==
  ASSUME LibraryInv, Edited, NEW q \in Callers, Installing(q), ~InstallApplies(q)
  PROVE  LibraryInv'
<1>0. LibraryTypeOK /\ Sound(q)
  BY DEF LibraryInv, SnapshotsInv
<1>1. ASSUME NEW r \in Robots, NEW id \in 1..lastId, InstallReceives(q, r, id)
      PROVE  LibraryInv'
  <2> DEFINE new == [op |-> "install", robot |-> r, id |-> id]
  <2>1. id \in Nat
    BY <1>0 DEF LibraryTypeOK
  <2>2. new \in Request /\ new.op = "install"
    BY <2>1 DEF Request
  <2>3. calls' = [calls EXCEPT ![q] = new] /\ UNCHANGED field
    BY <1>1 DEF InstallReceives, Receive
  <2> HIDE DEF new
  <2> QED BY <2>2, <2>3, NothingRead
<1>2. CASE InstallReadsRow(q)
  <2>1. PICK p \in programs :
          /\ p.id = calls[q].id
          /\ Becomes(q, [op |-> "approved", robot |-> calls[q].robot, id |-> calls[q].id,
                         version |-> Given(p)])
    BY <1>2 DEF InstallReadsRow
  <2> DEFINE new == [op |-> "approved", robot |-> calls[q].robot, id |-> calls[q].id,
                     version |-> Given(p)]
  <2>2. calls[q].robot \in Robots /\ calls[q].id \in Nat
    BY <1>0, <1>2, RequestFields DEF InstallReadsRow
  <2>3. Given(p) \in Nat /\ <<calls[q].id, Given(p)>> \in blessed
    BY <2>1, GivenIsSound
  <2>4. new \in Request
    BY <2>2, <2>3 DEF Request
  <2>5. calls' = [calls EXCEPT ![q] = new] /\ UNCHANGED <<library, field>>
    BY <1>2, <2>1 DEF InstallReadsRow, Becomes
  <2>6. new.op = "approved" /\ new.id = calls[q].id /\ new.version = Given(p)
    OBVIOUS
  <2> HIDE DEF new
  <2>7. /\ calls' \in [Callers -> Request]
        /\ calls'[q] = new
        /\ \A r \in Callers : r # q => calls'[r] = calls[r]
    BY <1>0, <2>4, <2>5, OneMovesOn
  <2>8. Sound(q)'
    BY <2>3, <2>5, <2>6, <2>7 DEF Sound, library
  <2> QED BY <2>5, <2>6, <2>7, <2>8, RequestStepKeeps
<1>3. CASE InstallReadsBody(q)
  <2> DEFINE id == calls[q].id
             v == calls[q].version
  <2>1. PICK f \in Body(id, v) :
          Becomes(q, [op |-> "loaded", robot |-> calls[q].robot, id |-> id, version |-> v,
                      body |-> f.body])
    BY <1>3 DEF InstallReadsBody
  <2>2. calls[q].op = "approved" /\ calls[q].robot \in Robots /\ id \in Nat /\ v \in Nat
    BY <1>0, <1>3, RequestFields DEF InstallReadsBody
  <2>3. <<id, v>> \in blessed
    BY <1>0, <2>2 DEF Sound
  <2> HIDE DEF id, v
  <2>4. f.body \in Nat /\ Truthful(id, v, f.body)
    BY <2>2, <2>3, BodyIsTruthful
  <2> DEFINE new == [op |-> "loaded", robot |-> calls[q].robot, id |-> id, version |-> v,
                     body |-> f.body]
  <2>5. new \in Request
    BY <2>2, <2>4 DEF Request
  <2>6. calls' = [calls EXCEPT ![q] = new] /\ UNCHANGED <<library, field>>
    BY <1>3, <2>1 DEF InstallReadsBody, Becomes
  <2>7. new.op = "loaded" /\ new.id = id /\ new.version = v /\ new.body = f.body
    OBVIOUS
  <2> HIDE DEF new
  <2>8. /\ calls' \in [Callers -> Request]
        /\ calls'[q] = new
        /\ \A r \in Callers : r # q => calls'[r] = calls[r]
    BY <1>0, <2>5, <2>6, OneMovesOn
  <2>9. Sound(q)'
    BY <2>4, <2>6, <2>7, <2>8 DEF Sound, library, Truthful
  <2> QED BY <2>6, <2>7, <2>8, <2>9, RequestStepKeeps
<1> QED BY <1>1, <1>2, <1>3 DEF Installing

------------------------------------------------------------------------------
\* The steps that change the field leave the library alone.

LEMMA ChooseStoresKeeps ==
  ASSUME LibraryInv, Edited, NEW q \in Callers, ChooseStores(q)
  PROVE  LibraryInv'
<1>0. LibraryTypeOK /\ Sound(q)
  BY DEF LibraryInv, SnapshotsInv
<1>1. /\ calls[q].op = "choose" /\ match = "open" /\ loadout' = calls[q].entries
      /\ calls' = [calls EXCEPT ![q] = Idle]
      /\ UNCHANGED <<library, match, rt, robots>>
  BY DEF ChooseStores, Return
<1>2. Idle \in Request /\ Idle.op = "idle"
  BY DEF Request, Idle
<1>3. /\ calls' \in [Callers -> Request]
      /\ calls'[q] = Idle
      /\ \A r \in Callers : r # q => calls'[r] = calls[r]
  BY <1>0, <1>1, <1>2, OneMovesOn
<1>4. Sound(q)'
  BY <1>3 DEF Sound, Idle
<1>5. loadout' \in Seq(Version)
  BY <1>0, <1>1, RequestFields
<1>6. (\A k \in DOMAIN loadout :
         Truthful(loadout[k].id, loadout[k].version, loadout[k].body))'
  BY <1>0, <1>1 DEF Sound, library, Truthful
<1>7. (\A x \in rt : Truthful(x.ref.id, x.ref.version, x.body))'
  BY <1>1, FieldStaysTrue
<1>8. FieldInv'
  BY <1>1 DEF LibraryInv, FieldInv
<1>9. /\ match' \in {"open", "running", "over"} /\ rt' \subseteq [ref : Ref, body : Nat]
      /\ robots' \in [Robots -> Ref \cup {BuiltIn, Unborn, Gone}]
  BY <1>0, <1>1 DEF LibraryTypeOK
<1>10. \A r \in Callers :
         calls'[r] = calls[r] \/ Sound(r)'
  BY <1>2, <1>3, <1>4
<1> QED BY <1>3, <1>5, <1>6, <1>7, <1>8, <1>9, <1>10, StepKeeps

\* A design is an installed one or the built-in kit's.
LEMMA DesignsAreInstalled ==
  ASSUME LibraryInv, match # "open", NEW d \in Designs
  PROVE  /\ d \in Ref \cup {BuiltIn}
         /\ d \in Ref => \E x \in rt : x.ref = d
<1>1. CASE loadout = <<>>
  BY <1>1, LibraryAssumption DEF Designs
<1>2. CASE loadout # <<>>
  <2>1. PICK k \in DOMAIN loadout : d = ColonyRef(loadout[k])
    BY <1>2 DEF Designs, Entries
  <2>2. loadout[k] \in Version
    BY <2>1, LenProperties, ElementOfSeq DEF LibraryInv, LibraryTypeOK
  <2>3. d \in Ref
    BY <2>1, <2>2 DEF ColonyRef, Ref, Version
  <2> QED BY <2>1, <2>3 DEF LibraryInv, FieldInv
<1> QED BY <1>1, <1>2

LEMMA RobotsKeep ==
  ASSUME LibraryInv, Edited, NEW r \in Robots, Produced(r) \/ Destroyed(r)
  PROVE  LibraryInv'
<1>0. LibraryTypeOK
  BY DEF LibraryInv
<1>1. UNCHANGED <<library, loadout, match, rt, calls>> /\ match = "running"
  BY DEF Produced, Destroyed
<1>2. PICK d \in Ref \cup {BuiltIn, Gone} :
        robots' = [robots EXCEPT ![r] = d] /\ (d \in Ref => \E x \in rt : x.ref = d)
  <2>1. CASE Produced(r)
    BY <1>1, <2>1, DesignsAreInstalled DEF Produced
  <2>2. CASE Destroyed(r)
    BY <2>2, LibraryAssumption DEF Destroyed
  <2> QED BY <2>1, <2>2
<1>3. robots' \in [Robots -> Ref \cup {BuiltIn, Unborn, Gone}]
  BY <1>0, <1>2 DEF LibraryTypeOK
<1>4. FieldInv'
  <2>1. \A s \in Robots : robots'[s] \in Ref => \E x \in rt' : x.ref = robots'[s]
    BY <1>0, <1>1, <1>2 DEF LibraryInv, FieldInv, LibraryTypeOK
  <2>2. match' # "open" => \A k \in DOMAIN loadout' : \E x \in rt' : x.ref = ColonyRef(loadout'[k])
    BY <1>1 DEF LibraryInv, FieldInv
  <2> QED BY <2>1, <2>2 DEF FieldInv, ColonyRef
<1>5. /\ (\A k \in DOMAIN loadout :
            Truthful(loadout[k].id, loadout[k].version, loadout[k].body))'
      /\ (\A x \in rt : Truthful(x.ref.id, x.ref.version, x.body))'
  BY <1>1, FieldStaysTrue
<1>6. /\ calls' \in [Callers -> Request] /\ loadout' \in Seq(Version)
      /\ match' \in {"open", "running", "over"} /\ rt' \subseteq [ref : Ref, body : Nat]
  BY <1>0, <1>1 DEF LibraryTypeOK
<1> QED BY <1>1, <1>3, <1>4, <1>5, <1>6, StepKeeps

LEMMA EndsKeeps ==
  ASSUME LibraryInv, Edited, Ends
  PROVE  LibraryInv'
<1>1. /\ UNCHANGED <<library, loadout, rt, robots, calls>>
      /\ match = "running" /\ match' = "over"
  BY DEF Ends
<1>2. FieldInv'
  BY <1>1 DEF LibraryInv, FieldInv, ColonyRef
<1>3. /\ (\A k \in DOMAIN loadout :
            Truthful(loadout[k].id, loadout[k].version, loadout[k].body))'
      /\ (\A x \in rt : Truthful(x.ref.id, x.ref.version, x.body))'
  BY <1>1, FieldStaysTrue
<1>4. /\ calls' \in [Callers -> Request] /\ loadout' \in Seq(Version)
      /\ match' \in {"open", "running", "over"} /\ rt' \subseteq [ref : Ref, body : Nat]
      /\ robots' \in [Robots -> Ref \cup {BuiltIn, Unborn, Gone}]
  BY <1>1 DEF LibraryInv, LibraryTypeOK
<1> QED BY <1>1, <1>2, <1>3, <1>4, StepKeeps

LEMMA InstallAppliesKeeps ==
  ASSUME LibraryInv, Edited, NEW q \in Callers, InstallApplies(q)
  PROVE  LibraryInv'
<1> DEFINE ref == RobotRef(calls[q])
           new == [ref |-> ref, body |-> calls[q].body]
<1>0. LibraryTypeOK /\ Sound(q)
  BY DEF LibraryInv, SnapshotsInv
<1>1. /\ calls[q].op = "loaded" /\ calls' = [calls EXCEPT ![q] = Idle]
      /\ rt' = {x \in rt : x.ref # ref} \cup {new}
      /\ robots' = [robots EXCEPT ![calls[q].robot] = ref]
      /\ UNCHANGED <<library, loadout, match>>
  BY DEF InstallApplies, Return, Installed
<1>2. /\ calls[q].robot \in Robots /\ calls[q].id \in Nat
      /\ calls[q].version \in Nat /\ calls[q].body \in Nat
  BY <1>0, <1>1, RequestFields
<1>3. ref \in Ref /\ ref.id = calls[q].id /\ ref.version = calls[q].version
  BY <1>2 DEF RobotRef, Ref
<1>4. new \in [ref : Ref, body : Nat] /\ new.ref = ref /\ new.body = calls[q].body
  BY <1>2, <1>3
<1> HIDE DEF ref, new
<1>5. Idle \in Request
  BY DEF Request
<1>6. /\ calls' \in [Callers -> Request]
      /\ calls'[q] = Idle
      /\ \A r \in Callers : r # q => calls'[r] = calls[r]
  BY <1>0, <1>1, <1>5, OneMovesOn
<1>7. Sound(q)' /\ calls'[q].op # "save"
  BY <1>6 DEF Sound, Idle
<1>8. \A r \in Callers :
        calls'[r] = calls[r] \/ Sound(r)'
  BY <1>6, <1>7
<1>9. /\ loadout' \in Seq(Version) /\ match' \in {"open", "running", "over"}
      /\ rt' \subseteq [ref : Ref, body : Nat]
      /\ robots' \in [Robots -> Ref \cup {BuiltIn, Unborn, Gone}]
  BY <1>0, <1>1, <1>3, <1>4 DEF LibraryTypeOK
<1>10. (\A k \in DOMAIN loadout :
          Truthful(loadout[k].id, loadout[k].version, loadout[k].body))'
  BY <1>1, FieldStaysTrue
<1>11. (\A x \in rt : Truthful(x.ref.id, x.ref.version, x.body))'
  <2>1. ASSUME NEW x \in rt' PROVE Truthful(x.ref.id, x.ref.version, x.body)'
    <3>1. CASE x \in rt
      BY <3>1, FieldStaysTrue
    <3>2. CASE x = new
      <4>1. Truthful(x.ref.id, x.ref.version, x.body)
        BY <1>0, <1>1, <1>3, <1>4, <3>2 DEF Sound
      <4> QED BY <1>1, <4>1 DEF library, Truthful
    <3> QED BY <1>1, <3>1, <3>2
  <2> QED BY <2>1 DEF Truthful
<1>12. FieldInv'
  <2>1. \A a : (\E x \in rt : x.ref = a) => \E x \in rt' : x.ref = a
    BY <1>1, <1>4
  <2>2. \E x \in rt' : x.ref = ref
    BY <1>1, <1>4
  <2>3. match' # "open" => \A k \in DOMAIN loadout' : \E x \in rt' : x.ref = ColonyRef(loadout'[k])
    BY <1>1, <2>1 DEF LibraryInv, FieldInv
  <2>4. \A s \in Robots : robots'[s] \in Ref => \E x \in rt' : x.ref = robots'[s]
    BY <1>0, <1>1, <2>1, <2>2 DEF LibraryInv, FieldInv, LibraryTypeOK
  <2> QED BY <2>3, <2>4 DEF FieldInv, ColonyRef
<1> QED BY <1>6, <1>8, <1>9, <1>10, <1>11, <1>12, StepKeeps

LEMMA StartKeeps ==
  ASSUME LibraryInv, Edited, Start
  PROVE  LibraryInv'
<1> DEFINE last == {j \in DOMAIN loadout : \A k \in DOMAIN loadout :
                      k > j => ColonyRef(loadout[k]) # ColonyRef(loadout[j])}
<1>0. LibraryTypeOK
  BY DEF LibraryInv
<1>1. /\ match = "open" /\ match' = "running"
      /\ rt' = {[ref |-> ColonyRef(loadout[i]), body |-> loadout[i].body] : i \in last}
      /\ robots' \in [Robots -> Designs \cup {Unborn}]
      /\ UNCHANGED <<library, loadout, calls>>
  BY DEF Start
<1>2. \A k \in DOMAIN loadout : loadout[k] \in Version /\ ColonyRef(loadout[k]) \in Ref
  <2> SUFFICES ASSUME NEW k \in DOMAIN loadout
               PROVE  loadout[k] \in Version /\ ColonyRef(loadout[k]) \in Ref
    OBVIOUS
  <2>1. loadout[k] \in Version
    BY <1>0, LenProperties, ElementOfSeq DEF LibraryTypeOK
  <2> QED BY <2>1 DEF ColonyRef, Ref, Version
<1>3. \A k \in DOMAIN loadout : \E m \in last : ColonyRef(loadout[m]) = ColonyRef(loadout[k])
  <2> SUFFICES ASSUME NEW k \in DOMAIN loadout
               PROVE  \E m \in last : ColonyRef(loadout[m]) = ColonyRef(loadout[k])
    OBVIOUS
  <2> DEFINE S == {j \in DOMAIN loadout : ColonyRef(loadout[j]) = ColonyRef(loadout[k])}
  <2>1. DOMAIN loadout = 1..Len(loadout) /\ Len(loadout) \in Nat
    BY <1>0, LenProperties DEF LibraryTypeOK
  <2>2. S \in SUBSET (1..Len(loadout)) /\ k \in S
    BY <2>1
  <2>3. PICK m \in S : \A j \in S : j <= m
    <3> HIDE DEF S
    <3> QED BY <2>1, <2>2, LastOf
  <2>4. \A j \in DOMAIN loadout : j > m => ColonyRef(loadout[j]) # ColonyRef(loadout[m])
    BY <2>1, <2>3
  <2> QED BY <2>3, <2>4
<1>4. \A k \in DOMAIN loadout : \E x \in rt' : x.ref = ColonyRef(loadout[k])
  <2>1. ASSUME NEW m \in last PROVE \E x \in rt' : x.ref = ColonyRef(loadout[m])
    <3>1. [ref |-> ColonyRef(loadout[m]), body |-> loadout[m].body] \in rt'
      BY <1>1
    <3> QED BY <3>1
  <2> HIDE DEF last
  <2> QED BY <1>3, <2>1
<1>5. rt' \subseteq [ref : Ref, body : Nat]
  BY <1>1, <1>2 DEF Version
<1>6. \A d \in Designs : d = BuiltIn \/ (d \in Ref /\ \E x \in rt' : x.ref = d)
  BY <1>2, <1>4 DEF Designs, Entries
<1>7. robots' \in [Robots -> Ref \cup {BuiltIn, Unborn, Gone}]
  BY <1>1, <1>6
<1>8. FieldInv'
  <2>1. \A s \in Robots : robots'[s] \in Ref => \E x \in rt' : x.ref = robots'[s]
    BY <1>1, <1>6, LibraryAssumption
  <2> QED BY <1>1, <1>4, <2>1 DEF FieldInv, ColonyRef
<1>9. (\A k \in DOMAIN loadout :
         Truthful(loadout[k].id, loadout[k].version, loadout[k].body))'
  BY <1>1, FieldStaysTrue
<1>10. (\A x \in rt : Truthful(x.ref.id, x.ref.version, x.body))'
  <2>1. ASSUME NEW x \in rt' PROVE Truthful(x.ref.id, x.ref.version, x.body)'
    <3>1. PICK k \in DOMAIN loadout :
            x = [ref |-> ColonyRef(loadout[k]), body |-> loadout[k].body]
      BY <1>1
    <3>2. x.ref.id = loadout[k].id /\ x.ref.version = loadout[k].version
          /\ x.body = loadout[k].body
      BY <3>1 DEF ColonyRef
    <3>3. Truthful(loadout[k].id, loadout[k].version, loadout[k].body)
      BY DEF LibraryInv, SnapshotsInv
    <3> QED BY <1>1, <3>2, <3>3 DEF library, Truthful
  <2> QED BY <2>1 DEF Truthful
<1>11. calls' \in [Callers -> Request] /\ loadout' \in Seq(Version)
  BY <1>0, <1>1 DEF LibraryTypeOK
<1>12. match' \in {"open", "running", "over"}
  BY <1>1
<1>13. \A q \in Callers : calls'[q] = calls[q]
  BY <1>1
<1> HIDE DEF last
<1> QED BY <1>5, <1>7, <1>8, <1>9, <1>10, <1>11, <1>12, <1>13, StepKeeps

LEMMA UnseenKeeps ==
  ASSUME LibraryInv, Edited, UNCHANGED <<calls, field>>
  PROVE  LibraryInv'
<1>1. calls' \in [Callers -> Request]
  BY DEF LibraryInv, LibraryTypeOK
<1> QED BY <1>1, RequestStepKeeps

LEMMA LibraryInvInit == LibraryInit => LibraryInv
<1> SUFFICES ASSUME LibraryInit PROVE LibraryInv
  OBVIOUS
<1>1. Idle \in Request /\ \A q \in Callers : calls[q] = Idle
  BY DEF LibraryInit, Request
<1>2. LibraryTypeOK
  BY <1>1, EmptySeq DEF LibraryInit, LibraryTypeOK
<1>3. RowsInv
  BY DEF LibraryInit, RowsInv
<1>4. SnapshotsInv
  <2>1. \A q \in Callers : Sound(q)
    BY <1>1 DEF Sound, Idle
  <2>2. DOMAIN loadout = {} /\ rt = {}
    BY EmptySeq, LenProperties DEF LibraryInit
  <2> QED BY <2>1, <2>2 DEF SnapshotsInv
<1>5. FieldInv
  BY LibraryAssumption DEF LibraryInit, FieldInv
<1> QED BY <1>2, <1>3, <1>4, <1>5 DEF LibraryInv

LEMMA LibraryInvNext == LibraryInv /\ [LibraryNext]_libraryVars => LibraryInv'
<1> SUFFICES ASSUME LibraryInv, [LibraryNext]_libraryVars PROVE LibraryInv'
  OBVIOUS
<1>1. CASE UNCHANGED libraryVars
  <2>1. /\ UNCHANGED <<programs, versions, lastId, saves, loadout>>
        /\ UNCHANGED <<match, rt, robots, calls, blessed>>
    BY <1>1 DEF libraryVars
  <2>2. LibraryTypeOK' /\ RowsInv' /\ FieldInv'
    BY <2>1 DEF LibraryInv, LibraryTypeOK, RowsInv, FieldInv, ColonyRef
  <2>3. SnapshotsInv'
    BY <2>1 DEF LibraryInv, SnapshotsInv, Sound, Truthful
  <2> QED BY <2>2, <2>3 DEF LibraryInv
<1>2. CASE LibraryNext
  <2>0. LibraryNext /\ Edited
    BY <1>2, StepEdits DEF LibraryInv
  <2>1. ASSUME NEW q \in Callers, Editing(q) PROVE LibraryInv'
    BY <2>0, <2>1, EditingKeeps
  <2>2. ASSUME NEW q \in Callers, Choosing(q) PROVE LibraryInv'
    BY <2>0, <2>2, ChoosingKeeps, ChooseStoresKeeps
  <2>3. ASSUME NEW q \in Callers, Installing(q) PROVE LibraryInv'
    BY <2>0, <2>3, InstallingKeeps, InstallAppliesKeeps
  <2>4. ASSUME NEW name \in Names, SaveNew(name) PROVE LibraryInv'
    BY <2>0, <2>4, UnseenKeeps DEF SaveNew
  <2>5. ASSUME NEW id \in 1..lastId, Delete(id) \/ (\E v \in 1..saves : Approve(id, v))
        PROVE  LibraryInv'
    BY <2>0, <2>5, UnseenKeeps DEF Delete, Approve
  <2>6. ASSUME NEW r \in Robots, Produced(r) \/ Destroyed(r) PROVE LibraryInv'
    BY <2>0, <2>6, RobotsKeep
  <2>7. CASE Start
    BY <2>0, <2>7, StartKeeps
  <2>8. CASE Ends
    BY <2>0, <2>8, EndsKeeps
  <2> QED BY <2>0, <2>1, <2>2, <2>3, <2>4, <2>5, <2>6, <2>7, <2>8 DEF LibraryNext
<1> QED BY <1>1, <1>2

\* The rows stay in order, every snapshot truthful, and whatever a robot runs installed.
THEOREM LibraryInvariance == LibrarySpec => []LibraryInv
<1> QED BY LibraryInvInit, LibraryInvNext, PTL DEF LibrarySpec

\* The programs, the requests in flight and the field are what their types say.
THEOREM LibraryTypeCorrect == LibrarySpec => []LibraryTypeOK
<1>1. LibraryInv => LibraryTypeOK
  BY DEF LibraryInv
<1> QED BY <1>1, LibraryInvariance, PTL

\* A robot's id names the very rules the runtime holds for it.
THEOREM TheIdTellsTheTruth == LibrarySpec => []NamesItsRules
<1>1. LibraryInv => NamesItsRules
  <2> SUFFICES ASSUME LibraryInv, NEW r \in Robots, robots[r] \in Ref
               PROVE  \E x \in rt : /\ x.ref = robots[r]
                                    /\ \A f \in Body(x.ref.id, x.ref.version) : f.body = x.body
    BY DEF NamesItsRules
  <2>1. PICK x \in rt : x.ref = robots[r]
    BY DEF LibraryInv, FieldInv
  <2>2. Truthful(x.ref.id, x.ref.version, x.body)
    BY DEF LibraryInv, SnapshotsInv
  <2>3. \A f \in Body(x.ref.id, x.ref.version) : f.body = x.body
    BY <2>2 DEF Truthful, Body
  <2> QED BY <2>1, <2>3
<1> QED BY <1>1, LibraryInvariance, PTL

\* What a robot runs and what a loadout fields was approved once.
THEOREM OnlyTheApprovedIsFielded == LibrarySpec => []NoDraftIsFielded
<1>1. LibraryInv => NoDraftIsFielded
  <2> SUFFICES ASSUME LibraryInv PROVE NoDraftIsFielded
    OBVIOUS
  <2>1. ASSUME NEW r \in Robots, robots[r] \in Ref
        PROVE  <<robots[r].id, robots[r].version>> \in blessed
    <3>1. PICK x \in rt : x.ref = robots[r]
      BY <2>1 DEF LibraryInv, FieldInv
    <3>2. Truthful(x.ref.id, x.ref.version, x.body)
      BY DEF LibraryInv, SnapshotsInv
    <3> QED BY <3>1, <3>2 DEF Truthful
  <2>2. ASSUME NEW e \in Entries PROVE <<e.id, e.version>> \in blessed
    <3>1. PICK k \in DOMAIN loadout : e = loadout[k]
      BY DEF Entries
    <3>2. Truthful(loadout[k].id, loadout[k].version, loadout[k].body)
      BY DEF LibraryInv, SnapshotsInv
    <3> QED BY <3>1, <3>2 DEF Truthful
  <2> QED BY <2>1, <2>2 DEF NoDraftIsFielded
<1> QED BY <1>1, LibraryInvariance, PTL

-----------------------------------------------------------------------------
(* Sessions. *)

LEMMA SessionTypeInit == SessionInit => SessionTypeOK
  BY SessionAssumption DEF SessionInit, SessionTypeOK, NoRow, Cookie, Empty, Ask, NoAsk

\* What a request knows of its token, and what a browser sends, is a token.
LEMMA SentIsToken ==
  ASSUME SessionTypeOK, NEW b \in Browsers
  PROVE  Sent(b) \in Tokens \cup {NoToken}
  BY DEF SessionTypeOK, Sent, Cookie

LEMMA SessionTypeStep == SessionTypeOK /\ [SessionNext]_sessionVars => SessionTypeOK'
<1> SUFFICES ASSUME SessionTypeOK, [SessionNext]_sessionVars
             PROVE  SessionTypeOK'
  OBVIOUS
<1> USE SessionAssumption
<1>1. CASE SessionTick
  <2>1. \A n \in 0..Life : Minus(n) \in 0..Life
    BY DEF Minus
  <2>2. rows' \in [Tokens -> 0..Life \cup {NoRow}]
    BY <1>1, <2>1 DEF SessionTick, SessionTypeOK, NoRow
  <2>3. jar' \in [Browsers -> Cookie]
    BY <1>1, <2>1 DEF SessionTick, SessionTypeOK, Cookie
  <2> QED BY <1>1, <2>2, <2>3 DEF SessionTick, SessionTypeOK
<1>2. ASSUME NEW b \in Browsers, Login(b)
      PROVE  SessionTypeOK'
  BY <1>2 DEF Login, SessionTypeOK
<1>3. ASSUME NEW b \in Browsers, CallbackRefused(b)
      PROVE  SessionTypeOK'
  BY <1>3 DEF CallbackRefused, SessionTypeOK
<1>4. ASSUME NEW b \in Browsers, NEW t \in Tokens, Callback(b, t)
      PROVE  SessionTypeOK'
  <2>1. rows' \in [Tokens -> 0..Life \cup {NoRow}]
    BY <1>4 DEF Callback, SessionTypeOK, NoRow
  <2>2. jar' \in [Browsers -> Cookie]
    BY <1>4 DEF Callback, SessionTypeOK, Cookie
  <2> QED BY <1>4, <2>1, <2>2 DEF Callback, SessionTypeOK
<1>5. ASSUME NEW b \in Browsers, Logout(b)
      PROVE  SessionTypeOK'
  <2>1. rows' \in [Tokens -> 0..Life \cup {NoRow}]
    BY <1>5 DEF Logout, SessionTypeOK, NoRow
  <2>2. jar' \in [Browsers -> Cookie]
    BY <1>5 DEF Logout, Cleared, SessionTypeOK, Cookie, Empty
  <2> QED BY <1>5, <2>1, <2>2 DEF Logout, SessionTypeOK
<1>10. ASSUME NEW b \in Browsers, LogoutFails(b)
       PROVE  SessionTypeOK'
  <2>1. jar' \in [Browsers -> Cookie]
    BY <1>10 DEF LogoutFails, Cleared, SessionTypeOK, Cookie, Empty
  <2> QED BY <1>10, <2>1 DEF LogoutFails, SessionTypeOK
<1>6. ASSUME NEW b \in Browsers, SessionFound(b)
      PROVE  SessionTypeOK'
  <2>1. asks' \in [Browsers -> Ask]
    BY <1>6, SentIsToken DEF SessionFound, SessionTypeOK, Ask
  <2> QED BY <1>6, <2>1 DEF SessionFound, SessionTypeOK
<1>7. ASSUME NEW b \in Browsers, SessionRefreshed(b)
      PROVE  SessionTypeOK'
  <2>1. asks' \in [Browsers -> Ask]
    BY <1>7 DEF SessionRefreshed, SessionTypeOK, Ask
  <2>2. rows' \in [Tokens -> 0..Life \cup {NoRow}]
    BY <1>7 DEF SessionRefreshed, SessionTypeOK, NoRow
  <2> QED BY <1>7, <2>1, <2>2 DEF SessionRefreshed, SessionTypeOK
<1>8. ASSUME NEW b \in Browsers, Answered(b)
      PROVE  SessionTypeOK'
  <2>1. asks[b].token \in Tokens \cup {NoToken}
    BY DEF SessionTypeOK, Ask
  <2>2. jar' \in [Browsers -> Cookie]
    BY <1>8, <2>1 DEF Answered, SessionTypeOK, Cookie
  <2>3. asks' \in [Browsers -> Ask]
    BY <1>8 DEF Answered, SessionTypeOK, Ask, NoAsk
  <2> QED BY <1>8, <2>2, <2>3 DEF Answered, SessionTypeOK
<1>9. CASE UNCHANGED sessionVars
  BY <1>9 DEF sessionVars, SessionTypeOK
<1> QED
  BY <1>1, <1>2, <1>3, <1>4, <1>5, <1>6, <1>7, <1>8, <1>9, <1>10 DEF SessionNext, Browsing

\* Every variable keeps its type: rows and cookies never have more than a lifetime left.
THEOREM SessionTypeCorrect == SessionSpec => []SessionTypeOK
  BY SessionTypeInit, SessionTypeStep, PTL DEF SessionSpec

\* A step of a request or of the clock does not bring a session back that expired or
\* whose row a logout deleted.
LEMMA EndedStaysEnded ==
  ASSUME SessionTypeOK, [SessionNext]_sessionVars, NEW t \in issued, ~Live(t)
  PROVE  rows'[t] \in {rows[t], NoRow}
<1> USE SessionAssumption
<1>1. t \in Tokens /\ rows[t] \in {0, NoRow}
  BY DEF SessionTypeOK, Live, NoRow
<1>2. CASE SessionTick
  BY <1>1, <1>2 DEF SessionTick, Minus
<1>3. ASSUME NEW b \in Browsers, NEW s \in Tokens, Callback(b, s)
      PROVE  rows'[t] = rows[t]
  BY <1>1, <1>3 DEF Callback, SessionTypeOK
<1>4. ASSUME NEW b \in Browsers, Logout(b)
      PROVE  rows'[t] \in {rows[t], NoRow}
  BY <1>1, <1>4 DEF Logout, SessionTypeOK
<1>5. ASSUME NEW b \in Browsers, SessionRefreshed(b)
      PROVE  rows'[t] = rows[t]
  BY <1>1, <1>5 DEF SessionRefreshed, Due, SessionTypeOK
<1>6. ASSUME NEW b \in Browsers,
             \/ Login(b) \/ CallbackRefused(b) \/ LogoutFails(b)
             \/ SessionFound(b) \/ Answered(b)
      PROVE  rows'[t] = rows[t]
  BY <1>6 DEF Login, CallbackRefused, LogoutFails, SessionFound, Answered
<1>7. CASE UNCHANGED sessionVars
  BY <1>7 DEF sessionVars
<1> QED
  BY <1>2, <1>3, <1>4, <1>5, <1>6, <1>7 DEF SessionNext, Browsing

\* A session that expired, or whose row a logout deleted, stays so, whatever the requests
\* that once found it live do afterwards, the logouts that fail to delete it included
\* (auth.go session, logout, queries.go RefreshSession).
THEOREM SessionsStayEnded == SessionSpec => SessionsEnd
<1>1. SessionTypeOK /\ [SessionNext]_sessionVars =>
        [\A t \in issued : ~Live(t) => rows'[t] \in {rows[t], NoRow}]_sessionVars
  BY EndedStaysEnded
<1> QED
  BY <1>1, SessionTypeCorrect, PTL DEF SessionSpec, SessionsEnd
=============================================================================
