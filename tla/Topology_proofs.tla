-------------------------- MODULE Topology_proofs --------------------------
(***************************************************************************)
(* Machine-checked proofs about circuits and light points, for any number  *)
(* of them, any files and any requests in flight.                          *)
(***************************************************************************)
EXTENDS Topology, SequenceTheorems, FiniteSetTheorems, WellFoundedInduction, TLAPS

-----------------------------------------------------------------------------
(* Smallest numbers, and going through the rows of a file                   *)

LEMMA LeastElement ==
  ASSUME NEW S \in SUBSET Nat, S # {}
  PROVE  \E x \in S : \A y \in S : x <= y
<1>1. PICK x \in S : \A y \in S : ~ (<<y, x>> \in OpToRel(<, Nat))
  BY NatLessThanWellFounded, WFMin
<1>2. \A y \in S : ~(y < x)
  BY <1>1 DEF OpToRel
<1> QED
  BY <1>2

LEMMA MinIsElement ==
  ASSUME NEW S \in SUBSET Nat, S # {}
  PROVE  Min(S) \in S
<1>1. \E x \in S : \A y \in S : x <= y
  BY LeastElement
<1> QED
  BY <1>1 DEF Min

(* The sessions of an import, one after the other: the recursion of         *)
(* Imported is well defined.                                                *)
IsRun(f, n, circ, lit, file) ==
  /\ f = [i \in 0..n |-> f[i]]
  /\ f[0] = Session(circ, lit)
  /\ \A i \in 1..n : f[i] = ImportRow(f[i - 1], file[i])

LEMMA RunsExist ==
  ASSUME NEW circ, NEW lit, NEW file, NEW n \in Nat
  PROVE  \E f : IsRun(f, n, circ, lit, file)
<1> DEFINE Bad == {m \in Nat : ~\E f : IsRun(f, m, circ, lit, file)}
<1> SUFFICES ASSUME Bad # {} PROVE FALSE
  OBVIOUS
<1>1. PICK m \in Bad : \A y \in Bad : m <= y
  BY LeastElement
<1>2. m \in Nat /\ ~\E f : IsRun(f, m, circ, lit, file)
  OBVIOUS
<1>3. CASE m = 0
  <2> DEFINE f == [i \in 0..0 |-> Session(circ, lit)]
  <2>1. f[0] = Session(circ, lit) /\ f = [i \in 0..0 |-> f[i]]
    OBVIOUS
  <2> HIDE DEF f
  <2>2. IsRun(f, 0, circ, lit, file)
    BY <2>1 DEF IsRun
  <2> QED
    BY <1>2, <1>3, <2>2
<1>4. CASE m > 0
  <2>1. m - 1 \in Nat /\ m - 1 \notin Bad
    BY <1>1, <1>4
  <2>2. PICK g : IsRun(g, m - 1, circ, lit, file)
    BY <2>1
  <2> DEFINE f == [i \in 0..m |-> IF i = m THEN ImportRow(g[m - 1], file[m]) ELSE g[i]]
  <2>3. /\ f = [i \in 0..m |-> f[i]]
        /\ f[m] = ImportRow(g[m - 1], file[m])
        /\ \A i \in 0..(m - 1) : f[i] = g[i]
    BY <1>2
  <2> HIDE DEF f
  <2>4. f[0] = Session(circ, lit)
    <3>1. 0 \in 0..(m - 1)
      BY <1>2, <2>1
    <3> QED
      BY <2>2, <2>3, <3>1 DEF IsRun
  <2>5. \A i \in 1..m : f[i] = ImportRow(f[i - 1], file[i])
    <3> SUFFICES ASSUME NEW i \in 1..m PROVE f[i] = ImportRow(f[i - 1], file[i])
      OBVIOUS
    <3>1. f[i - 1] = g[i - 1]
      <4>1. i - 1 \in 0..(m - 1)
        BY <1>2
      <4> QED
        BY <2>3, <4>1
    <3>2. CASE i = m
      BY <2>3, <3>1, <3>2
    <3>3. CASE i # m
      <4>1. i \in 1..(m - 1) /\ i \in 0..(m - 1)
        BY <1>2, <3>3
      <4>2. g[i] = ImportRow(g[i - 1], file[i])
        BY <2>2, <4>1 DEF IsRun
      <4> QED
        BY <2>3, <3>1, <4>1, <4>2
    <3> QED
      BY <3>2, <3>3
  <2>6. IsRun(f, m, circ, lit, file)
    BY <2>3, <2>4, <2>5 DEF IsRun
  <2> QED
    BY <1>2, <2>6
<1> QED
  BY <1>2, <1>3, <1>4

LEMMA ImportedRuns ==
  ASSUME NEW circ, NEW lit, NEW file, Len(file) \in Nat
  PROVE  \E f : /\ f[0] = Session(circ, lit)
                /\ \A i \in 1..Len(file) : f[i] = ImportRow(f[i - 1], file[i])
                /\ Imported(circ, lit, file) = f[Len(file)]
<1> DEFINE n == Len(file)
           Rec(f) == f = [i \in 0..n |-> IF i = 0 THEN Session(circ, lit)
                                         ELSE ImportRow(f[i - 1], file[i])]
           after == CHOOSE f : Rec(f)
<1>1. PICK g : IsRun(g, n, circ, lit, file)
  BY RunsExist
<1>2. Rec(g)
  <2>1. \A i \in 0..n : g[i] = IF i = 0 THEN Session(circ, lit) ELSE ImportRow(g[i - 1], file[i])
    <3> SUFFICES ASSUME NEW i \in 0..n
                 PROVE  g[i] = IF i = 0 THEN Session(circ, lit) ELSE ImportRow(g[i - 1], file[i])
      OBVIOUS
    <3>1. CASE i = 0
      BY <1>1, <3>1 DEF IsRun
    <3>2. CASE i # 0
      <4>1. i \in 1..n
        BY <3>2
      <4> QED
        BY <1>1, <3>2, <4>1 DEF IsRun
    <3> QED
      BY <3>1, <3>2
  <2>2. g = [i \in 0..n |-> g[i]]
    BY <1>1 DEF IsRun
  <2> QED
    BY <2>1, <2>2
<1>3. Rec(after)
  BY <1>2, Zenon
<1>4. Imported(circ, lit, file) = after[n]
  BY DEF Imported
<1> HIDE DEF after
<1>5. after[0] = Session(circ, lit)
  BY <1>3
<1>6. \A i \in 1..n : after[i] = ImportRow(after[i - 1], file[i])
  BY <1>3
<1> QED
  BY <1>4, <1>5, <1>6

-----------------------------------------------------------------------------
(* Tables and totals                                                        *)

CircuitTable == [CircuitIds -> CircuitRow \cup {NoRow}]
LightTable == [LightIds -> LightRow \cup {NoRow}]

LEMMA RowsAreRows == NoRow \notin CircuitRow /\ NoRow \notin LightRow /\ NoRow \notin LightEntry
<1>1. CircuitRow \subseteq [cab : Codes, number : CircuitNumbers, total : Nat]
  BY DEF CircuitRow, Totals
<1> QED
  BY <1>1, NoRowAssumption

LEMMA WattsFinite == IsFiniteSet(AllWatts) /\ Cardinality(AllWatts) \in Nat
<1> DEFINE watts == {1..p : p \in Powers}
           f == [p \in Powers |-> 1..p]
<1>1. f \in Surjection(Powers, watts)
  BY DEF Surjection
<1>2. IsFiniteSet(watts)
  BY <1>1, PowersAssumption, FS_Surjection
<1>3. \A w \in watts : IsFiniteSet(w)
  <2> SUFFICES ASSUME NEW p \in Powers PROVE IsFiniteSet(1..p)
    OBVIOUS
  <2>1. p \in Int /\ 1 \in Int
    BY PowersAssumption
  <2> QED
    BY <2>1, FS_Interval
<1>4. IsFiniteSet(UNION watts)
  BY <1>2, <1>3, FS_UNION
<1>5. IsFiniteSet(AllWatts)
  BY <1>4, IdsAssumption, FS_Product DEF AllWatts
<1> QED
  BY <1>5, FS_CardinalityType

LEMMA LoadInRange ==
  ASSUME NEW lit \in LightTable, NEW k
  PROVE  Load(lit, k) \in Totals
<1> DEFINE drawn == UNION {{l} \X (1..lit[l].power) : l \in Attached(lit, k)}
<1>1. drawn \subseteq AllWatts
  <2> SUFFICES ASSUME NEW l \in Attached(lit, k), NEW x \in {l} \X (1..lit[l].power)
               PROVE  x \in AllWatts
    OBVIOUS
  <2>1. l \in LightIds /\ lit[l].power \in Powers
    BY DEF Attached, Lights, LightTable, LightRow
  <2>2. PICK w \in 1..lit[l].power : x = <<l, w>>
    OBVIOUS
  <2>3. w \in UNION {1..p : p \in Powers}
    BY <2>1, <2>2
  <2> QED
    BY <2>1, <2>2, <2>3 DEF AllWatts
<1>2. IsFiniteSet(drawn) /\ Cardinality(drawn) <= Cardinality(AllWatts)
  BY <1>1, WattsFinite, FS_Subset
<1>3. Cardinality(drawn) \in Nat
  BY <1>2, FS_CardinalityType
<1>4. Load(lit, k) = Cardinality(drawn)
  BY DEF Load
<1> HIDE DEF drawn
<1> QED
  BY <1>2, <1>3, <1>4, WattsFinite DEF Totals

(* The total of a circuit only depends on what its light points draw.       *)
LEMMA SameLoad ==
  ASSUME NEW lit, NEW now, NEW k, Attached(now, k) = Attached(lit, k),
         \A l \in Attached(lit, k) : now[l].power = lit[l].power
  PROVE  Load(now, k) = Load(lit, k)
<1>1. {{l} \X (1..now[l].power) : l \in Attached(now, k)}
      = {{l} \X (1..lit[l].power) : l \in Attached(lit, k)}
  OBVIOUS
<1> QED
  BY <1>1 DEF Load

LEMMA NoLoad ==
  ASSUME NEW lit, NEW k, Attached(lit, k) = {}
  PROVE  Load(lit, k) = 0
<1>1. UNION {{l} \X (1..lit[l].power) : l \in Attached(lit, k)} = {}
  OBVIOUS
<1> QED
  BY <1>1, FS_EmptySet DEF Load

-----------------------------------------------------------------------------
(* A session of an import                                                   *)

SessionType ==
  [circ : CircuitTable, lit : LightTable, pending : SUBSET LightIds,
   hit : SUBSET CircuitIds, full : BOOLEAN]

(* A missing circuit is added where there was none, and nothing else.       *)
OneAdded(s, t, c, n) ==
  /\ t \in SessionType /\ t.lit = s.lit /\ t.hit = s.hit
  /\ ~t.full => ~s.full /\ NumberedCircuits(t, c, n) # {}
  /\ \A k \in CircuitIds :
       \/ t.circ[k] = s.circ[k]
       \/ s.circ[k] = NoRow /\ t.circ[k] = [cab |-> c, number |-> n, total |-> 0]

LEMMA CircuitAdded ==
  ASSUME NEW s \in SessionType, NEW c \in Codes, NEW n \in CircuitNumbers, NEW t,
         t = WithCircuit(s, c, n)
  PROVE  OneAdded(s, t, c, n)
<1> DEFINE free == CircuitIds \ Circuits(s.circ)
           row == [cab |-> c, number |-> n, total |-> 0]
           k0 == Min(free)
<1>1. s.circ \in CircuitTable
  BY DEF SessionType
<1>2. CASE NumberedCircuits(s, c, n) # {}
  <2>1. t = s
    BY <1>2 DEF WithCircuit
  <2> QED
    BY <1>2, <2>1 DEF OneAdded
<1>3. CASE NumberedCircuits(s, c, n) = {} /\ free = {}
  <2>1. t = [s EXCEPT !.full = TRUE]
    BY <1>3 DEF WithCircuit
  <2>2. t \in SessionType /\ t.full /\ t.circ = s.circ /\ t.lit = s.lit /\ t.hit = s.hit
    BY <2>1 DEF SessionType
  <2> QED
    BY <2>2 DEF OneAdded
<1>4. CASE NumberedCircuits(s, c, n) = {} /\ free # {}
  <2>1. t = [s EXCEPT !.circ[k0] = row, !.pending = {}]
    BY <1>4 DEF WithCircuit
  <2>2. k0 \in free
    BY <1>4, IdsAssumption, MinIsElement
  <2>3. k0 \in CircuitIds /\ s.circ[k0] = NoRow
    BY <2>2 DEF Circuits
  <2>4. row \in CircuitRow /\ row.cab = c /\ row.number = n
    BY WattsFinite DEF CircuitRow, Totals
  <2> HIDE DEF row, k0, free
  <2> DEFINE circ == [s.circ EXCEPT ![k0] = row]
  <2>5. circ \in CircuitTable /\ circ[k0] = row
        /\ \A k \in CircuitIds : k # k0 => circ[k] = s.circ[k]
    BY <1>1, <2>3, <2>4 DEF CircuitTable
  <2>6. t = [circ |-> circ, lit |-> s.lit, pending |-> {}, hit |-> s.hit, full |-> s.full]
    BY <2>1 DEF SessionType
  <2> HIDE DEF circ
  <2>7. t.circ = circ /\ t.lit = s.lit /\ t.hit = s.hit /\ t.full = s.full
    BY <2>6
  <2>8. t \in SessionType
    BY <2>5, <2>6 DEF SessionType
  <2>9. k0 \in NumberedCircuits(t, c, n)
    BY <2>3, <2>4, <2>5, <2>7, RowsAreRows DEF NumberedCircuits, CircuitsOf, Circuits
  <2>10. \A k \in CircuitIds : t.circ[k] = s.circ[k] \/ (s.circ[k] = NoRow /\ t.circ[k] = row)
    BY <2>3, <2>5, <2>7
  <2> QED
    BY <2>7, <2>8, <2>9, <2>10 DEF row, OneAdded
<1> QED
  BY <1>2, <1>3, <1>4

(* A light point of the cabinet is added or updated: it ends on the circuit *)
(* named, which will be recomputed.                                         *)
LEMMA LightAdded ==
  ASSUME NEW s \in SessionType, NEW c \in Codes, NEW n, NEW entry \in LightEntry, NEW t,
         t = WithLight(s, c, n, entry), s.full \/ NumberedCircuits(s, c, n) # {}
  PROVE  /\ t \in SessionType /\ t.circ = s.circ
         /\ ~t.full => ~s.full
         /\ \/ t.lit = s.lit /\ t.hit = s.hit
            \/ \E k \in NumberedCircuits(s, c, n) :
                 /\ t.hit = s.hit \cup {k}
                 /\ \A l \in LightIds :
                      \/ t.lit[l] = s.lit[l]
                      \/ /\ t.lit[l] \in LightRow /\ t.lit[l].cab = c /\ t.lit[l].circuit = k
                         /\ s.lit[l] = NoRow \/ s.lit[l].cab = c
<1> DEFINE free == LightIds \ Lights(s.lit)
           same == NumberedLights(s, c, entry.number)
           k == Min(NumberedCircuits(s, c, n))
<1>1. s.lit \in LightTable /\ s.circ \in CircuitTable /\ s.full \in BOOLEAN
      /\ s = [circ |-> s.circ, lit |-> s.lit, pending |-> s.pending, hit |-> s.hit, full |-> s.full]
      /\ s.pending \subseteq LightIds /\ s.hit \subseteq CircuitIds
  BY DEF SessionType
<1>2. CASE s.full \/ (same = {} /\ free = {})
  <2>1. t = [s EXCEPT !.full = TRUE]
    BY <1>2 DEF WithLight
  <2>2. t \in SessionType /\ t.full /\ t.circ = s.circ /\ t.lit = s.lit /\ t.hit = s.hit
    BY <2>1 DEF SessionType
  <2> QED
    BY <2>2
<1>3. ASSUME ~s.full
      PROVE  k \in NumberedCircuits(s, c, n) /\ k \in CircuitIds
  <2>1. NumberedCircuits(s, c, n) # {} /\ NumberedCircuits(s, c, n) \subseteq CircuitIds
    BY <1>3 DEF NumberedCircuits, CircuitsOf, Circuits
  <2> QED
    BY <2>1, IdsAssumption, MinIsElement
<1>a. entry.number \in LightNumbers /\ entry.power \in Powers
  BY DEF LightEntry
<1>4. CASE ~s.full /\ same # {}
  <2> DEFINE l0 == Min(same)
             row == [s.lit[l0] EXCEPT !.circuit = k, !.power = entry.power]
             lit == [s.lit EXCEPT ![l0] = row]
  <2>1. t = [s EXCEPT !.lit[l0].circuit = k, !.lit[l0].power = entry.power,
                      !.hit = @ \cup {k}]
    BY <1>4 DEF WithLight
  <2>2. l0 \in same
    <3>1. same \subseteq Nat
      BY IdsAssumption DEF NumberedLights, LightsOf, Lights
    <3> QED
      BY <1>4, <3>1, MinIsElement
  <2>3. l0 \in LightIds /\ s.lit[l0] \in LightRow /\ s.lit[l0].cab = c
    BY <1>1, <2>2 DEF NumberedLights, LightsOf, Lights, LightTable
  <2>4. k \in NumberedCircuits(s, c, n) /\ k \in CircuitIds
    BY <1>3, <1>4
  <2> HIDE DEF k, l0, same, free
  <2>5. row \in LightRow /\ row.cab = c /\ row.circuit = k
    BY <1>a, <2>3, <2>4 DEF LightRow
  <2>6. t = [circ |-> s.circ, lit |-> lit, pending |-> s.pending, hit |-> s.hit \cup {k},
             full |-> s.full]
    <3>1. lit = [s.lit EXCEPT ![l0].circuit = k, ![l0].power = entry.power]
      BY <1>1, <2>3 DEF LightTable
    <3> QED
      BY <1>1, <2>1, <3>1
  <2> HIDE DEF row
  <2>7. lit \in LightTable /\ lit[l0] = row /\ \A l \in LightIds : l # l0 => lit[l] = s.lit[l]
    BY <1>1, <2>3, <2>5 DEF LightTable
  <2> HIDE DEF lit
  <2>8. t.circ = s.circ /\ t.lit = lit /\ t.hit = s.hit \cup {k} /\ t.full = s.full
    BY <2>6
  <2>9. t \in SessionType
    BY <1>1, <2>4, <2>6, <2>7 DEF SessionType
  <2> QED
    BY <2>3, <2>4, <2>5, <2>7, <2>8, <2>9
<1>5. CASE ~s.full /\ same = {} /\ free # {}
  <2> DEFINE l0 == Min(free)
             row == [cab |-> c, circuit |-> k, number |-> entry.number, power |-> entry.power]
             lit == [s.lit EXCEPT ![l0] = row]
  <2>1. t = [s EXCEPT !.lit[l0] = row, !.pending = @ \cup {l0}, !.hit = @ \cup {k}]
    BY <1>5 DEF WithLight
  <2>2. l0 \in free
    BY <1>5, IdsAssumption, MinIsElement
  <2>3. l0 \in LightIds /\ s.lit[l0] = NoRow
    BY <2>2 DEF Lights
  <2>4. k \in NumberedCircuits(s, c, n) /\ k \in CircuitIds
    BY <1>3, <1>5
  <2> HIDE DEF k, l0, same, free
  <2>5. row \in LightRow /\ row.cab = c /\ row.circuit = k
    BY <1>a, <2>4 DEF LightRow
  <2> HIDE DEF row
  <2>6. t = [circ |-> s.circ, lit |-> lit, pending |-> s.pending \cup {l0},
             hit |-> s.hit \cup {k}, full |-> s.full]
    BY <1>1, <2>1
  <2>7. lit \in LightTable /\ lit[l0] = row /\ \A l \in LightIds : l # l0 => lit[l] = s.lit[l]
    BY <1>1, <2>3, <2>5 DEF LightTable
  <2> HIDE DEF lit
  <2>8. t.circ = s.circ /\ t.lit = lit /\ t.hit = s.hit \cup {k} /\ t.full = s.full
    BY <2>6
  <2>9. t \in SessionType
    BY <1>1, <2>3, <2>4, <2>6, <2>7 DEF SessionType
  <2> QED
    BY <2>3, <2>4, <2>5, <2>7, <2>8, <2>9
<1> QED
  BY <1>1, <1>2, <1>4, <1>5

(* What a session may have done, seen from the tables it began with: it has *)
(* added circuits and added or changed light points of the cabinets of the  *)
(* file; every circuit that got a light point will be recomputed.           *)
Faithful(s, circ, lit, cabs) ==
  /\ s \in SessionType
  /\ \A k \in CircuitIds :
       \/ s.circ[k] = circ[k]
       \/ circ[k] = NoRow /\ s.circ[k] \in CircuitRow
          /\ s.circ[k].cab \in cabs \cap cabinets /\ s.circ[k].total = 0
  /\ \A l \in LightIds :
       \/ s.lit[l] = lit[l]
       \/ /\ s.lit[l] \in LightRow /\ s.lit[l].cab \in cabs \cap cabinets
          /\ s.lit[l].circuit \in s.hit
          /\ s.lit[l].circuit \in CircuitsOf(s.circ, s.lit[l].cab)
          /\ lit[l] = NoRow \/ lit[l].cab = s.lit[l].cab
  /\ \A k \in s.hit : k \in Circuits(s.circ) /\ s.circ[k].cab \in cabs \cap cabinets

LEMMA SessionBegins ==
  ASSUME NEW circ \in CircuitTable, NEW lit \in LightTable, NEW cabs
  PROVE  Faithful(Session(circ, lit), circ, lit, cabs) /\ ~Session(circ, lit).full
BY DEF Faithful, Session, SessionType

LEMMA RowKeepsFaith ==
  ASSUME NEW circ \in CircuitTable, NEW lit \in LightTable, NEW cabs,
         cabinets \subseteq Codes,
         NEW s, Faithful(s, circ, lit, cabs), NEW row \in FileRow, row.cab \in cabs
  PROVE  /\ Faithful(ImportRow(s, row), circ, lit, cabs)
         /\ ~ImportRow(s, row).full => ~s.full
<1> DEFINE c == row.cab
           n == row.circuit
           t == WithCircuit(s, c, n)
           u == WithLight(t, c, n, row.light)
<1>1. CASE c \notin cabinets
  BY <1>1 DEF ImportRow
<1>2. CASE c \in cabinets
  <2>1. /\ c \in Codes /\ c \in cabs \cap cabinets /\ n \in CircuitNumbers
        /\ row.light = NoRow \/ row.light \in LightEntry
    BY <1>2 DEF FileRow
  <2>2. /\ s \in SessionType
        /\ \A k \in CircuitIds :
             \/ s.circ[k] = circ[k]
             \/ circ[k] = NoRow /\ s.circ[k] \in CircuitRow
                /\ s.circ[k].cab \in cabs \cap cabinets /\ s.circ[k].total = 0
        /\ \A l \in LightIds :
             \/ s.lit[l] = lit[l]
             \/ /\ s.lit[l] \in LightRow /\ s.lit[l].cab \in cabs \cap cabinets
                /\ s.lit[l].circuit \in s.hit
                /\ s.lit[l].circuit \in CircuitsOf(s.circ, s.lit[l].cab)
                /\ lit[l] = NoRow \/ lit[l].cab = s.lit[l].cab
        /\ \A k \in s.hit : k \in Circuits(s.circ) /\ s.circ[k].cab \in cabs \cap cabinets
    BY DEF Faithful
  <2>3. ImportRow(s, row) = IF row.light = NoRow THEN t ELSE u
    BY <1>2 DEF ImportRow
  <2> DEFINE added == [cab |-> c, number |-> n, total |-> 0]
  <2>a. added \in CircuitRow /\ added.cab = c /\ added.total = 0
    BY <2>1, WattsFinite DEF CircuitRow, Totals
  <2>4. /\ t \in SessionType /\ t.lit = s.lit /\ t.hit = s.hit
        /\ ~t.full => ~s.full /\ NumberedCircuits(t, c, n) # {}
        /\ \A k \in CircuitIds :
             t.circ[k] = s.circ[k] \/ (s.circ[k] = NoRow /\ t.circ[k] = added)
    BY <2>1, <2>2, CircuitAdded DEF OneAdded
  <2>b. t.full \in BOOLEAN
    BY <2>4 DEF SessionType
  <2> HIDE DEF added, t
  <2>5. /\ \A k \in CircuitIds :
             \/ t.circ[k] = circ[k]
             \/ circ[k] = NoRow /\ t.circ[k] \in CircuitRow
                /\ t.circ[k].cab \in cabs \cap cabinets /\ t.circ[k].total = 0
        /\ \A k \in Circuits(s.circ) : k \in Circuits(t.circ) /\ t.circ[k] = s.circ[k]
        /\ \A d : CircuitsOf(s.circ, d) \subseteq CircuitsOf(t.circ, d)
    <3>1. \A k \in CircuitIds :
             \/ t.circ[k] = circ[k]
             \/ circ[k] = NoRow /\ t.circ[k] \in CircuitRow
                /\ t.circ[k].cab \in cabs \cap cabinets /\ t.circ[k].total = 0
      BY <2>1, <2>2, <2>4, <2>a
    <3>2. \A k \in Circuits(s.circ) : k \in Circuits(t.circ) /\ t.circ[k] = s.circ[k]
      BY <2>4 DEF Circuits
    <3> QED
      BY <3>1, <3>2 DEF CircuitsOf
  <2>6. \A l \in LightIds :
             \/ t.lit[l] = lit[l]
             \/ /\ t.lit[l] \in LightRow /\ t.lit[l].cab \in cabs \cap cabinets
                /\ t.lit[l].circuit \in t.hit
                /\ t.lit[l].circuit \in CircuitsOf(t.circ, t.lit[l].cab)
                /\ lit[l] = NoRow \/ lit[l].cab = t.lit[l].cab
    BY <2>2, <2>4, <2>5
  <2>7. \A k \in t.hit : k \in Circuits(t.circ) /\ t.circ[k].cab \in cabs \cap cabinets
    BY <2>2, <2>4, <2>5
  <2>8. Faithful(t, circ, lit, cabs)
    BY <2>4, <2>5, <2>6, <2>7 DEF Faithful
  <2>9. CASE row.light = NoRow
    BY <2>3, <2>4, <2>8, <2>9
  <2>10. CASE row.light # NoRow
    <3>1. row.light \in LightEntry
      BY <2>1, <2>10
    <3>2. /\ u \in SessionType /\ u.circ = t.circ
          /\ ~u.full => ~t.full
          /\ \/ u.lit = t.lit /\ u.hit = t.hit
             \/ \E k \in NumberedCircuits(t, c, n) :
                  /\ u.hit = t.hit \cup {k}
                  /\ \A l \in LightIds :
                       \/ u.lit[l] = t.lit[l]
                       \/ /\ u.lit[l] \in LightRow /\ u.lit[l].cab = c /\ u.lit[l].circuit = k
                          /\ t.lit[l] = NoRow \/ t.lit[l].cab = c
      BY <2>1, <2>4, <2>b, <3>1, LightAdded
    <3> HIDE DEF u
    <3>3. ASSUME u.lit = t.lit /\ u.hit = t.hit PROVE Faithful(u, circ, lit, cabs)
      BY <2>5, <2>6, <2>7, <3>2, <3>3 DEF Faithful
    <3>4. ASSUME NEW k \in NumberedCircuits(t, c, n), u.hit = t.hit \cup {k},
                 \A l \in LightIds :
                   \/ u.lit[l] = t.lit[l]
                   \/ /\ u.lit[l] \in LightRow /\ u.lit[l].cab = c /\ u.lit[l].circuit = k
                      /\ t.lit[l] = NoRow \/ t.lit[l].cab = c
          PROVE  Faithful(u, circ, lit, cabs)
      <4>1. k \in CircuitsOf(t.circ, c) /\ k \in Circuits(t.circ) /\ t.circ[k].cab = c
        BY DEF NumberedCircuits, CircuitsOf
      <4>2. \A j \in u.hit : j \in Circuits(u.circ) /\ u.circ[j].cab \in cabs \cap cabinets
        BY <2>1, <2>7, <3>2, <3>4, <4>1
      <4>3. ASSUME NEW l \in LightIds
            PROVE  \/ u.lit[l] = lit[l]
                   \/ /\ u.lit[l] \in LightRow /\ u.lit[l].cab \in cabs \cap cabinets
                      /\ u.lit[l].circuit \in u.hit
                      /\ u.lit[l].circuit \in CircuitsOf(u.circ, u.lit[l].cab)
                      /\ lit[l] = NoRow \/ lit[l].cab = u.lit[l].cab
        <5>1. CASE u.lit[l] = t.lit[l]
          BY <2>6, <3>2, <3>4, <5>1
        <5>2. CASE /\ u.lit[l] \in LightRow /\ u.lit[l].cab = c /\ u.lit[l].circuit = k
                   /\ t.lit[l] = NoRow \/ t.lit[l].cab = c
          <6>1. lit[l] = NoRow \/ lit[l].cab = c
            BY <2>6, <5>2, RowsAreRows
          <6> QED
            BY <2>1, <3>2, <3>4, <4>1, <5>2, <6>1
        <5> QED
          BY <3>4, <5>1, <5>2
      <4> QED
        BY <2>5, <3>2, <4>2, <4>3 DEF Faithful
    <3> QED
      BY <2>3, <2>4, <2>10, <3>2, <3>3, <3>4
  <2> QED
    BY <2>9, <2>10
<1> QED
  BY <1>1, <1>2

(* A whole import.                                                          *)
LEMMA ImportKeepsFaith ==
  ASSUME NEW circ \in CircuitTable, NEW lit \in LightTable, NEW cabs,
         cabinets \subseteq Codes, NEW file \in Seq(FileRow),
         \A i \in 1..Len(file) : file[i].cab \in cabs
  PROVE  Faithful(Imported(circ, lit, file), circ, lit, cabs)
<1>1. Len(file) \in Nat /\ \A i \in 1..Len(file) : file[i] \in FileRow
  BY LenProperties, ElementOfSeq
<1>2. PICK f : /\ f[0] = Session(circ, lit)
               /\ \A i \in 1..Len(file) : f[i] = ImportRow(f[i - 1], file[i])
               /\ Imported(circ, lit, file) = f[Len(file)]
  BY <1>1, ImportedRuns
<1> DEFINE Bad == {i \in 0..Len(file) : ~Faithful(f[i], circ, lit, cabs)}
<1>3. Bad = {}
  <2> SUFFICES ASSUME Bad # {} PROVE FALSE
    OBVIOUS
  <2>1. Bad \in SUBSET Nat
    BY <1>1
  <2>2. PICK m \in Bad : \A y \in Bad : m <= y
    BY <2>1, LeastElement
  <2>3. m \in 0..Len(file) /\ ~Faithful(f[m], circ, lit, cabs)
    OBVIOUS
  <2>4. m # 0
    BY <1>2, <2>3, SessionBegins
  <2>5. m \in 1..Len(file) /\ m - 1 \in 0..Len(file) /\ m - 1 \notin Bad
    BY <1>1, <2>2, <2>3, <2>4
  <2>6. Faithful(f[m - 1], circ, lit, cabs)
    BY <2>5
  <2>7. f[m] = ImportRow(f[m - 1], file[m])
    BY <1>2, <2>5
  <2>8. file[m] \in FileRow /\ file[m].cab \in cabs
    BY <1>1, <2>5
  <2> QED
    BY <2>3, <2>6, <2>7, <2>8, RowKeepsFaith
<1>4. Len(file) \in 0..Len(file)
  BY <1>1
<1> QED
  BY <1>2, <1>3, <1>4

-----------------------------------------------------------------------------
(* Files: what a backup holds, and the rows a restore makes of it           *)

LEMMA ListedRows ==
  ASSUME NEW ids, IsFiniteSet(ids), NEW rows, NEW s \in Listed(ids, rows)
  PROVE  s \in Seq(ids)
<1>1. Cardinality(ids) \in Nat
  BY FS_CardinalityType
<1>2. s \in [1..Cardinality(ids) -> ids]
  BY DEF Listed, SetToSeqs
<1> QED
  BY <1>1, <1>2, SeqDef

LEMMA SequenceOf ==
  ASSUME NEW T, NEW n \in Nat, NEW s, s = [i \in 1..n |-> s[i]], \A i \in 1..n : s[i] \in T
  PROVE  s \in Seq(T) /\ Len(s) = n
<1>1. s \in [1..n -> T]
  OBVIOUS
<1>2. s \in Seq(T)
  BY <1>1, SeqDef
<1> QED
  BY <1>1, <1>2, LenProperties

LEMMA BackupsAreBackups ==
  ASSUME NEW circ \in CircuitTable, NEW lit \in LightTable, NEW c
  PROVE  Backups(circ, lit, c) \subseteq Backup
<1> DEFINE cids == CircuitsOf(circ, c)
           lids == {l \in LightsOf(lit, c) : lit[l].circuit \in cids}
<1>1. /\ cids \subseteq CircuitIds /\ IsFiniteSet(cids)
      /\ \A k \in cids : circ[k].number \in CircuitNumbers
  <2>1. cids \subseteq CircuitIds /\ \A k \in cids : circ[k].number \in CircuitNumbers
    BY DEF CircuitsOf, Circuits, CircuitTable, CircuitRow
  <2> QED
    BY <2>1, IdsAssumption, FS_Subset
<1>2. /\ lids \subseteq LightIds /\ IsFiniteSet(lids)
      /\ \A l \in lids : lit[l] \in LightRow /\ lit[l].circuit \in cids
  <2>1. lids \subseteq LightIds /\ \A l \in lids : lit[l] \in LightRow /\ lit[l].circuit \in cids
    BY DEF LightsOf, Lights, LightTable
  <2> QED
    BY <2>1, IdsAssumption, FS_Subset
<1> DEFINE made(ks, ls) ==
             [circuits |-> [i \in DOMAIN ks |-> circ[ks[i]].number],
              lights |-> [i \in DOMAIN ls |->
                [circuit |-> circ[lit[ls[i]].circuit].number,
                 number |-> lit[ls[i]].number, power |-> lit[ls[i]].power]]]
<1>a. Backups(circ, lit, c) = {made(ks, ls) : ks \in Listed(cids, circ), ls \in Listed(lids, lit)}
  BY DEF Backups
<1> HIDE DEF cids, lids
<1>b. ASSUME NEW ks \in Listed(cids, circ), NEW ls \in Listed(lids, lit)
      PROVE  made(ks, ls) \in Backup
  <2>3. ks \in Seq(cids) /\ ls \in Seq(lids)
    BY <1>1, <1>2, ListedRows
  <2>4. /\ Len(ks) \in Nat /\ DOMAIN ks = 1..Len(ks) /\ \A i \in 1..Len(ks) : ks[i] \in cids
        /\ Len(ls) \in Nat /\ DOMAIN ls = 1..Len(ls) /\ \A i \in 1..Len(ls) : ls[i] \in lids
    BY <2>3, LenProperties, ElementOfSeq
  <2> DEFINE numbers == [i \in 1..Len(ks) |-> circ[ks[i]].number]
             entry(l) == [circuit |-> circ[lit[l].circuit].number,
                          number |-> lit[l].number, power |-> lit[l].power]
             lights == [i \in 1..Len(ls) |-> entry(ls[i])]
  <2>5. numbers \in Seq(CircuitNumbers)
    <3>1. numbers = [i \in 1..Len(ks) |-> numbers[i]]
          /\ \A i \in 1..Len(ks) : numbers[i] \in CircuitNumbers
      BY <1>1, <2>4
    <3> HIDE DEF numbers
    <3> QED
      BY <2>4, <3>1, SequenceOf
  <2>6. lights \in Seq(BackupLight)
    <3>1. \A l \in lids : entry(l) \in BackupLight
      BY <1>1, <1>2 DEF BackupLight, LightRow
    <3> HIDE DEF entry
    <3>2. lights = [i \in 1..Len(ls) |-> lights[i]]
          /\ \A i \in 1..Len(ls) : lights[i] \in BackupLight
      BY <2>4, <3>1
    <3> HIDE DEF lights
    <3> QED
      BY <2>4, <3>2, SequenceOf
  <2>7. [circuits |-> numbers, lights |-> lights] \in Backup
    <3> HIDE DEF numbers, lights
    <3> QED
      BY <2>5, <2>6 DEF Backup
  <2> QED
    BY <2>4, <2>7
<1> HIDE DEF made
<1> QED
  BY <1>a, <1>b

LEMMA RestoreRowsAreRows ==
  ASSUME NEW c \in Codes, NEW file \in Backup
  PROVE  /\ RestoreRows(c, file) \in Seq(FileRow)
         /\ \A i \in 1..Len(RestoreRows(c, file)) : RestoreRows(c, file)[i].cab = c
<1> DEFINE Own == {row \in FileRow : row.cab = c}
           m == Len(file.circuits)
           n == Len(file.lights)
           first == [i \in 1..m |-> [cab |-> c, circuit |-> file.circuits[i], light |-> NoRow]]
           then == [i \in 1..n |->
                     [cab |-> c, circuit |-> file.lights[i].circuit, light |-> NoRow]]
           last == [i \in 1..n |->
                     [cab |-> c, circuit |-> file.lights[i].circuit,
                      light |-> [number |-> file.lights[i].number,
                                 power |-> file.lights[i].power]]]
<1>1. file.circuits \in Seq(CircuitNumbers) /\ file.lights \in Seq(BackupLight)
  BY DEF Backup
<1>2. /\ m \in Nat /\ \A i \in 1..m : file.circuits[i] \in CircuitNumbers
      /\ n \in Nat /\ \A i \in 1..n : file.lights[i] \in BackupLight
  BY <1>1, LenProperties, ElementOfSeq
<1> HIDE DEF m, n
<1>3. first \in Seq(Own)
  <2>1. first = [i \in 1..m |-> first[i]] /\ \A i \in 1..m : first[i] \in Own
    BY <1>2 DEF FileRow
  <2> HIDE DEF first, Own
  <2> QED
    BY <1>2, <2>1, SequenceOf
<1>4. then \in Seq(Own)
  <2>1. then = [i \in 1..n |-> then[i]] /\ \A i \in 1..n : then[i] \in Own
    BY <1>2 DEF FileRow, BackupLight
  <2> HIDE DEF then, Own
  <2> QED
    BY <1>2, <2>1, SequenceOf
<1>5. last \in Seq(Own)
  <2>1. last = [i \in 1..n |-> last[i]] /\ \A i \in 1..n : last[i] \in Own
    BY <1>2 DEF FileRow, BackupLight, LightEntry
  <2> HIDE DEF last, Own
  <2> QED
    BY <1>2, <2>1, SequenceOf
<1>6. RestoreRows(c, file) = first \o then \o last
  BY DEF RestoreRows, m, n
<1> HIDE DEF first, then, last
<1>7. RestoreRows(c, file) \in Seq(Own)
  BY <1>3, <1>4, <1>5, <1>6, ConcatProperties
<1> HIDE DEF Own
<1>8. \A i \in 1..Len(RestoreRows(c, file)) : RestoreRows(c, file)[i] \in Own
  BY <1>7, ElementOfSeq
<1>9. RestoreRows(c, file) \in Seq(FileRow)
  <2>1. Len(RestoreRows(c, file)) \in Nat
        /\ RestoreRows(c, file) \in [1..Len(RestoreRows(c, file)) -> Own]
    BY <1>7, LenProperties
  <2>2. RestoreRows(c, file) \in [1..Len(RestoreRows(c, file)) -> FileRow]
    BY <2>1 DEF Own
  <2> QED
    BY <2>1, <2>2, SeqDef
<1> QED
  BY <1>8, <1>9 DEF Own

-----------------------------------------------------------------------------
(* Types                                                                    *)

(* What a checked request is about to write.                                *)
AskedOK(q) ==
  CASE q.op = "createCircuit" -> q.new \in CircuitRow
    [] q.op = "updateCircuit" -> /\ q.id \in CircuitIds /\ q.moved \subseteq LightIds
                                 /\ q.old \in CircuitRow /\ q.new \in CircuitRow
    [] q.op = "deleteCircuit" -> q.id \in CircuitIds
    [] q.op = "createLight" -> q.new \in LightRow
    [] q.op = "updateLight" -> q.id \in LightIds /\ q.old \in LightRow /\ q.new \in LightRow
    [] q.op = "deleteLight" -> q.id \in LightIds /\ q.old \in LightRow
    [] OTHER -> FALSE

RequestOK(q) ==
  \/ q = Idle
  \/ q.at = "checked" /\ AskedOK(q)
  \/ q.at = "committed" /\ q.todo \subseteq CircuitIds
  \/ /\ q.at = "summed" /\ q.todo \subseteq CircuitIds /\ DOMAIN q.sums \subseteq CircuitIds
     /\ \A k \in DOMAIN q.sums : q.sums[k] \in Totals

TablesOK ==
  cabinets \subseteq Codes /\ circuit \in CircuitTable /\ light \in LightTable
  /\ stale \subseteq CircuitIds /\ strays \subseteq LightIds

RequestsOK ==
  /\ request = [r \in Requests |-> request[r]]
  /\ \A r \in Requests : RequestOK(request[r])

TypeInv == TablesOK /\ RequestsOK

LEMMA TypeInvTypes == TypeInv => TypeOK
BY DEF TypeInv, TablesOK, RequestsOK, RequestOK, TypeOK, CircuitTable, LightTable, Idle

LEMMA InitTypes == Init => TypeInv
<1> SUFFICES ASSUME Init PROVE TypeInv
  OBVIOUS
<1>1. TablesOK
  BY DEF Init, TablesOK, CircuitTable, LightTable
<1>2. RequestsOK
  BY DEF Init, RequestsOK, RequestOK
<1> QED
  BY <1>1, <1>2 DEF TypeInv

LEMMA RequestChanges ==
  ASSUME RequestsOK, NEW r \in Requests, NEW q, RequestOK(q), request' = [request EXCEPT ![r] = q]
  PROVE  RequestsOK'
<1>1. request' = [p \in Requests |-> IF p = r THEN q ELSE request[p]]
  BY DEF RequestsOK
<1>2. /\ request' = [p \in Requests |-> request'[p]]
      /\ \A p \in Requests : RequestOK(request'[p])
  BY <1>1 DEF RequestsOK
<1> QED
  BY <1>2 DEF RequestsOK

(* What an arriving request asks for, and what a committed one leaves.      *)
Asked(op, cabs, id, old, new, moved, own) ==
  [at |-> "checked", op |-> op, cabs |-> cabs, id |-> id, old |-> old, new |-> new,
   moved |-> moved, own |-> own]
After(cabs, todo, held) ==
  IF todo = {} THEN Idle
  ELSE [at |-> "committed", cabs |-> cabs, todo |-> todo, held |-> held]

LEMMA StartAsks ==
  ASSUME NEW r, NEW op, NEW cabs, NEW id, NEW old, NEW new, NEW moved, NEW own,
         Start(r, op, cabs, id, old, new, moved, own)
  PROVE  /\ request' = [request EXCEPT ![r] = Asked(op, cabs, id, old, new, moved, own)]
         /\ UNCHANGED <<cabinets, circuit, light, stale, strays>>
         /\ Orderly => \A q \in InFlight : request[q].cabs \cap cabs = {}
BY DEF Start, Asked, tables, histories

LEMMA CommittedLeaves ==
  ASSUME NEW r, NEW todo, NEW held, Committed(r, todo, held)
  PROVE  request' = [request EXCEPT ![r] = After(request[r].cabs, todo, held)]
<1>1. CASE todo = {}
  BY <1>1 DEF Committed, After
<1>2. CASE todo # {}
  BY <1>2 DEF Committed, After
<1> QED
  BY <1>1, <1>2

LEMMA AfterOK ==
  ASSUME NEW cabs, NEW todo \in SUBSET CircuitIds, NEW held
  PROVE  RequestOK(After(cabs, todo, held))
<1>1. CASE todo = {}
  BY <1>1 DEF After, RequestOK
<1>2. CASE todo # {}
  BY <1>2 DEF After, RequestOK
<1> QED
  BY <1>1, <1>2

(* An update of the row it was loaded from makes it the new one; of any     *)
(* other row, a row still.                                                  *)
LEMMA UpdatedCircuit ==
  ASSUME NEW row \in CircuitRow, NEW old \in CircuitRow, NEW new \in CircuitRow
  PROVE  /\ Updated(row, old, new) \in CircuitRow
         /\ row = old => Updated(row, old, new) = new
<1>1. DOMAIN row = {"cab", "number", "total"}
  BY DEF CircuitRow
<1> DEFINE f(x) == IF new[x] # old[x] THEN new[x] ELSE row[x]
<1>2. Updated(row, old, new) = [x \in {"cab", "number", "total"} |-> f(x)]
  BY <1>1 DEF Updated
<1>3. f("cab") \in Codes /\ f("number") \in CircuitNumbers /\ f("total") \in Totals
  BY DEF CircuitRow
<1>4. row = old => f("cab") = new.cab /\ f("number") = new.number /\ f("total") = new.total
  OBVIOUS
<1> HIDE DEF f
<1>5. [x \in {"cab", "number", "total"} |-> f(x)]
      = [cab |-> f("cab"), number |-> f("number"), total |-> f("total")]
  OBVIOUS
<1> QED
  BY <1>2, <1>3, <1>4, <1>5 DEF CircuitRow

LEMMA UpdatedLight ==
  ASSUME NEW row \in LightRow, NEW old \in LightRow, NEW new \in LightRow
  PROVE  /\ Updated(row, old, new) \in LightRow
         /\ row = old => Updated(row, old, new) = new
<1>1. DOMAIN row = {"cab", "circuit", "number", "power"}
  BY DEF LightRow
<1> DEFINE f(x) == IF new[x] # old[x] THEN new[x] ELSE row[x]
<1>2. Updated(row, old, new) = [x \in {"cab", "circuit", "number", "power"} |-> f(x)]
  BY <1>1 DEF Updated
<1>3. f("cab") \in Codes /\ f("circuit") \in CircuitIds /\ f("number") \in LightNumbers
      /\ f("power") \in Powers
  BY DEF LightRow
<1>4. row = old => /\ f("cab") = new.cab /\ f("circuit") = new.circuit
                   /\ f("number") = new.number /\ f("power") = new.power
  OBVIOUS
<1> HIDE DEF f
<1>5. [x \in {"cab", "circuit", "number", "power"} |-> f(x)]
      = [cab |-> f("cab"), circuit |-> f("circuit"), number |-> f("number"),
         power |-> f("power")]
  OBVIOUS
<1> QED
  BY <1>2, <1>3, <1>4, <1>5 DEF LightRow

LEMMA AskingTypes ==
  ASSUME TypeInv, NEW r \in Requests, NEW op, NEW cabs, NEW id, NEW old, NEW new, NEW moved,
         NEW own, Start(r, op, cabs, id, old, new, moved, own),
         AskedOK(Asked(op, cabs, id, old, new, moved, own))
  PROVE  TypeInv'
<1>1. RequestOK(Asked(op, cabs, id, old, new, moved, own))
  BY DEF Asked, RequestOK
<1>2. RequestsOK'
  BY <1>1, StartAsks, RequestChanges DEF TypeInv
<1>3. TablesOK'
  BY StartAsks DEF TypeInv, TablesOK
<1> QED
  BY <1>2, <1>3 DEF TypeInv

LEMMA BulkTypes ==
  ASSUME TypeInv, NEW r \in Requests, NEW cabs, NEW s \in SessionType, Bulk(r, cabs, s)
  PROVE  TypeInv'
<1>1. request' = [request EXCEPT ![r] = After(cabs, s.hit, <<>>)]
  BY DEF Bulk, After
<1>2. RequestsOK'
  <2>1. s.hit \in SUBSET CircuitIds
    BY DEF SessionType
  <2> QED
    BY <1>1, <2>1, AfterOK, RequestChanges DEF TypeInv
<1>3. TablesOK'
  BY DEF Bulk, SessionType, LeftBehind, Circuits, TypeInv, TablesOK
<1> QED
  BY <1>2, <1>3 DEF TypeInv

LEMMA ImportedTypes ==
  ASSUME TypeInv, NEW file \in Files
  PROVE  /\ Imported(circuit, light, file) \in SessionType
         /\ Faithful(Imported(circuit, light, file), circuit, light,
                     {file[i].cab : i \in DOMAIN file})
<1>1. file \in Seq(FileRow) /\ DOMAIN file = 1..Len(file)
  BY FilesAssumption, LenProperties
<1>2. Faithful(Imported(circuit, light, file), circuit, light, {file[i].cab : i \in DOMAIN file})
  BY <1>1, ImportKeepsFaith DEF TypeInv, TablesOK
<1> QED
  BY <1>2 DEF Faithful

LEMMA RestoredTypes ==
  ASSUME TypeInv, NEW c \in cabinets, NEW d, NEW file \in BackupFiles \cup Backups(circuit, light, d)
  PROVE  /\ Restored(circuit, light, c, file) \in SessionType
         /\ Faithful(Restored(circuit, light, c, file), circuit, light, {c})
<1>1. file \in Backup /\ c \in Codes
  BY FilesAssumption, BackupsAreBackups DEF TypeInv, TablesOK
<1>2. Faithful(Restored(circuit, light, c, file), circuit, light, {c})
  BY <1>1, RestoreRowsAreRows, ImportKeepsFaith DEF TypeInv, TablesOK, Restored
<1> QED
  BY <1>2 DEF Faithful

LEMMA ArrivalTypes ==
  ASSUME TypeInv, NEW r \in Requests, Arrival(r)
  PROVE  TypeInv'
<1>0. /\ circuit \in CircuitTable /\ light \in LightTable /\ cabinets \subseteq Codes
  BY DEF TypeInv, TablesOK
<1>1. CASE CreateCircuit(r)
  <2>1. PICK c \in Codes, n \in CircuitNumbers, w \in {0, Cardinality(AllWatts)} :
          Start(r, "createCircuit", {c}, NoRow, NoRow,
                [cab |-> c, number |-> n, total |-> w], {}, TRUE)
    BY <1>1 DEF CreateCircuit
  <2>2. [cab |-> c, number |-> n, total |-> w] \in CircuitRow
    BY <1>0, WattsFinite DEF CircuitRow, Totals
  <2>3. AskedOK(Asked("createCircuit", {c}, NoRow, NoRow,
                      [cab |-> c, number |-> n, total |-> w], {}, TRUE))
    BY <2>2 DEF AskedOK, Asked
  <2> QED
    BY <2>1, <2>3, AskingTypes
<1>2. CASE UpdateCircuit(r)
  <2>1. PICK k \in Circuits(circuit), n \in CircuitNumbers, c \in Codes :
          Start(r, "updateCircuit", {circuit[k].cab, c} \cup Dependent(k), k, circuit[k],
                [circuit[k] EXCEPT !.cab = c, !.number = n],
                IF c # circuit[k].cab THEN Attached(light, k) ELSE {}, TRUE)
    BY <1>2 DEF UpdateCircuit
  <2> DEFINE cabs == {circuit[k].cab, c} \cup Dependent(k)
             new == [circuit[k] EXCEPT !.cab = c, !.number = n]
             moved == IF c # circuit[k].cab THEN Attached(light, k) ELSE {}
  <2>2. k \in CircuitIds /\ circuit[k] \in CircuitRow
    BY <1>0 DEF Circuits, CircuitTable
  <2>3. new \in CircuitRow
    BY <2>2 DEF CircuitRow
  <2>4. moved \subseteq LightIds
    BY DEF Attached, Lights
  <2> HIDE DEF cabs, new, moved
  <2>5. AskedOK(Asked("updateCircuit", cabs, k, circuit[k], new, moved, TRUE))
    BY <2>2, <2>3, <2>4 DEF AskedOK, Asked
  <2> QED
    BY <2>1, <2>5, AskingTypes DEF cabs, new, moved
<1>3. CASE DeleteCircuit(r)
  <2>1. PICK k \in Circuits(circuit) :
          Start(r, "deleteCircuit", {circuit[k].cab}, k, circuit[k], NoRow, {}, TRUE)
    BY <1>3 DEF DeleteCircuit
  <2>2. AskedOK(Asked("deleteCircuit", {circuit[k].cab}, k, circuit[k], NoRow, {}, TRUE))
    BY DEF AskedOK, Asked, Circuits
  <2> QED
    BY <2>1, <2>2, AskingTypes
<1>4. CASE CreateLight(r)
  <2>1. PICK c \in Codes, n \in LightNumbers, w \in Powers, k \in CircuitIds :
          Start(r, "createLight", Concerned(c, {k}), NoRow, NoRow,
                [cab |-> c, circuit |-> k, number |-> n, power |-> w], {},
                k \in CircuitsOf(circuit, c))
    BY <1>4 DEF CreateLight
  <2>3. [cab |-> c, circuit |-> k, number |-> n, power |-> w] \in LightRow
    BY <1>0 DEF LightRow
  <2>4. AskedOK(Asked("createLight", Concerned(c, {k}), NoRow, NoRow,
                      [cab |-> c, circuit |-> k, number |-> n, power |-> w], {},
                      k \in CircuitsOf(circuit, c)))
    BY <2>3 DEF AskedOK, Asked
  <2> QED
    BY <2>1, <2>4, AskingTypes
<1>5. CASE UpdateLight(r)
  <2>1. PICK l \in Lights(light), n \in LightNumbers, w \in Powers, k \in CircuitIds :
          Start(r, "updateLight", Concerned(light[l].cab, {light[l].circuit, k}), l, light[l],
                [light[l] EXCEPT !.circuit = k, !.number = n, !.power = w], {},
                k \in CircuitsOf(circuit, light[l].cab))
    BY <1>5 DEF UpdateLight
  <2> DEFINE new == [light[l] EXCEPT !.circuit = k, !.number = n, !.power = w]
             cabs == Concerned(light[l].cab, {light[l].circuit, k})
             own == k \in CircuitsOf(circuit, light[l].cab)
  <2>3. l \in LightIds /\ light[l] \in LightRow /\ k \in CircuitIds
    BY <1>0 DEF Lights, LightTable
  <2>4. new \in LightRow
    BY <2>3 DEF LightRow
  <2> HIDE DEF new, cabs, own
  <2>5. AskedOK(Asked("updateLight", cabs, l, light[l], new, {}, own))
    BY <2>3, <2>4 DEF AskedOK, Asked
  <2> QED
    BY <2>1, <2>5, AskingTypes DEF new, cabs, own
<1>6. CASE DeleteLight(r)
  <2>1. PICK l \in Lights(light) :
          Start(r, "deleteLight", Concerned(light[l].cab, {light[l].circuit}), l,
                light[l], NoRow, {}, TRUE)
    BY <1>6 DEF DeleteLight
  <2>2. l \in LightIds /\ light[l] \in LightRow
    BY <1>0 DEF Lights, LightTable
  <2>3. AskedOK(Asked("deleteLight", Concerned(light[l].cab, {light[l].circuit}), l,
                      light[l], NoRow, {}, TRUE))
    BY <2>2 DEF AskedOK, Asked
  <2> QED
    BY <2>1, <2>3, AskingTypes
<1>7. CASE Import(r)
  <2>1. PICK file \in Files :
          Bulk(r, {file[i].cab : i \in DOMAIN file}, Imported(circuit, light, file))
    BY <1>7 DEF Import
  <2>2. Imported(circuit, light, file) \in SessionType
    BY <1>0, <2>1, ImportedTypes
  <2> QED
    BY <2>1, <2>2, BulkTypes
<1>8. CASE Restore(r)
  <2>1. PICK c \in cabinets, d \in cabinets :
          \E file \in BackupFiles \cup Backups(circuit, light, d) :
            Bulk(r, {c}, Restored(circuit, light, c, file))
    BY <1>8 DEF Restore
  <2>2. PICK file \in BackupFiles \cup Backups(circuit, light, d) :
          Bulk(r, {c}, Restored(circuit, light, c, file))
    BY <2>1
  <2>3. Restored(circuit, light, c, file) \in SessionType
    BY <1>0, <2>2, RestoredTypes
  <2> QED
    BY <2>2, <2>3, BulkTypes
<1> QED
  BY <1>1, <1>2, <1>3, <1>4, <1>5, <1>6, <1>7, <1>8 DEF Arrival

LEMMA HandlerTypes ==
  ASSUME TypeInv, NEW r \in Requests, Handler(r)
  PROVE  TypeInv'
<1> DEFINE q == request[r]
<1>0. /\ circuit \in CircuitTable /\ light \in LightTable /\ cabinets \subseteq Codes
      /\ stale \subseteq CircuitIds /\ strays \subseteq LightIds /\ RequestOK(q)
  BY DEF TypeInv, TablesOK, RequestsOK
<1>a. ASSUME NEW todo \in SUBSET CircuitIds, NEW held, Committed(r, todo, held)
      PROVE  RequestsOK'
  BY <1>a, CommittedLeaves, AfterOK, RequestChanges DEF TypeInv
<1>b. ASSUME NEW op, Checked(r, op)
      PROVE  q.at = "checked" /\ q.op = op /\ AskedOK(q)
  BY <1>0, <1>b DEF Checked, RequestOK, Idle
<1> HIDE DEF q
<1>1. CASE InsertCircuit(r)
  <2>1. q.new \in CircuitRow
    BY <1>1, <1>b DEF InsertCircuit, AskedOK
  <2>2. PICK k \in CircuitIds \ Circuits(circuit) :
          circuit' = [circuit EXCEPT ![k] = q.new] /\ Committed(r, {k}, <<>>)
    BY <1>1 DEF InsertCircuit, q
  <2>3. RequestsOK'
    BY <1>a, <2>2
  <2>4. TablesOK'
    BY <1>0, <1>1, <2>1, <2>2 DEF InsertCircuit, TablesOK, CircuitTable, histories
  <2> QED
    BY <2>3, <2>4 DEF TypeInv
<1>2. CASE WriteCircuit(r)
  <2>1. q.id \in CircuitIds /\ q.old \in CircuitRow /\ q.new \in CircuitRow
    BY <1>2, <1>b DEF WriteCircuit, AskedOK
  <2>2. UNCHANGED <<cabinets, stale>>
    BY <1>2 DEF WriteCircuit
  <2>3. CASE Failed(r)
    <3>1. RequestsOK'
      BY <2>3, RequestChanges DEF Failed, RequestOK, TypeInv
    <3>2. TablesOK'
      BY <1>0, <2>2, <2>3 DEF Failed, TablesOK
    <3> QED
      BY <3>1, <3>2 DEF TypeInv
  <2>4. CASE /\ q.id \in Circuits(circuit)
             /\ circuit' = [circuit EXCEPT ![q.id] = Updated(@, q.old, q.new)]
             /\ light' = [l \in LightIds |->
                  IF l \in q.moved THEN [light[l] EXCEPT !.cab = q.new.cab] ELSE light[l]]
             /\ strays' = strays \ q.moved
             /\ Committed(r, {q.id}, [k \in {q.id} |-> q.old.total])
             /\ q.moved \subseteq Lights(light)
    <3>1. RequestsOK'
      BY <1>a, <2>1, <2>4
    <3>2. circuit[q.id] \in CircuitRow
      BY <1>0, <2>1, <2>4 DEF Circuits, CircuitTable
    <3>3. Updated(circuit[q.id], q.old, q.new) \in CircuitRow
      BY <2>1, <3>2, UpdatedCircuit
    <3>4. circuit' \in CircuitTable
      BY <1>0, <2>1, <2>4, <3>3 DEF CircuitTable
    <3>5. light' \in LightTable
      <4>1. ASSUME NEW l \in q.moved PROVE [light[l] EXCEPT !.cab = q.new.cab] \in LightRow
        <5>1. light[l] \in LightRow /\ q.new.cab \in Codes
          BY <1>0, <2>1, <2>4, <4>1 DEF Lights, LightTable, CircuitRow
        <5> QED
          BY <5>1 DEF LightRow
      <4> QED
        BY <1>0, <2>4, <4>1 DEF LightTable
    <3> QED
      BY <1>0, <2>2, <2>4, <3>1, <3>4, <3>5 DEF TypeInv, TablesOK
  <2> QED
    BY <1>2, <2>3, <2>4 DEF WriteCircuit, q
<1>3. CASE RemoveCircuit(r)
  <2>1. RequestsOK'
    BY <1>3, <1>a DEF RemoveCircuit
  <2>2. TablesOK'
    BY <1>0, <1>3 DEF RemoveCircuit, TablesOK, CircuitTable
  <2> QED
    BY <2>1, <2>2 DEF TypeInv
<1>4. CASE InsertLight(r)
  <2>1. q.new \in LightRow /\ q.new.circuit \in CircuitIds
    BY <1>4, <1>b DEF InsertLight, AskedOK, LightRow
  <2>2. RequestsOK'
    BY <1>4, <1>a, <2>1 DEF InsertLight, q
  <2>3. TablesOK'
    BY <1>0, <1>4, <2>1 DEF InsertLight, Hung, TablesOK, LightTable, q
  <2> QED
    BY <2>2, <2>3 DEF TypeInv
<1>5. CASE WriteLight(r)
  <2>1. q.id \in LightIds /\ q.old \in LightRow /\ q.new \in LightRow
    BY <1>5, <1>b DEF WriteLight, AskedOK
  <2>2. UNCHANGED <<cabinets, stale>>
    BY <1>5 DEF WriteLight
  <2>3. CASE Failed(r)
    <3>1. RequestsOK'
      BY <2>3, RequestChanges DEF Failed, RequestOK, TypeInv
    <3>2. TablesOK'
      BY <1>0, <2>2, <2>3 DEF Failed, TablesOK
    <3> QED
      BY <3>1, <3>2 DEF TypeInv
  <2> DEFINE now == Updated(light[q.id], q.old, q.new)
  <2>4. CASE /\ q.id \in Lights(light)
             /\ light' = [light EXCEPT ![q.id] = now]
             /\ Hung(q.id, q.own)
             /\ Committed(r, {now.circuit, q.old.circuit}, <<>>)
             /\ UNCHANGED circuit
    <3>1. light[q.id] \in LightRow
      BY <1>0, <2>1, <2>4 DEF Lights, LightTable
    <3>2. now \in LightRow
      BY <2>1, <3>1, UpdatedLight
    <3> HIDE DEF now
    <3>3. now.circuit \in CircuitIds /\ q.old.circuit \in CircuitIds
      BY <2>1, <3>2 DEF LightRow
    <3>4. RequestsOK'
      BY <1>a, <2>4, <3>3
    <3>5. TablesOK'
      BY <1>0, <2>1, <2>2, <2>4, <3>2 DEF TablesOK, LightTable, Hung
    <3> QED
      BY <3>4, <3>5 DEF TypeInv
  <2> QED
    BY <1>5, <2>3, <2>4 DEF WriteLight, q
<1>6. CASE RemoveLight(r)
  <2>1. q.old.circuit \in CircuitIds
    BY <1>6, <1>b DEF RemoveLight, AskedOK, LightRow
  <2>2. RequestsOK'
    BY <1>6, <1>a, <2>1 DEF RemoveLight, q
  <2>3. TablesOK'
    BY <1>0, <1>6 DEF RemoveLight, Hung, TablesOK, LightTable
  <2> QED
    BY <2>2, <2>3 DEF TypeInv
<1>7. CASE SumTotals(r)
  <2> DEFINE here == q.todo \cap Circuits(circuit)
             loaded == [k \in here |-> IF k \in DOMAIN q.held THEN q.held[k] ELSE circuit[k].total]
             sums == [k \in here |-> Load(light, k)]
             after == [at |-> "summed", cabs |-> q.cabs, todo |-> q.todo, sums |-> sums,
                       loaded |-> loaded]
  <2>1. request' = [request EXCEPT ![r] = after]
    BY <1>7 DEF SumTotals, q
  <2>2. q.todo \subseteq CircuitIds
    BY <1>0, <1>7 DEF SumTotals, RequestOK, Idle, q
  <2>3. DOMAIN sums \subseteq CircuitIds /\ \A k \in DOMAIN sums : sums[k] \in Totals
    BY <1>0, <2>2, LoadInRange
  <2> HIDE DEF sums, loaded, here
  <2>4. RequestOK(after)
    BY <2>2, <2>3 DEF RequestOK
  <2> HIDE DEF after
  <2>5. RequestsOK'
    BY <2>1, <2>4, RequestChanges DEF TypeInv
  <2>6. TablesOK'
    BY <1>0, <1>7 DEF SumTotals, TablesOK, tables, histories
  <2> QED
    BY <2>5, <2>6 DEF TypeInv
<1>8. CASE StoreTotals(r)
  <2> DEFINE dirty == {k \in DOMAIN q.sums : q.sums[k] # q.loaded[k]}
             stored == IF dirty \subseteq Circuits(circuit) THEN q.todo ELSE {}
  <2>1. /\ q.at = "summed"
        /\ circuit' = [k \in CircuitIds |->
             IF k \in dirty \cap stored
             THEN [circuit[k] EXCEPT !.total = q.sums[k]] ELSE circuit[k]]
        /\ stale' = stale \ stored
        /\ request' = [request EXCEPT ![r] = Idle]
        /\ UNCHANGED <<cabinets, light, strays>>
    BY <1>8 DEF StoreTotals, q
  <2>2. DOMAIN q.sums \subseteq CircuitIds /\ \A k \in DOMAIN q.sums : q.sums[k] \in Totals
    BY <1>0, <2>1 DEF RequestOK, Idle
  <2>3. ASSUME NEW k \in dirty \cap stored
        PROVE  [circuit[k] EXCEPT !.total = q.sums[k]] \in CircuitRow
    <3>1. k \in Circuits(circuit) /\ q.sums[k] \in Totals
      BY <2>2, <2>3
    <3>2. circuit[k] \in CircuitRow
      BY <1>0, <3>1 DEF Circuits, CircuitTable
    <3> QED
      BY <3>1, <3>2 DEF CircuitRow
  <2> HIDE DEF dirty, stored
  <2>4. circuit' \in CircuitTable
    BY <1>0, <2>1, <2>3 DEF CircuitTable
  <2>5. RequestsOK'
    BY <2>1, RequestChanges DEF TypeInv, RequestOK
  <2> QED
    BY <1>0, <2>1, <2>4, <2>5 DEF TypeInv, TablesOK
<1> QED
  BY <1>1, <1>2, <1>3, <1>4, <1>5, <1>6, <1>7, <1>8 DEF Handler

LEMMA CabinetTypes ==
  ASSUME TypeInv, CreateCabinet \/ DeleteCabinet \/ Wipe \/ Crash
  PROVE  TypeInv'
<1>0. TablesOK /\ RequestsOK
  BY DEF TypeInv
<1>1. CASE CreateCabinet
  BY <1>0, <1>1 DEF CreateCabinet, TypeInv, TablesOK, RequestsOK, histories
<1>2. CASE DeleteCabinet
  <2>1. PICK c \in cabinets : Drop({c})
    BY <1>2 DEF DeleteCabinet
  <2>2. TablesOK'
    BY <1>0, <2>1 DEF Drop, TablesOK, CircuitTable, LightTable, LeftBehind, Circuits
  <2>3. RequestsOK'
    BY <1>0, <2>1 DEF Drop, RequestsOK
  <2> QED
    BY <2>2, <2>3 DEF TypeInv
<1>3. CASE Wipe
  BY <1>0, <1>3 DEF Wipe, TypeInv, TablesOK, RequestsOK, CircuitTable, LightTable
<1>4. CASE Crash
  <2>1. request' = [r \in Requests |-> Idle]
    BY <1>4 DEF Crash
  <2>2. RequestsOK'
    BY <2>1 DEF RequestsOK, RequestOK
  <2>3. stale' \subseteq CircuitIds
    <3>1. \A r \in InFlight : request[r].at # "checked" => request[r].todo \subseteq CircuitIds
      BY <1>0 DEF RequestsOK, RequestOK, InFlight
    <3> QED
      BY <1>0, <1>4, <3>1 DEF Crash, TablesOK
  <2> QED
    BY <1>0, <1>4, <2>2, <2>3 DEF Crash, TypeInv, TablesOK, tables
<1> QED
  BY <1>1, <1>2, <1>3, <1>4

LEMMA StepTypes == TypeInv /\ [Next]_vars => TypeInv'
<1> SUFFICES ASSUME TypeInv, [Next]_vars PROVE TypeInv'
  OBVIOUS
<1>1. CASE UNCHANGED vars
  BY <1>1 DEF vars, tables, histories, TypeInv, TablesOK, RequestsOK
<1>2. CASE Next
  BY <1>2, ArrivalTypes, HandlerTypes, CabinetTypes DEF Next
<1> QED
  BY <1>1, <1>2

(* Rows, requests and totals keep their types for any number of clients,    *)
(* orderly or not, over every kind of request, import, restore and crash:   *)
(* the total stored for a circuit is never more than all light points draw. *)
THEOREM TopologyTypes == Spec => []TypeOK
<1>1. Spec => []TypeInv
  BY InitTypes, StepTypes, PTL DEF Spec
<1> QED
  BY <1>1, TypeInvTypes, PTL

-----------------------------------------------------------------------------
(* Whose rows are whose: when requests in flight concern different cabinets,*)
(* every request finds the rows of its cabinets as it left them, and the    *)
(* totals of the others are exact.                                          *)

(* What a request may rely on until its next step.                          *)
CircuitHere(k, cs, circ) == k \in Circuits(circ) /\ circ[k].cab \in cs
CircuitMine(k, cs, circ) == k \in Circuits(circ) => circ[k].cab \in cs
KnownTotal(k, held, circ) == k \in Circuits(circ) /\ k \in DOMAIN held => held[k] = circ[k].total

AsksFor(q, circ, lit) ==
  CASE q.op = "createCircuit" -> q.new.cab \in q.cabs
    [] q.op = "updateCircuit" ->
         /\ CircuitHere(q.id, q.cabs, circ) /\ circ[q.id] = q.old
         /\ q.new.cab \in q.cabs /\ q.new.total = q.old.total
         /\ q.moved = IF q.new.cab # q.old.cab THEN Attached(lit, q.id) ELSE {}
         /\ \A l \in Attached(lit, q.id) : lit[l].cab \in q.cabs
    [] q.op = "deleteCircuit" -> CircuitHere(q.id, q.cabs, circ) /\ Attached(lit, q.id) = {}
    [] q.op = "createLight" ->
         /\ q.new.cab \in q.cabs /\ CircuitMine(q.new.circuit, q.cabs, circ)
         /\ q.own => q.new.circuit \in CircuitsOf(circ, q.new.cab)
    [] q.op = "updateLight" ->
         /\ q.id \in Lights(lit) /\ lit[q.id] = q.old
         /\ q.old.cab \in q.cabs /\ q.new.cab = q.old.cab
         /\ CircuitMine(q.old.circuit, q.cabs, circ) /\ CircuitMine(q.new.circuit, q.cabs, circ)
         /\ q.own => q.new.circuit \in CircuitsOf(circ, q.new.cab)
    [] q.op = "deleteLight" ->
         /\ q.id \in Lights(lit) /\ lit[q.id] = q.old /\ q.old.cab \in q.cabs
         /\ CircuitMine(q.old.circuit, q.cabs, circ)
    [] OTHER -> FALSE

Promised(q, circ, lit) ==
  /\ q.at = "checked" => AsksFor(q, circ, lit)
  /\ q.at = "committed" =>
       \A k \in q.todo : CircuitMine(k, q.cabs, circ) /\ KnownTotal(k, q.held, circ)
  /\ q.at = "summed" =>
       /\ DOMAIN q.sums = q.todo \cap Circuits(circ)
       /\ \A k \in DOMAIN q.sums :
            /\ CircuitHere(k, q.cabs, circ)
            /\ q.sums[k] = Load(lit, k) /\ q.loaded[k] = circ[k].total

(* A step that only touches rows of the cabinets ds: of light points, those *)
(* of these cabinets that hang from circuits of them, or from none.         *)
Inside(row, ds, circ) ==
  row = NoRow \/ (row.cab \in ds /\ CircuitMine(row.circuit, ds, circ))
Within(ds, circ, lit, circ2, lit2) ==
  /\ \A k \in CircuitIds :
       \/ circ2[k] = circ[k]
       \/ /\ circ[k] = NoRow \/ circ[k].cab \in ds
          /\ circ2[k] = NoRow \/ circ2[k].cab \in ds
  /\ \A l \in LightIds :
       lit2[l] = lit[l] \/ (Inside(lit[l], ds, circ) /\ Inside(lit2[l], ds, circ2))

LEMMA NothingTouched ==
  ASSUME NEW ds, NEW circ, NEW lit, NEW circ2, NEW lit2, circ2 = circ, lit2 = lit
  PROVE  Within(ds, circ, lit, circ2, lit2)
<1>1. \A k \in CircuitIds : circ2[k] = circ[k]
  OBVIOUS
<1>2. \A l \in LightIds : lit2[l] = lit[l]
  OBVIOUS
<1> QED
  BY <1>1, <1>2, Zenon DEF Within

(* The same, of tables changed row by row.                                  *)
LEMMA RowsWithin ==
  ASSUME NEW ds, NEW circ, NEW lit, NEW circ2, NEW lit2,
         \A k \in CircuitIds :
           \/ circ2[k] = circ[k]
           \/ /\ circ[k] = NoRow \/ circ[k].cab \in ds
              /\ circ2[k] = NoRow \/ circ2[k].cab \in ds,
         \A l \in LightIds :
           lit2[l] = lit[l] \/ (Inside(lit[l], ds, circ) /\ Inside(lit2[l], ds, circ2))
  PROVE  Within(ds, circ, lit, circ2, lit2)
BY Zenon DEF Within

LEMMA SameCircuit ==
  ASSUME NEW circ, NEW lit, NEW circ2, NEW lit2, NEW ds, Within(ds, circ, lit, circ2, lit2),
         NEW k \in Circuits(circ), circ[k].cab \notin ds
  PROVE  /\ k \in Circuits(circ2) /\ circ2[k] = circ[k]
         /\ Attached(lit2, k) = Attached(lit, k)
         /\ Load(lit2, k) = Load(lit, k)
         /\ \A l \in Attached(lit, k) : lit2[l] = lit[l]
<1>1. k \in Circuits(circ2) /\ circ2[k] = circ[k]
  BY DEF Within, Circuits
<1>2. \A l \in Attached(lit, k) : lit2[l] = lit[l] /\ l \in Attached(lit2, k)
  <2> SUFFICES ASSUME NEW l \in Attached(lit, k)
               PROVE  lit2[l] = lit[l] /\ l \in Attached(lit2, k)
    OBVIOUS
  <2>1. l \in LightIds /\ lit[l] # NoRow /\ lit[l].circuit = k
    BY DEF Attached, Lights
  <2>2. ~Inside(lit[l], ds, circ)
    BY <2>1 DEF Inside, CircuitMine
  <2> QED
    BY <2>1, <2>2 DEF Within, Attached, Lights
<1>3. \A l \in Attached(lit2, k) : l \in Attached(lit, k)
  <2> SUFFICES ASSUME NEW l \in Attached(lit2, k) PROVE l \in Attached(lit, k)
    OBVIOUS
  <2>1. l \in LightIds /\ lit2[l] # NoRow /\ lit2[l].circuit = k
    BY DEF Attached, Lights
  <2>2. ~Inside(lit2[l], ds, circ2)
    BY <1>1, <2>1 DEF Inside, CircuitMine
  <2> QED
    BY <2>1, <2>2 DEF Within, Attached, Lights
<1>4. Attached(lit2, k) = Attached(lit, k)
  BY <1>2, <1>3
<1>5. Load(lit2, k) = Load(lit, k)
  BY <1>2, <1>4, SameLoad
<1> QED
  BY <1>1, <1>2, <1>4, <1>5

(* A request of other cabinets finds what it was promised, as long as no new*)
(* circuit takes an id that it names.                                       *)
LEMMA Undisturbed ==
  ASSUME NEW circ, NEW lit, NEW circ2, NEW lit2, NEW ds, Within(ds, circ, lit, circ2, lit2),
         NEW q, RequestOK(q), q.cabs \cap ds = {}, Promised(q, circ, lit),
         \A k \in Circuits(circ2) \ Circuits(circ) : k \notin Named(q)
  PROVE  Promised(q, circ2, lit2)
<1>1. \A k : CircuitHere(k, q.cabs, circ) =>
        /\ CircuitHere(k, q.cabs, circ2) /\ circ2[k] = circ[k]
        /\ Attached(lit2, k) = Attached(lit, k) /\ Load(lit2, k) = Load(lit, k)
        /\ \A l \in Attached(lit, k) : lit2[l] = lit[l]
  BY SameCircuit DEF CircuitHere
<1>2. \A l \in Lights(lit) : lit[l].cab \in q.cabs => l \in Lights(lit2) /\ lit2[l] = lit[l]
  BY DEF Within, Inside, Lights
<1>3. \A k \in Named(q) : CircuitMine(k, q.cabs, circ) =>
        /\ CircuitMine(k, q.cabs, circ2)
        /\ k \in Circuits(circ2) <=> k \in Circuits(circ)
        /\ k \in Circuits(circ) => circ2[k] = circ[k]
  BY <1>1 DEF CircuitMine, CircuitHere
<1>4. \A c \in q.cabs : \A k \in CircuitsOf(circ, c) : k \in CircuitsOf(circ2, c)
  BY <1>1 DEF CircuitsOf, CircuitHere
<1>5. q.at = "checked" => AsksFor(q, circ2, lit2)
  <2> SUFFICES ASSUME q.at = "checked" PROVE AsksFor(q, circ2, lit2)
    OBVIOUS
  <2>1. AsksFor(q, circ, lit)
    BY DEF Promised
  <2>2. q.op \in {"createCircuit", "updateCircuit", "deleteCircuit",
                  "createLight", "updateLight", "deleteLight"}
    BY <2>1 DEF AsksFor
  <2>3. CASE q.op = "createCircuit"
    BY <2>1, <2>3 DEF AsksFor
  <2>4. CASE q.op = "updateCircuit"
    <3>1. /\ CircuitHere(q.id, q.cabs, circ) /\ circ[q.id] = q.old
          /\ q.new.cab \in q.cabs /\ q.new.total = q.old.total
          /\ q.moved = IF q.new.cab # q.old.cab THEN Attached(lit, q.id) ELSE {}
          /\ \A l \in Attached(lit, q.id) : lit[l].cab \in q.cabs
      BY <2>1, <2>4 DEF AsksFor
    <3>2. /\ CircuitHere(q.id, q.cabs, circ2) /\ circ2[q.id] = q.old
          /\ q.moved = IF q.new.cab # q.old.cab THEN Attached(lit2, q.id) ELSE {}
          /\ \A l \in Attached(lit2, q.id) : lit2[l].cab \in q.cabs
      BY <1>1, <3>1
    <3> QED
      BY <2>4, <3>1, <3>2 DEF AsksFor
  <2>5. CASE q.op = "deleteCircuit"
    BY <1>1, <2>1, <2>5 DEF AsksFor
  <2>6. CASE q.op = "createLight"
    <3>1. /\ q.new.cab \in q.cabs /\ CircuitMine(q.new.circuit, q.cabs, circ)
          /\ q.own => q.new.circuit \in CircuitsOf(circ, q.new.cab)
      BY <2>1, <2>6 DEF AsksFor
    <3>2. q.new.circuit \in Named(q)
      BY <2>6 DEF Named
    <3>3. CircuitMine(q.new.circuit, q.cabs, circ2)
      BY <1>3, <3>1, <3>2
    <3>4. q.own => q.new.circuit \in CircuitsOf(circ2, q.new.cab)
      BY <1>4, <3>1
    <3> QED
      BY <2>6, <3>1, <3>3, <3>4 DEF AsksFor
  <2>7. CASE q.op = "updateLight"
    <3>1. /\ q.id \in Lights(lit) /\ lit[q.id] = q.old
          /\ q.old.cab \in q.cabs /\ q.new.cab = q.old.cab
          /\ CircuitMine(q.old.circuit, q.cabs, circ) /\ CircuitMine(q.new.circuit, q.cabs, circ)
          /\ q.own => q.new.circuit \in CircuitsOf(circ, q.new.cab)
      BY <2>1, <2>7 DEF AsksFor
    <3>2. q.new.circuit \in Named(q) /\ q.old.circuit \in Named(q)
      BY <2>7 DEF Named
    <3>3. CircuitMine(q.old.circuit, q.cabs, circ2) /\ CircuitMine(q.new.circuit, q.cabs, circ2)
      BY <1>3, <3>1, <3>2
    <3>4. q.own => q.new.circuit \in CircuitsOf(circ2, q.new.cab)
      BY <1>4, <3>1
    <3>5. q.id \in Lights(lit2) /\ lit2[q.id] = q.old
      BY <1>2, <3>1
    <3> QED
      BY <2>7, <3>1, <3>3, <3>4, <3>5 DEF AsksFor
  <2>8. CASE q.op = "deleteLight"
    <3>1. /\ q.id \in Lights(lit) /\ lit[q.id] = q.old /\ q.old.cab \in q.cabs
          /\ CircuitMine(q.old.circuit, q.cabs, circ)
      BY <2>1, <2>8 DEF AsksFor
    <3>2. q.old.circuit \in Named(q)
      BY <2>8 DEF Named
    <3>3. CircuitMine(q.old.circuit, q.cabs, circ2)
      BY <1>3, <3>1, <3>2
    <3>4. q.id \in Lights(lit2) /\ lit2[q.id] = q.old
      BY <1>2, <3>1
    <3> QED
      BY <2>8, <3>1, <3>3, <3>4 DEF AsksFor
  <2> QED
    BY <2>2, <2>3, <2>4, <2>5, <2>6, <2>7, <2>8
<1>6. q.at \in {"committed", "summed"} => Named(q) = q.todo
  BY DEF Named
<1>7. q.at = "committed" =>
        \A k \in q.todo : CircuitMine(k, q.cabs, circ2) /\ KnownTotal(k, q.held, circ2)
  BY <1>3, <1>6 DEF Promised, KnownTotal
<1>8. q.at = "summed" =>
        /\ DOMAIN q.sums = q.todo \cap Circuits(circ2)
        /\ \A k \in DOMAIN q.sums :
             /\ CircuitHere(k, q.cabs, circ2)
             /\ q.sums[k] = Load(lit2, k) /\ q.loaded[k] = circ2[k].total
  <2> SUFFICES ASSUME q.at = "summed"
               PROVE  /\ DOMAIN q.sums = q.todo \cap Circuits(circ2)
                      /\ \A k \in DOMAIN q.sums :
                           /\ CircuitHere(k, q.cabs, circ2)
                           /\ q.sums[k] = Load(lit2, k) /\ q.loaded[k] = circ2[k].total
    OBVIOUS
  <2>1. /\ DOMAIN q.sums = q.todo \cap Circuits(circ)
        /\ \A k \in DOMAIN q.sums :
             /\ CircuitHere(k, q.cabs, circ)
             /\ q.sums[k] = Load(lit, k) /\ q.loaded[k] = circ[k].total
    BY DEF Promised
  <2>2. \A k \in q.todo : k \in Circuits(circ2) <=> k \in Circuits(circ)
    BY <1>1, <1>6, <2>1 DEF CircuitHere
  <2> QED
    BY <1>1, <2>1, <2>2
<1> QED
  BY <1>5, <1>7, <1>8 DEF Promised

Exact(k) == k \in stale \/ Summing(k) \/ circuit[k].total = Load(light, k)

Sound ==
  /\ TypeInv
  /\ OwnCircuit
  /\ \A r \in InFlight : Promised(request[r], circuit, light)
  /\ \A p, r \in InFlight : p # r => request[p].cabs \cap request[r].cabs = {}
  /\ \A k \in Circuits(circuit) : Exact(k)

LEMMA SoundClaims == Sound => OwnCircuit /\ TotalsExact
<1> SUFFICES ASSUME Sound PROVE OwnCircuit /\ TotalsExact
  OBVIOUS
<1>1. OwnCircuit
  BY DEF Sound
<1>2. ASSUME NEW c \in cabinets, NEW k \in CircuitsOf(circuit, c)
      PROVE  k \in stale \/ Summing(k) \/ circuit[k].total = Tree(c).power[k]
  <2>1. Tree(c).power[k] = Load(light, k)
    BY DEF Tree
  <2>2. k \in Circuits(circuit)
    BY DEF CircuitsOf
  <2> QED
    BY <2>1, <2>2 DEF Sound, Exact
<1> QED
  BY <1>1, <1>2 DEF TotalsExact

LEMMA InitSound == Init => Sound
<1> SUFFICES ASSUME Init PROVE Sound
  OBVIOUS
<1>1. Circuits(circuit) = {} /\ Lights(light) = {} /\ InFlight = {}
  BY DEF Init, Circuits, Lights, InFlight
<1> QED
  BY <1>1, InitTypes DEF Sound, OwnCircuit

(* No circuit came into being with an id that the request names.            *)
Unnamed(q, circ, circ2) == \A k \in Circuits(circ2) \ Circuits(circ) : k \notin Named(q)

(* A step of one request, within cabinets no other request is about.        *)
LEMMA OneRequest ==
  ASSUME Sound, TypeInv', NEW r \in Requests, NEW q, request' = [request EXCEPT ![r] = q],
         NEW ds, Within(ds, circuit, light, circuit', light'), OwnCircuit',
         \A p \in InFlight : p # r => request[p].cabs \cap ds = {},
         \A p \in InFlight : p # r => Unnamed(request[p], circuit, circuit'),
         \/ q = Idle
         \/ /\ Promised(q, circuit', light')
            /\ \A p \in InFlight : p # r => request[p].cabs \cap q.cabs = {},
         \A k \in Circuits(circuit') :
           \/ k \in stale'
           \/ q # Idle /\ q.at # "checked" /\ k \in q.todo
           \/ circuit'[k].total = Load(light', k)
           \/ /\ k \in Circuits(circuit) /\ circuit'[k].total = circuit[k].total
              /\ Load(light', k) = Load(light, k)
              /\ k \in stale => k \in stale'
              /\ request[r].at \in {"committed", "summed"} => k \notin request[r].todo
  PROVE  Sound'
<1>1. /\ request'[r] = q
      /\ \A p \in Requests : p # r => request'[p] = request[p]
  BY DEF Sound, TypeInv, RequestsOK
<1>2. /\ InFlight' \subseteq Requests
      /\ \A p \in InFlight' : p # r => p \in InFlight
      /\ \A p \in InFlight : p # r => p \in InFlight'
      /\ (r \in InFlight' <=> q # Idle)
  BY <1>1 DEF InFlight
<1>3. ASSUME NEW p \in InFlight' PROVE Promised(request'[p], circuit', light')
  <2>1. CASE p = r
    <3>1. q # Idle /\ request'[p] = q
      BY <1>1, <1>2, <1>3, <2>1
    <3>2. Promised(q, circuit', light')
      BY <3>1
    <3> QED
      BY <3>1, <3>2
  <2>2. CASE p # r
    <3>1. p \in InFlight /\ p \in Requests /\ request'[p] = request[p]
      BY <1>1, <1>2, <1>3, <2>2
    <3>2. RequestOK(request[p]) /\ Promised(request[p], circuit, light)
      BY <3>1 DEF Sound, TypeInv, RequestsOK
    <3> DEFINE w == request[p]
    <3>3. w.cabs \cap ds = {} /\ request'[p] = w /\ Unnamed(w, circuit, circuit')
      BY <2>2, <3>1
    <3> HIDE DEF w
    <3>4. Promised(w, circuit', light')
      BY <3>2, <3>3, Undisturbed DEF w, Unnamed
    <3> QED
      BY <3>3, <3>4
  <2> QED
    BY <2>1, <2>2
<1>4. ASSUME NEW o \in InFlight', NEW p \in InFlight', o # p
      PROVE  request'[o].cabs \cap request'[p].cabs = {}
  <2>1. CASE o = r
    BY <1>1, <1>2, <1>4, <2>1
  <2>2. CASE p = r
    BY <1>1, <1>2, <1>4, <2>2
  <2>3. CASE o # r /\ p # r
    BY <1>1, <1>2, <1>4, <2>3 DEF Sound
  <2> QED
    BY <2>1, <2>2, <2>3
<1>5. ASSUME NEW k \in Circuits(circuit') PROVE Exact(k)'
  <2>1. CASE q # Idle /\ q.at # "checked" /\ k \in q.todo
    <3>1. r \in InFlight' /\ request'[r] = q
      BY <1>1, <1>2, <2>1
    <3> QED
      BY <2>1, <3>1 DEF Exact, Summing
  <2>2. CASE /\ k \in Circuits(circuit) /\ circuit'[k].total = circuit[k].total
             /\ Load(light', k) = Load(light, k)
             /\ k \in stale => k \in stale'
             /\ request[r].at \in {"committed", "summed"} => k \notin request[r].todo
    <3>1. k \in stale \/ Summing(k) \/ circuit[k].total = Load(light, k)
      BY <2>2 DEF Sound, Exact
    <3>2. ASSUME Summing(k) PROVE Summing(k)'
      <4>1. PICK p \in InFlight : request[p].at # "checked" /\ k \in request[p].todo
        BY <3>2 DEF Summing
      <4>2. request[p].at \in {"committed", "summed"}
        BY <4>1 DEF Sound, TypeInv, RequestsOK, RequestOK, InFlight
      <4>3. p # r
        BY <2>2, <4>1, <4>2
      <4>4. p \in InFlight' /\ request'[p] = request[p]
        BY <1>1, <1>2, <4>3 DEF InFlight
      <4> QED
        BY <4>1, <4>4 DEF Summing
    <3> QED
      BY <2>2, <3>1, <3>2 DEF Exact
  <2>3. CASE k \in stale' \/ circuit'[k].total = Load(light', k)
    BY <2>3 DEF Exact
  <2>4. \/ k \in stale'
        \/ q # Idle /\ q.at # "checked" /\ k \in q.todo
        \/ circuit'[k].total = Load(light', k)
        \/ /\ k \in Circuits(circuit) /\ circuit'[k].total = circuit[k].total
           /\ Load(light', k) = Load(light, k)
           /\ k \in stale => k \in stale'
           /\ request[r].at \in {"committed", "summed"} => k \notin request[r].todo
    BY <1>5
  <2> QED
    BY <2>1, <2>2, <2>3, <2>4
<1> QED
  BY <1>3, <1>4, <1>5 DEF Sound

(* A request arrives: it loads rows of its cabinets and writes nothing yet. *)
LEMMA StartSound ==
  ASSUME Sound, Orderly, NEW r \in Requests, request[r] = Idle,
         NEW op, NEW cabs, NEW id, NEW old, NEW new, NEW moved, NEW own,
         Start(r, op, cabs, id, old, new, moved, own),
         AskedOK(Asked(op, cabs, id, old, new, moved, own)),
         AsksFor(Asked(op, cabs, id, old, new, moved, own), circuit, light)
  PROVE  Sound'
<1> DEFINE q == Asked(op, cabs, id, old, new, moved, own)
           none == {}
<1>1. TypeInv'
  BY AskingTypes DEF Sound
<1>2. /\ request' = [request EXCEPT ![r] = q]
      /\ circuit' = circuit /\ light' = light /\ stale' = stale /\ strays' = strays
      /\ \A p \in InFlight : request[p].cabs \cap cabs = {}
  BY StartAsks
<1>3. q.at = "checked" /\ q.cabs = cabs
  BY DEF Asked
<1> HIDE DEF q, none
<1>4. Promised(q, circuit', light')
  BY <1>2, <1>3 DEF Promised, q
<1>5. OwnCircuit'
  BY <1>2 DEF Sound, OwnCircuit
<1>6. Within(none, circuit, light, circuit', light')
  BY <1>2, NothingTouched
<1>7. /\ \A p \in InFlight : p # r => request[p].cabs \cap none = {}
      /\ \A p \in InFlight : p # r => Unnamed(request[p], circuit, circuit')
      /\ \A p \in InFlight : p # r => request[p].cabs \cap q.cabs = {}
  BY <1>2, <1>3 DEF none, Unnamed
<1>8. ASSUME NEW k \in Circuits(circuit')
      PROVE  \/ k \in stale'
             \/ q # Idle /\ q.at # "checked" /\ k \in q.todo
             \/ circuit'[k].total = Load(light', k)
             \/ /\ k \in Circuits(circuit) /\ circuit'[k].total = circuit[k].total
                /\ Load(light', k) = Load(light, k)
                /\ k \in stale => k \in stale'
                /\ request[r].at \in {"committed", "summed"} => k \notin request[r].todo
  BY <1>2 DEF Idle
<1> QED
  BY <1>1, <1>2, <1>4, <1>5, <1>6, <1>7, <1>8, OneRequest

(* A request commits and leaves the circuits of todo to be recomputed.      *)
LEMMA CommitSound ==
  ASSUME Sound, TypeInv', NEW r \in Requests, request[r].at \in {"idle", "checked"},
         NEW cabs, NEW todo, NEW held, NEW ds, cabs \subseteq ds,
         request' = [request EXCEPT ![r] = After(cabs, todo, held)],
         Within(ds, circuit, light, circuit', light'), OwnCircuit',
         \A p \in InFlight : p # r => request[p].cabs \cap ds = {},
         \A p \in InFlight : p # r => Unnamed(request[p], circuit, circuit'),
         \A k \in todo : CircuitMine(k, cabs, circuit') /\ KnownTotal(k, held, circuit'),
         \A k \in Circuits(circuit') \ todo :
           \/ k \in stale'
           \/ circuit'[k].total = Load(light', k)
           \/ /\ k \in Circuits(circuit) /\ circuit'[k].total = circuit[k].total
              /\ Load(light', k) = Load(light, k)
              /\ k \in stale => k \in stale'
  PROVE  Sound'
<1> DEFINE q == After(cabs, todo, held)
<1>1. q # Idle => /\ q.at = "committed" /\ q.cabs = cabs /\ q.todo = todo /\ q.held = held
  BY DEF After
<1>2. q = Idle => todo = {}
  BY DEF After, Idle
<1> HIDE DEF q
<1>3. request' = [request EXCEPT ![r] = q]
  BY DEF q
<1>4. q # Idle => Promised(q, circuit', light')
  BY <1>1 DEF Promised
<1>5. q # Idle => \A p \in InFlight : p # r => request[p].cabs \cap q.cabs = {}
  BY <1>1
<1>6. ASSUME NEW k \in Circuits(circuit')
      PROVE  \/ k \in stale'
             \/ q # Idle /\ q.at # "checked" /\ k \in q.todo
             \/ circuit'[k].total = Load(light', k)
             \/ /\ k \in Circuits(circuit) /\ circuit'[k].total = circuit[k].total
                /\ Load(light', k) = Load(light, k)
                /\ k \in stale => k \in stale'
                /\ request[r].at \in {"committed", "summed"} => k \notin request[r].todo
  <2>1. CASE k \in todo
    BY <1>1, <1>2, <2>1
  <2>2. CASE k \notin todo
    BY <2>2
  <2> QED
    BY <2>1, <2>2
<1> QED
  BY <1>3, <1>4, <1>5, <1>6, OneRequest

(* An import or restore that kept faith with the tables.                    *)
LEMMA BulkSound ==
  ASSUME Sound, Orderly, NEW r \in Requests, request[r] = Idle, NEW cabs, NEW s,
         Faithful(s, circuit, light, cabs), Bulk(r, cabs, s)
  PROVE  Sound'
<1> DEFINE held == <<>>
           ds == cabs \cup Feeding(cabs)
<1>1. /\ circuit' = s.circ /\ light' = s.lit /\ strays' = strays \ Changed(s.lit)
      /\ request' = [request EXCEPT ![r] = After(cabs, s.hit, held)]
      /\ stale' = stale \cup LeftBehind(s.circ, s.lit, s.hit)
      /\ \A p \in InFlight : request[p].cabs \cap ds = {}
      /\ NotNamed(r, Circuits(s.circ) \ Circuits(circuit))
  BY DEF Bulk, After
<1>2. TypeInv'
  BY BulkTypes DEF Sound, Faithful
<1>3. /\ \A k \in CircuitIds :
           \/ circuit'[k] = circuit[k]
           \/ /\ circuit[k] = NoRow /\ circuit'[k] \in CircuitRow
              /\ circuit'[k].cab \in cabs \cap cabinets /\ circuit'[k].total = 0
      /\ \A l \in LightIds :
           \/ light'[l] = light[l]
           \/ /\ light'[l] \in LightRow /\ light'[l].cab \in cabs \cap cabinets
              /\ light'[l].circuit \in s.hit
              /\ light'[l].circuit \in CircuitsOf(circuit', light'[l].cab)
              /\ light[l] = NoRow \/ light[l].cab = light'[l].cab
      /\ \A k \in s.hit : k \in Circuits(circuit') /\ circuit'[k].cab \in cabs \cap cabinets
  BY <1>1 DEF Faithful
<1>4. Within(ds, circuit, light, circuit', light')
  <2>1. ASSUME NEW k \in CircuitIds, circuit'[k] # circuit[k]
        PROVE  circuit[k] = NoRow /\ circuit'[k].cab \in ds
    BY <1>3, <2>1
  <2>2. ASSUME NEW l \in LightIds, light'[l] # light[l]
        PROVE  Inside(light[l], ds, circuit) /\ Inside(light'[l], ds, circuit')
    <3>1. /\ light'[l].cab \in cabs /\ light'[l].circuit \in CircuitsOf(circuit', light'[l].cab)
          /\ light[l] = NoRow \/ light[l].cab = light'[l].cab
      BY <1>3, <2>2
    <3>2. Inside(light'[l], ds, circuit')
      BY <3>1 DEF Inside, CircuitMine, CircuitsOf
    <3>3. ASSUME light[l] # NoRow, light[l].circuit \in Circuits(circuit)
          PROVE  circuit[light[l].circuit].cab \in Feeding(cabs)
      <4>1. l \in {m \in Lights(light) :
                     light[m].cab \in cabs /\ light[m].circuit \in Circuits(circuit)}
        BY <2>2, <3>1, <3>3 DEF Lights
      <4> QED
        BY <4>1 DEF Feeding
    <3>4. CASE light[l] = NoRow
      BY <3>2, <3>4 DEF Inside
    <3>5. CASE light[l] # NoRow
      <4>1. light[l].cab \in ds /\ CircuitMine(light[l].circuit, ds, circuit)
        BY <3>1, <3>3, <3>5 DEF CircuitMine
      <4> QED
        BY <3>2, <4>1 DEF Inside
    <3> QED
      BY <3>4, <3>5
  <2> HIDE DEF ds
  <2>3. \A k \in CircuitIds :
          \/ circuit'[k] = circuit[k]
          \/ /\ circuit[k] = NoRow \/ circuit[k].cab \in ds
             /\ circuit'[k] = NoRow \/ circuit'[k].cab \in ds
    BY <2>1
  <2>4. \A l \in LightIds :
          light'[l] = light[l]
          \/ (Inside(light[l], ds, circuit) /\ Inside(light'[l], ds, circuit'))
    BY <2>2, Zenon
  <2> QED
    BY <2>3, <2>4, RowsWithin
<1>5. OwnCircuit'
  <2> SUFFICES ASSUME NEW l \in Lights(light') \ strays'
               PROVE  light'[l].circuit \in CircuitsOf(circuit', light'[l].cab)
    BY DEF OwnCircuit
  <2>1. l \in LightIds /\ light'[l] # NoRow
    BY DEF Lights
  <2>2. CASE light'[l] = light[l]
    <3>1. l \in Lights(light) \ strays
      BY <1>1, <2>1, <2>2 DEF Lights, Changed
    <3>2. light[l].circuit \in CircuitsOf(circuit, light[l].cab)
      BY <3>1 DEF Sound, OwnCircuit
    <3> QED
      BY <1>3, <2>2, <3>2 DEF CircuitsOf, Circuits
  <2>3. CASE light'[l] # light[l]
    BY <1>3, <2>1, <2>3
  <2> QED
    BY <2>2, <2>3
<1>6. \A p \in InFlight : p # r => Unnamed(request[p], circuit, circuit')
  BY <1>1 DEF NotNamed, Unnamed
<1>7. \A k \in s.hit : CircuitMine(k, cabs, circuit') /\ KnownTotal(k, held, circuit')
  BY <1>3 DEF CircuitMine, KnownTotal
<1>8. \A p \in InFlight : p # r => request[p].cabs \cap ds = {}
  BY <1>1
<1>9. cabs \subseteq ds
  OBVIOUS
<1> HIDE DEF held, ds
<1>10. ASSUME NEW k \in Circuits(circuit') \ s.hit
       PROVE  \/ k \in stale'
              \/ circuit'[k].total = Load(light', k)
              \/ /\ k \in Circuits(circuit) /\ circuit'[k].total = circuit[k].total
                 /\ Load(light', k) = Load(light, k)
                 /\ k \in stale => k \in stale'
  <2>1. k \in CircuitIds /\ circuit'[k] # NoRow /\ k \notin s.hit
    BY DEF Circuits
  <2>2. \A l \in Attached(light', k) : light'[l] = light[l] /\ l \in Attached(light, k)
    BY <1>3, <2>1 DEF Attached, Lights
  <2>3. CASE k \notin Circuits(circuit) /\ Attached(light', k) = {}
    <3>1. circuit'[k].total = 0
      BY <1>3, <2>1, <2>3 DEF Circuits
    <3> QED
      BY <2>3, <3>1, NoLoad
  <2>4. CASE k \in Circuits(circuit) /\ Attached(light', k) = Attached(light, k)
    <3>1. Load(light', k) = Load(light, k)
      BY <2>2, <2>4, SameLoad
    <3>2. circuit'[k] = circuit[k]
      BY <1>3, <2>1, <2>4 DEF Circuits
    <3> QED
      BY <1>1, <2>4, <3>1, <3>2
  <2>5. CASE IF k \in Circuits(circuit) THEN Attached(light, k) # Attached(light', k)
             ELSE Attached(light', k) # {}
    <3>1. k \in LeftBehind(s.circ, s.lit, s.hit)
      BY <1>1, <2>1, <2>5 DEF LeftBehind
    <3> QED
      BY <1>1, <3>1
  <2> QED
    BY <2>3, <2>4, <2>5
<1>11. request[r].at \in {"idle", "checked"}
  BY DEF Idle
<1> DEFINE todo == s.hit
<1>12. request' = [request EXCEPT ![r] = After(cabs, todo, held)]
  BY <1>1
<1>13. \A k \in todo : CircuitMine(k, cabs, circuit') /\ KnownTotal(k, held, circuit')
  BY <1>7
<1>14. \A k \in Circuits(circuit') \ todo :
         \/ k \in stale'
         \/ circuit'[k].total = Load(light', k)
         \/ /\ k \in Circuits(circuit) /\ circuit'[k].total = circuit[k].total
            /\ Load(light', k) = Load(light, k)
            /\ k \in stale => k \in stale'
  BY <1>10
<1> HIDE DEF todo
<1> QED
  BY <1>2, <1>4, <1>5, <1>6, <1>8, <1>9, <1>11, <1>12, <1>13, <1>14, CommitSound

LEMMA ArrivalSound ==
  ASSUME Sound, Orderly, NEW r \in Requests, Arrival(r)
  PROVE  Sound'
<1>0. /\ circuit \in CircuitTable /\ light \in LightTable /\ cabinets \subseteq Codes /\ TypeInv
  BY DEF Sound, TypeInv, TablesOK
<1>a. request[r] = Idle
  BY DEF Arrival
<1>1. CASE CreateCircuit(r)
  <2>1. PICK c \in Codes, n \in CircuitNumbers, w \in {0, Cardinality(AllWatts)} :
          Start(r, "createCircuit", {c}, NoRow, NoRow,
                [cab |-> c, number |-> n, total |-> w], {}, TRUE)
    BY <1>0, <1>1 DEF CreateCircuit
  <2> DEFINE new == [cab |-> c, number |-> n, total |-> w]
             cabs == {c}
             q == Asked("createCircuit", cabs, NoRow, NoRow, new, {}, TRUE)
  <2>2. new \in CircuitRow /\ new.cab = c
    BY <1>0, WattsFinite DEF CircuitRow, Totals
  <2> HIDE DEF new
  <2>3. q.op = "createCircuit" /\ q.new = new /\ q.cabs = cabs
    BY DEF Asked
  <2> HIDE DEF q
  <2>4. AskedOK(q) /\ AsksFor(q, circuit, light)
    BY <2>2, <2>3 DEF AskedOK, AsksFor
  <2>5. Start(r, "createCircuit", cabs, NoRow, NoRow, new, {}, TRUE)
    BY <2>1 DEF new
  <2> QED
    BY <1>a, <2>4, <2>5, StartSound DEF q
<1>2. CASE UpdateCircuit(r)
  <2>1. PICK k \in Circuits(circuit), n \in CircuitNumbers, c \in Codes :
          Start(r, "updateCircuit", {circuit[k].cab, c} \cup Dependent(k), k, circuit[k],
                [circuit[k] EXCEPT !.cab = c, !.number = n],
                IF c # circuit[k].cab THEN Attached(light, k) ELSE {}, TRUE)
    BY <1>0, <1>2 DEF UpdateCircuit
  <2> DEFINE old == circuit[k]
             new == [old EXCEPT !.cab = c, !.number = n]
             moved == IF c # old.cab THEN Attached(light, k) ELSE {}
             cabs == {old.cab, c} \cup Dependent(k)
             q == Asked("updateCircuit", cabs, k, old, new, moved, TRUE)
  <2>2. k \in CircuitIds /\ old \in CircuitRow
    BY <1>0 DEF Circuits, CircuitTable
  <2> HIDE DEF old
  <2>3. new \in CircuitRow /\ new.cab = c /\ new.total = old.total
    BY <2>2 DEF CircuitRow
  <2> HIDE DEF new
  <2>4. moved \subseteq LightIds /\ moved = IF new.cab # old.cab THEN Attached(light, k) ELSE {}
    BY <2>3 DEF Attached, Lights
  <2> HIDE DEF moved
  <2>5. /\ circuit[k] = old /\ CircuitHere(k, cabs, circuit) /\ c \in cabs
        /\ \A l \in Attached(light, k) : light[l].cab \in cabs
    BY <2>1 DEF old, CircuitHere, Dependent
  <2>6. Start(r, "updateCircuit", cabs, k, old, new, moved, TRUE)
    BY <2>1 DEF old, new, moved
  <2> HIDE DEF cabs
  <2>7. /\ q.op = "updateCircuit" /\ q.cabs = cabs /\ q.id = k /\ q.old = old /\ q.new = new
        /\ q.moved = moved
    BY DEF Asked
  <2> HIDE DEF q
  <2>8. AskedOK(q)
    BY <2>2, <2>3, <2>4, <2>7 DEF AskedOK
  <2>9. AsksFor(q, circuit, light)
    BY <2>3, <2>4, <2>5, <2>7 DEF AsksFor
  <2> QED
    BY <1>a, <2>6, <2>8, <2>9, StartSound DEF q
<1>3. CASE DeleteCircuit(r)
  <2>1. PICK k \in Circuits(circuit) :
          /\ Attached(light, k) = {}
          /\ Start(r, "deleteCircuit", {circuit[k].cab}, k, circuit[k], NoRow, {}, TRUE)
    BY <1>3 DEF DeleteCircuit
  <2> DEFINE cabs == {circuit[k].cab}
             q == Asked("deleteCircuit", cabs, k, circuit[k], NoRow, {}, TRUE)
  <2>2. q.op = "deleteCircuit" /\ q.cabs = cabs /\ q.id = k
    BY DEF Asked
  <2> HIDE DEF q
  <2>3. AskedOK(q) /\ AsksFor(q, circuit, light)
    BY <2>1, <2>2 DEF AskedOK, AsksFor, CircuitHere, Circuits
  <2> QED
    BY <1>a, <2>1, <2>3, StartSound DEF q
<1>4. CASE CreateLight(r)
  <2>1. PICK c \in Codes, n \in LightNumbers, w \in Powers, k \in CircuitIds :
          Start(r, "createLight", Concerned(c, {k}), NoRow, NoRow,
                [cab |-> c, circuit |-> k, number |-> n, power |-> w], {},
                k \in CircuitsOf(circuit, c))
    BY <1>4 DEF CreateLight
  <2> DEFINE new == [cab |-> c, circuit |-> k, number |-> n, power |-> w]
             cabs == Concerned(c, {k})
             own == k \in CircuitsOf(circuit, c)
             q == Asked("createLight", cabs, NoRow, NoRow, new, {}, own)
  <2>2. new \in LightRow /\ new.cab = c /\ new.circuit = k
    BY DEF LightRow
  <2>3. c \in cabs /\ CircuitMine(k, cabs, circuit)
    BY DEF Concerned, CircuitMine
  <2>4. own => k \in CircuitsOf(circuit, c)
    OBVIOUS
  <2>5. Start(r, "createLight", cabs, NoRow, NoRow, new, {}, own)
    BY <2>1
  <2> HIDE DEF new, cabs, own
  <2>6. q.op = "createLight" /\ q.cabs = cabs /\ q.new = new /\ q.own = own
    BY DEF Asked
  <2> HIDE DEF q
  <2>7. AskedOK(q)
    BY <2>2, <2>6 DEF AskedOK
  <2>8. AsksFor(q, circuit, light)
    BY <2>2, <2>3, <2>4, <2>6 DEF AsksFor
  <2> QED
    BY <1>a, <2>5, <2>7, <2>8, StartSound DEF q
<1>5. CASE UpdateLight(r)
  <2>1. PICK l \in Lights(light), n \in LightNumbers, w \in Powers, k \in CircuitIds :
          Start(r, "updateLight", Concerned(light[l].cab, {light[l].circuit, k}), l, light[l],
                [light[l] EXCEPT !.circuit = k, !.number = n, !.power = w], {},
                k \in CircuitsOf(circuit, light[l].cab))
    BY <1>5 DEF UpdateLight
  <2> DEFINE old == light[l]
             new == [old EXCEPT !.circuit = k, !.number = n, !.power = w]
             cabs == Concerned(old.cab, {old.circuit, k})
             own == k \in CircuitsOf(circuit, old.cab)
             q == Asked("updateLight", cabs, l, old, new, {}, own)
  <2>2. Start(r, "updateLight", cabs, l, old, new, {}, own)
    BY <2>1
  <2>3. l \in LightIds /\ old \in LightRow /\ light[l] = old
    BY <1>0 DEF Lights, LightTable
  <2>4. old.cab \in cabs /\ CircuitMine(old.circuit, cabs, circuit) /\ CircuitMine(k, cabs, circuit)
    BY DEF Concerned, CircuitMine
  <2> HIDE DEF old
  <2>5. new \in LightRow /\ new.cab = old.cab /\ new.circuit = k
    BY <2>3 DEF LightRow
  <2>6. own => k \in CircuitsOf(circuit, old.cab)
    OBVIOUS
  <2> HIDE DEF new, cabs, own
  <2>7. /\ q.op = "updateLight" /\ q.cabs = cabs /\ q.id = l /\ q.old = old /\ q.new = new
        /\ q.own = own
    BY DEF Asked
  <2> HIDE DEF q
  <2>8. AskedOK(q)
    BY <2>3, <2>5, <2>7 DEF AskedOK
  <2>9. AsksFor(q, circuit, light)
    BY <2>3, <2>4, <2>5, <2>6, <2>7 DEF AsksFor
  <2> QED
    BY <1>a, <2>2, <2>8, <2>9, StartSound DEF q
<1>6. CASE DeleteLight(r)
  <2>1. PICK l \in Lights(light) :
          Start(r, "deleteLight", Concerned(light[l].cab, {light[l].circuit}), l,
                light[l], NoRow, {}, TRUE)
    BY <1>6 DEF DeleteLight
  <2> DEFINE cabs == Concerned(light[l].cab, {light[l].circuit})
             q == Asked("deleteLight", cabs, l, light[l], NoRow, {}, TRUE)
  <2>2. /\ l \in LightIds /\ light[l] \in LightRow /\ light[l].cab \in cabs
        /\ CircuitMine(light[l].circuit, cabs, circuit)
    BY <1>0 DEF Lights, LightTable, Concerned, CircuitMine
  <2>3. Start(r, "deleteLight", cabs, l, light[l], NoRow, {}, TRUE)
    BY <2>1
  <2> HIDE DEF cabs
  <2>4. q.op = "deleteLight" /\ q.cabs = cabs /\ q.id = l /\ q.old = light[l]
    BY DEF Asked
  <2> HIDE DEF q
  <2>5. AskedOK(q) /\ AsksFor(q, circuit, light)
    BY <2>2, <2>4 DEF AskedOK, AsksFor
  <2> QED
    BY <1>a, <2>3, <2>5, StartSound DEF q
<1>7. CASE Import(r)
  <2>1. PICK file \in Files :
          Bulk(r, {file[i].cab : i \in DOMAIN file}, Imported(circuit, light, file))
    BY <1>7 DEF Import
  <2>2. Faithful(Imported(circuit, light, file), circuit, light, {file[i].cab : i \in DOMAIN file})
    BY <1>0, ImportedTypes
  <2> DEFINE cabs == {file[i].cab : i \in DOMAIN file}
             s == Imported(circuit, light, file)
  <2>3. Bulk(r, cabs, s) /\ Faithful(s, circuit, light, cabs)
    BY <2>1, <2>2
  <2> HIDE DEF cabs, s
  <2> QED
    BY <1>a, <2>3, BulkSound
<1>8. CASE Restore(r)
  <2>1. PICK c \in cabinets, d \in cabinets :
          \E file \in BackupFiles \cup Backups(circuit, light, d) :
            Bulk(r, {c}, Restored(circuit, light, c, file))
    BY <1>8 DEF Restore
  <2>2. PICK file \in BackupFiles \cup Backups(circuit, light, d) :
          Bulk(r, {c}, Restored(circuit, light, c, file))
    BY <2>1
  <2> DEFINE cabs == {c}
             s == Restored(circuit, light, c, file)
  <2>3. Bulk(r, cabs, s) /\ Faithful(s, circuit, light, cabs)
    BY <1>0, <2>2, RestoredTypes
  <2> HIDE DEF cabs, s
  <2> QED
    BY <1>a, <2>3, BulkSound
<1> QED
  BY <1>1, <1>2, <1>3, <1>4, <1>5, <1>6, <1>7, <1>8 DEF Arrival

LEMMA HandlerSound ==
  ASSUME Sound, Orderly, NEW r \in Requests, Handler(r)
  PROVE  Sound'
<1> DEFINE q == request[r]
           cabs == q.cabs
<1>0. /\ circuit \in CircuitTable /\ light \in LightTable
      /\ OwnCircuit /\ TypeInv /\ RequestOK(q)
  BY DEF Sound, TypeInv, TablesOK, RequestsOK
<1>a. TypeInv'
  BY HandlerTypes DEF Sound
<1>b. q # Idle /\ r \in InFlight
  <2>1. InsertCircuit(r) \/ WriteCircuit(r) \/ RemoveCircuit(r) => q.at = "checked"
    BY DEF InsertCircuit, WriteCircuit, RemoveCircuit, Checked
  <2>2. InsertLight(r) \/ WriteLight(r) \/ RemoveLight(r) => q.at = "checked"
    BY DEF InsertLight, WriteLight, RemoveLight, Checked
  <2>3. (SumTotals(r) => q.at = "committed") /\ (StoreTotals(r) => q.at = "summed")
    BY DEF SumTotals, StoreTotals
  <2>4. q.at \in {"checked", "committed", "summed"}
    <3> HIDE DEF q
    <3> QED
      BY <2>1, <2>2, <2>3 DEF Handler
  <2>5. q # Idle
    BY <2>4 DEF Idle
  <2> QED
    BY <2>5 DEF InFlight
<1>c. /\ Promised(q, circuit, light)
      /\ \A p \in InFlight : p # r => request[p].cabs \cap cabs = {}
  BY <1>b DEF Sound
<1>d. ASSUME NEW op, Checked(r, op)
      PROVE  /\ q.at \in {"idle", "checked"} /\ q.op = op
             /\ AskedOK(q) /\ AsksFor(q, circuit, light)
  BY <1>0, <1>c, <1>d DEF Checked, RequestOK, Idle, Promised
<1>e. ASSUME NEW k, Attached(light', k) = Attached(light, k),
             \A l \in Attached(light, k) : light'[l].power = light[l].power
      PROVE  Load(light', k) = Load(light, k)
  BY <1>e, SameLoad
<1>f. ASSUME Circuits(circuit') \subseteq Circuits(circuit)
      PROVE  \A p \in InFlight : p # r => Unnamed(request[p], circuit, circuit')
  BY <1>f DEF Unnamed
<1>g. cabs \subseteq cabs
  OBVIOUS
<1> HIDE DEF q, cabs
<1>1. CASE InsertCircuit(r)
  <2>1. q.at \in {"idle", "checked"} /\ q.new \in CircuitRow /\ q.new.cab \in cabs
    BY <1>1, <1>d DEF InsertCircuit, AskedOK, AsksFor, cabs
  <2>2. PICK k \in CircuitIds \ Circuits(circuit) :
          /\ NotNamed(r, {k})
          /\ circuit' = [circuit EXCEPT ![k] = q.new] /\ Committed(r, {k}, <<>>)
    BY <1>1 DEF InsertCircuit, q
  <2>3. /\ light' = light /\ stale' = stale /\ strays' = strays
        /\ circuit[k] = NoRow /\ circuit'[k] = q.new
        /\ \A j \in CircuitIds : j # k => circuit'[j] = circuit[j]
    BY <1>0, <1>1, <2>2 DEF InsertCircuit, CircuitTable, Circuits, histories
  <2> DEFINE held == <<>>
             todo == {k}
  <2>4. request' = [request EXCEPT ![r] = After(cabs, todo, held)]
    BY <2>2, CommittedLeaves DEF q, cabs
  <2>5. \A j \in todo : CircuitMine(j, cabs, circuit') /\ KnownTotal(j, held, circuit')
    BY <2>1, <2>3 DEF CircuitMine, KnownTotal
  <2>6. OwnCircuit'
    <3>1. \A l \in Lights(light) \ strays : light[l].circuit \in CircuitsOf(circuit', light[l].cab)
      BY <1>0, <2>3 DEF OwnCircuit, CircuitsOf, Circuits
    <3> QED
      BY <2>3, <3>1 DEF OwnCircuit
  <2>7. Within(cabs, circuit, light, circuit', light')
    BY <2>1, <2>3 DEF Within
  <2>8. \A j \in Circuits(circuit') \ todo :
          /\ j \in Circuits(circuit) /\ circuit'[j].total = circuit[j].total
          /\ Load(light', j) = Load(light, j)
          /\ j \in stale => j \in stale'
    BY <2>3 DEF Circuits
  <2>9. \A p \in InFlight : p # r => Unnamed(request[p], circuit, circuit')
    BY <2>2, <2>8 DEF NotNamed, Unnamed
  <2> HIDE DEF held, todo
  <2> QED
    BY <1>a, <1>c, <1>g, <2>1, <2>4, <2>5, <2>6, <2>7, <2>8, <2>9, CommitSound DEF q
<1>2. CASE WriteCircuit(r)
  <2>1. /\ q.at \in {"idle", "checked"} /\ q.id \in CircuitIds
        /\ q.old \in CircuitRow /\ q.new \in CircuitRow
        /\ CircuitHere(q.id, cabs, circuit) /\ circuit[q.id] = q.old
        /\ q.new.cab \in cabs /\ q.new.total = q.old.total
        /\ q.moved = IF q.new.cab # q.old.cab THEN Attached(light, q.id) ELSE {}
        /\ \A l \in Attached(light, q.id) : light[l].cab \in cabs
    BY <1>2, <1>d DEF WriteCircuit, AskedOK, AsksFor, cabs
  <2>2. q.moved \subseteq Attached(light, q.id) /\ q.moved \subseteq Lights(light)
    BY <2>1 DEF Attached
  <2>3. /\ circuit' = [circuit EXCEPT ![q.id] = Updated(@, q.old, q.new)]
        /\ light' = [l \in LightIds |->
             IF l \in q.moved THEN [light[l] EXCEPT !.cab = q.new.cab] ELSE light[l]]
        /\ Committed(r, {q.id}, [k \in {q.id} |-> q.old.total])
        /\ stale' = stale /\ strays' = strays \ q.moved
    BY <1>2, <2>1, <2>2 DEF WriteCircuit, q, CircuitHere
  <2>4. Updated(circuit[q.id], q.old, q.new) = q.new
    BY <2>1, UpdatedCircuit
  <2>5. /\ circuit'[q.id] = q.new
        /\ \A j \in CircuitIds : j # q.id => circuit'[j] = circuit[j]
    BY <1>0, <2>1, <2>3, <2>4 DEF CircuitTable
  <2>6. \A l \in LightIds : l \notin q.moved => light'[l] = light[l]
    BY <2>3
  <2>7. ASSUME NEW l \in q.moved
        PROVE  /\ light'[l] \in LightRow /\ light'[l].cab = q.new.cab
               /\ light'[l].circuit = q.id /\ light[l].circuit = q.id
               /\ light'[l].power = light[l].power
    <3>1. l \in LightIds /\ light[l] \in LightRow /\ light[l].circuit = q.id
      BY <1>0, <2>2 DEF Attached, Lights, LightTable
    <3>2. light'[l] = [light[l] EXCEPT !.cab = q.new.cab]
      BY <2>3, <3>1
    <3>3. q.new.cab \in Codes
      BY <2>1 DEF CircuitRow
    <3> QED
      BY <3>1, <3>2, <3>3 DEF LightRow
  <2>8. \A k : Attached(light', k) = Attached(light, k)
    BY <2>2, <2>6, <2>7, RowsAreRows DEF Attached, Lights
  <2>9. \A k : Load(light', k) = Load(light, k)
    <3> SUFFICES ASSUME NEW k PROVE Load(light', k) = Load(light, k)
      OBVIOUS
    <3>1. \A l \in Attached(light, k) : light'[l].power = light[l].power
      BY <2>6, <2>7 DEF Attached, Lights
    <3> QED
      BY <1>e, <2>8, <3>1
  <2> DEFINE held == [k \in {q.id} |-> q.old.total]
             todo == {q.id}
  <2>10. request' = [request EXCEPT ![r] = After(cabs, todo, held)]
    BY <2>3, CommittedLeaves DEF q, cabs
  <2>11. \A j \in todo : CircuitMine(j, cabs, circuit') /\ KnownTotal(j, held, circuit')
    BY <2>1, <2>5 DEF CircuitMine, KnownTotal
  <2>12. OwnCircuit'
    <3>1. ASSUME NEW l \in Lights(light') \ strays'
          PROVE  light'[l].circuit \in CircuitsOf(circuit', light'[l].cab)
      <4>1. CASE l \in q.moved
        BY <2>1, <2>5, <2>7, <4>1, RowsAreRows DEF CircuitsOf, Circuits
      <4>2. CASE l \notin q.moved
        <5>1. l \in LightIds /\ light'[l] = light[l] /\ l \in Lights(light) \ strays
          BY <2>3, <2>6, <3>1, <4>2 DEF Lights
        <5>2. light[l].circuit \in CircuitsOf(circuit, light[l].cab)
          BY <1>0, <5>1 DEF OwnCircuit
        <5>3. CASE light[l].circuit # q.id
          BY <2>5, <5>1, <5>2, <5>3 DEF CircuitsOf, Circuits
        <5>4. CASE light[l].circuit = q.id
          <6>1. l \in Attached(light, q.id)
            BY <5>1, <5>4 DEF Attached
          <6>2. q.new.cab = q.old.cab
            BY <2>1, <4>2, <6>1
          <6>3. light[l].cab = q.old.cab
            BY <2>1, <5>2, <5>4 DEF CircuitsOf
          <6>4. q.id \in CircuitsOf(circuit', q.new.cab)
            BY <2>1, <2>5, RowsAreRows DEF CircuitsOf, Circuits
          <6> QED
            BY <5>1, <5>4, <6>2, <6>3, <6>4
        <5> QED
          BY <5>3, <5>4
      <4> QED
        BY <4>1, <4>2
    <3> QED
      BY <3>1 DEF OwnCircuit
  <2>13. Within(cabs, circuit, light, circuit', light')
    <3>1. \A j \in CircuitIds :
            \/ circuit'[j] = circuit[j]
            \/ circuit[j].cab \in cabs /\ circuit'[j].cab \in cabs
      BY <2>1, <2>5 DEF CircuitHere
    <3>2. \A l \in q.moved : Inside(light[l], cabs, circuit) /\ Inside(light'[l], cabs, circuit')
      BY <2>1, <2>2, <2>5, <2>7 DEF Inside, CircuitMine, CircuitHere
    <3>3. \A l \in LightIds :
            \/ light'[l] = light[l]
            \/ Inside(light[l], cabs, circuit) /\ Inside(light'[l], cabs, circuit')
      BY <2>6, <3>2
    <3> QED
      BY <3>1, <3>3 DEF Within
  <2>14. \A j \in Circuits(circuit') \ todo :
          /\ j \in Circuits(circuit) /\ circuit'[j].total = circuit[j].total
          /\ Load(light', j) = Load(light, j)
          /\ j \in stale => j \in stale'
    BY <2>3, <2>5, <2>9 DEF Circuits
  <2>15. \A p \in InFlight : p # r => Unnamed(request[p], circuit, circuit')
    BY <1>f, <2>1, <2>14 DEF CircuitHere
  <2>16. q.at \in {"idle", "checked"}
    BY <2>1
  <2> HIDE DEF held, todo
  <2> QED
    BY <1>a, <1>c, <1>g, <2>10, <2>11, <2>12, <2>13, <2>14, <2>15, <2>16, CommitSound DEF q
<1>3. CASE RemoveCircuit(r)
  <2>1. /\ q.at \in {"idle", "checked"} /\ q.id \in CircuitIds
        /\ CircuitHere(q.id, cabs, circuit) /\ Attached(light, q.id) = {}
    BY <1>3, <1>d DEF RemoveCircuit, AskedOK, AsksFor, cabs
  <2>2. /\ light' = light /\ stale' = stale \ {q.id} /\ strays' = strays
        /\ circuit'[q.id] = NoRow
        /\ \A j \in CircuitIds : j # q.id => circuit'[j] = circuit[j]
        /\ Committed(r, {}, <<>>)
    BY <1>0, <1>3, <2>1 DEF RemoveCircuit, CircuitTable, q
  <2> DEFINE held == <<>>
             todo == {}
  <2>3. request' = [request EXCEPT ![r] = After(cabs, todo, held)]
    BY <2>2, CommittedLeaves DEF q, cabs
  <2>4. \A j \in todo : CircuitMine(j, cabs, circuit') /\ KnownTotal(j, held, circuit')
    OBVIOUS
  <2>5. OwnCircuit'
    <3>1. \A l \in Lights(light) : light[l].circuit # q.id
      BY <2>1 DEF Attached
    <3>2. \A l \in Lights(light) \ strays : light[l].circuit \in CircuitsOf(circuit', light[l].cab)
      BY <1>0, <2>2, <3>1 DEF OwnCircuit, CircuitsOf, Circuits
    <3> QED
      BY <2>2, <3>2 DEF OwnCircuit
  <2>6. Within(cabs, circuit, light, circuit', light')
    BY <2>1, <2>2 DEF Within, CircuitHere
  <2>7. \A j \in Circuits(circuit') \ todo :
          /\ j \in Circuits(circuit) /\ circuit'[j].total = circuit[j].total
          /\ Load(light', j) = Load(light, j)
          /\ j \in stale => j \in stale'
    BY <2>2 DEF Circuits
  <2>8. \A p \in InFlight : p # r => Unnamed(request[p], circuit, circuit')
    BY <1>f, <2>7
  <2> HIDE DEF held, todo
  <2> QED
    BY <1>a, <1>c, <1>g, <2>1, <2>3, <2>4, <2>5, <2>6, <2>7, <2>8, CommitSound DEF q
<1>4. CASE InsertLight(r)
  <2>1. /\ q.at \in {"idle", "checked"} /\ q.new \in LightRow
        /\ q.new.cab \in cabs /\ CircuitMine(q.new.circuit, cabs, circuit)
        /\ q.own => q.new.circuit \in CircuitsOf(circuit, q.new.cab)
    BY <1>4, <1>d DEF InsertLight, AskedOK, AsksFor, cabs
  <2>2. PICK n \in LightIds \ Lights(light) :
          light' = [light EXCEPT ![n] = q.new] /\ Hung(n, q.own)
    BY <1>4 DEF InsertLight, q
  <2>3. /\ circuit' = circuit /\ stale' = stale
        /\ light[n] = NoRow /\ light'[n] = q.new
        /\ \A l \in LightIds : l # n => light'[l] = light[l]
    BY <1>0, <1>4, <2>2 DEF InsertLight, LightTable, Lights
  <2> DEFINE held == <<>>
             todo == {q.new.circuit}
  <2>4. request' = [request EXCEPT ![r] = After(cabs, todo, held)]
    BY <1>4, CommittedLeaves DEF InsertLight, q, cabs
  <2>5. \A j \in todo : CircuitMine(j, cabs, circuit') /\ KnownTotal(j, held, circuit')
    BY <2>1, <2>3 DEF KnownTotal
  <2>6. OwnCircuit'
    <3>1. ASSUME NEW l \in Lights(light') \ strays'
          PROVE  light'[l].circuit \in CircuitsOf(circuit', light'[l].cab)
      <4>1. CASE l = n
        BY <2>1, <2>2, <2>3, <3>1, <4>1 DEF Hung
      <4>2. CASE l # n
        <5>1. l \in Lights(light) \ strays /\ light'[l] = light[l]
          BY <2>2, <2>3, <3>1, <4>2 DEF Hung, Lights
        <5> QED
          BY <1>0, <2>3, <5>1 DEF OwnCircuit
      <4> QED
        BY <4>1, <4>2
    <3> QED
      BY <3>1 DEF OwnCircuit
  <2>7. Within(cabs, circuit, light, circuit', light')
    BY <2>1, <2>3 DEF Within, Inside
  <2>8. ASSUME NEW j \in Circuits(circuit') \ todo
        PROVE  /\ j \in Circuits(circuit) /\ circuit'[j].total = circuit[j].total
               /\ Load(light', j) = Load(light, j)
               /\ j \in stale => j \in stale'
    <3>1. j # q.new.circuit
      OBVIOUS
    <3>2. Attached(light', j) = Attached(light, j)
      BY <2>3, <3>1 DEF Attached, Lights
    <3>3. \A l \in Attached(light, j) : light'[l].power = light[l].power
      BY <2>3 DEF Attached, Lights
    <3> QED
      BY <1>e, <2>3, <3>2, <3>3
  <2> HIDE DEF held, todo
  <2> QED
    BY <1>a, <1>c, <1>f, <1>g, <2>1, <2>3, <2>4, <2>5, <2>6, <2>7, <2>8, CommitSound DEF q
<1>5. CASE WriteLight(r)
  <2>1. /\ q.at \in {"idle", "checked"} /\ q.id \in LightIds
        /\ q.old \in LightRow /\ q.new \in LightRow
        /\ q.id \in Lights(light) /\ light[q.id] = q.old
        /\ q.old.cab \in cabs /\ q.new.cab = q.old.cab
        /\ CircuitMine(q.old.circuit, cabs, circuit) /\ CircuitMine(q.new.circuit, cabs, circuit)
        /\ q.own => q.new.circuit \in CircuitsOf(circuit, q.new.cab)
    BY <1>5, <1>d DEF WriteLight, AskedOK, AsksFor, cabs
  <2>2. Updated(light[q.id], q.old, q.new) = q.new
    BY <2>1, UpdatedLight
  <2>3. /\ light' = [light EXCEPT ![q.id] = q.new]
        /\ Committed(r, {q.new.circuit, q.old.circuit}, <<>>)
        /\ circuit' = circuit /\ stale' = stale /\ Hung(q.id, q.own)
    BY <1>5, <2>1, <2>2 DEF WriteLight, q
  <2>4. /\ light'[q.id] = q.new
        /\ \A l \in LightIds : l # q.id => light'[l] = light[l]
    BY <1>0, <2>1, <2>3 DEF LightTable
  <2> DEFINE held == <<>>
             todo == {q.new.circuit, q.old.circuit}
  <2>5. request' = [request EXCEPT ![r] = After(cabs, todo, held)]
    BY <2>3, CommittedLeaves DEF q, cabs
  <2>6. \A j \in todo : CircuitMine(j, cabs, circuit') /\ KnownTotal(j, held, circuit')
    BY <2>1, <2>3 DEF KnownTotal
  <2>7. OwnCircuit'
    <3>1. ASSUME NEW l \in Lights(light') \ strays'
          PROVE  light'[l].circuit \in CircuitsOf(circuit', light'[l].cab)
      <4>1. CASE l = q.id
        BY <2>1, <2>3, <2>4, <3>1, <4>1 DEF Hung
      <4>2. CASE l # q.id
        <5>1. l \in Lights(light) \ strays /\ light'[l] = light[l]
          BY <2>3, <2>4, <3>1, <4>2 DEF Hung, Lights
        <5> QED
          BY <1>0, <2>3, <5>1 DEF OwnCircuit
      <4> QED
        BY <4>1, <4>2
    <3> QED
      BY <3>1 DEF OwnCircuit
  <2>8. Within(cabs, circuit, light, circuit', light')
    BY <2>1, <2>3, <2>4 DEF Within, Inside
  <2>9. ASSUME NEW j \in Circuits(circuit') \ todo
        PROVE  /\ j \in Circuits(circuit) /\ circuit'[j].total = circuit[j].total
               /\ Load(light', j) = Load(light, j)
               /\ j \in stale => j \in stale'
    <3>1. j # q.new.circuit /\ j # q.old.circuit
      OBVIOUS
    <3>2. Attached(light', j) = Attached(light, j)
      BY <2>1, <2>4, <3>1 DEF Attached, Lights
    <3>3. \A l \in Attached(light, j) : light'[l].power = light[l].power
      BY <2>1, <2>4, <3>1 DEF Attached, Lights
    <3> QED
      BY <1>e, <2>3, <3>2, <3>3
  <2>10. \A p \in InFlight : p # r => Unnamed(request[p], circuit, circuit')
    BY <1>f, <2>3
  <2>11. q.at \in {"idle", "checked"}
    BY <2>1
  <2> HIDE DEF held, todo
  <2> QED
    BY <1>a, <1>c, <1>g, <2>5, <2>6, <2>7, <2>8, <2>9, <2>10, <2>11, CommitSound DEF q
<1>6. CASE RemoveLight(r)
  <2>1. /\ q.at \in {"idle", "checked"} /\ q.id \in LightIds
        /\ q.id \in Lights(light) /\ light[q.id] = q.old /\ q.old.cab \in cabs
        /\ CircuitMine(q.old.circuit, cabs, circuit)
    BY <1>6, <1>d DEF RemoveLight, AskedOK, AsksFor, cabs
  <2>2. /\ circuit' = circuit /\ stale' = stale /\ strays' = strays \ {q.id}
        /\ light'[q.id] = NoRow
        /\ \A l \in LightIds : l # q.id => light'[l] = light[l]
    BY <1>0, <1>6, <2>1 DEF RemoveLight, Hung, LightTable, q
  <2> DEFINE held == <<>>
             todo == {q.old.circuit}
  <2>3. request' = [request EXCEPT ![r] = After(cabs, todo, held)]
    BY <1>6, CommittedLeaves DEF RemoveLight, q, cabs
  <2>4. \A j \in todo : CircuitMine(j, cabs, circuit') /\ KnownTotal(j, held, circuit')
    BY <2>1, <2>2 DEF KnownTotal
  <2>5. OwnCircuit'
    <3>1. ASSUME NEW l \in Lights(light') \ strays'
          PROVE  light'[l].circuit \in CircuitsOf(circuit', light'[l].cab)
      <4>1. l \in Lights(light) \ strays /\ light'[l] = light[l]
        BY <2>2, <3>1 DEF Lights
      <4> QED
        BY <1>0, <2>2, <4>1 DEF OwnCircuit
    <3> QED
      BY <3>1 DEF OwnCircuit
  <2>6. Within(cabs, circuit, light, circuit', light')
    BY <2>1, <2>2 DEF Within, Inside
  <2>7. ASSUME NEW j \in Circuits(circuit') \ todo
        PROVE  /\ j \in Circuits(circuit) /\ circuit'[j].total = circuit[j].total
               /\ Load(light', j) = Load(light, j)
               /\ j \in stale => j \in stale'
    <3>1. j # q.old.circuit
      OBVIOUS
    <3>2. Attached(light', j) = Attached(light, j)
      BY <2>1, <2>2, <3>1 DEF Attached, Lights
    <3>3. \A l \in Attached(light, j) : light'[l].power = light[l].power
      BY <2>1, <2>2, <3>1 DEF Attached, Lights
    <3> QED
      BY <1>e, <2>2, <3>2, <3>3
  <2> HIDE DEF held, todo
  <2> QED
    BY <1>a, <1>c, <1>f, <1>g, <2>1, <2>2, <2>3, <2>4, <2>5, <2>6, <2>7, CommitSound DEF q
<1>7. CASE SumTotals(r)
  <2>1. q.at = "committed" /\ q.todo \subseteq CircuitIds
    BY <1>0, <1>7 DEF SumTotals, RequestOK, Idle, q
  <2>2. \A k \in q.todo : CircuitMine(k, cabs, circuit) /\ KnownTotal(k, q.held, circuit)
    BY <1>c, <2>1 DEF Promised, cabs
  <2> DEFINE here == q.todo \cap Circuits(circuit)
             loaded == [k \in here |-> IF k \in DOMAIN q.held THEN q.held[k] ELSE circuit[k].total]
             sums == [k \in here |-> Load(light, k)]
             after == [at |-> "summed", cabs |-> q.cabs, todo |-> q.todo, sums |-> sums,
                       loaded |-> loaded]
             none == {}
  <2>3. /\ request' = [request EXCEPT ![r] = after]
        /\ circuit' = circuit /\ light' = light /\ stale' = stale /\ strays' = strays
    BY <1>7 DEF SumTotals, q, tables, histories
  <2>4. \A k \in here : k \in Circuits(circuit) /\ CircuitHere(k, cabs, circuit)
    BY <2>2 DEF CircuitHere, CircuitMine
  <2>5. /\ DOMAIN sums = q.todo \cap Circuits(circuit)
        /\ \A k \in DOMAIN sums : /\ CircuitHere(k, cabs, circuit)
                                  /\ sums[k] = Load(light, k) /\ loaded[k] = circuit[k].total
    BY <2>2, <2>4 DEF KnownTotal
  <2> HIDE DEF here, sums, loaded
  <2>6. /\ after.at = "summed" /\ after.cabs = cabs /\ after.todo = q.todo
        /\ after.sums = sums /\ after.loaded = loaded
    BY DEF cabs
  <2> HIDE DEF after
  <2>7. Promised(after, circuit', light')
    BY <2>3, <2>5, <2>6 DEF Promised
  <2>8. \A p \in InFlight : p # r => request[p].cabs \cap after.cabs = {}
    BY <1>c, <2>6
  <2>9. Within(none, circuit, light, circuit', light')
    BY <2>3, NothingTouched
  <2>10. \A p \in InFlight : p # r => request[p].cabs \cap none = {}
    OBVIOUS
  <2>11. OwnCircuit' /\ \A p \in InFlight : p # r => Unnamed(request[p], circuit, circuit')
    BY <1>0, <1>f, <2>3 DEF OwnCircuit
  <2>12. ASSUME NEW k \in Circuits(circuit')
         PROVE  \/ k \in stale'
                \/ after # Idle /\ after.at # "checked" /\ k \in after.todo
                \/ circuit'[k].total = Load(light', k)
                \/ /\ k \in Circuits(circuit) /\ circuit'[k].total = circuit[k].total
                   /\ Load(light', k) = Load(light, k)
                   /\ k \in stale => k \in stale'
                   /\ request[r].at \in {"committed", "summed"} => k \notin request[r].todo
    <3>1. after # Idle
      BY <2>6 DEF Idle
    <3>2. CASE k \in q.todo
      BY <2>6, <3>1, <3>2
    <3>3. CASE k \notin q.todo
      BY <2>3, <3>3 DEF q
    <3> QED
      BY <3>2, <3>3
  <2> HIDE DEF none
  <2> QED
    BY <1>a, <2>3, <2>7, <2>8, <2>9, <2>10, <2>11, <2>12, OneRequest
<1>8. CASE StoreTotals(r)
  <2> DEFINE dirty == {k \in DOMAIN q.sums : q.sums[k] # q.loaded[k]}
             stored == IF dirty \subseteq Circuits(circuit) THEN q.todo ELSE {}
  <2>1. /\ q.at = "summed"
        /\ circuit' = [k \in CircuitIds |->
             IF k \in dirty \cap stored
             THEN [circuit[k] EXCEPT !.total = q.sums[k]] ELSE circuit[k]]
        /\ stale' = stale \ stored
        /\ request' = [request EXCEPT ![r] = Idle]
        /\ light' = light /\ strays' = strays
    BY <1>8 DEF StoreTotals, q
  <2> DEFINE here == q.todo \cap Circuits(circuit)
  <2>2. /\ DOMAIN q.sums = here
        /\ \A k \in here : /\ CircuitHere(k, cabs, circuit)
                           /\ q.sums[k] = Load(light, k) /\ q.loaded[k] = circuit[k].total
    BY <1>c, <2>1 DEF Promised, cabs
  <2>3. stored = q.todo
    BY <2>2
  <2>4. ASSUME NEW k \in here
        PROVE  /\ circuit'[k] \in CircuitRow /\ circuit'[k].cab = circuit[k].cab
               /\ circuit'[k].total = Load(light, k)
    <3>1. k \in CircuitIds /\ circuit[k] \in CircuitRow
      BY <1>0 DEF Circuits, CircuitTable
    <3>2. CASE k \in dirty
      <4>1. circuit'[k] = [circuit[k] EXCEPT !.total = q.sums[k]]
        BY <2>1, <2>3, <3>1, <3>2
      <4>2. q.sums[k] \in Totals
        BY <1>0, <2>2, LoadInRange
      <4> QED
        BY <2>2, <3>1, <4>1, <4>2 DEF CircuitRow
    <3>3. CASE k \notin dirty
      <4>1. circuit'[k] = circuit[k]
        BY <2>1, <3>1, <3>3
      <4>2. q.sums[k] = q.loaded[k]
        BY <2>2, <3>3
      <4> QED
        BY <2>2, <3>1, <4>1, <4>2
    <3> QED
      BY <3>2, <3>3
  <2>5. \A k \in CircuitIds : k \notin here => circuit'[k] = circuit[k]
    BY <2>1, <2>2
  <2>6. /\ \A k \in Circuits(circuit') : k \in Circuits(circuit)
        /\ \A k \in Circuits(circuit) :
             k \in Circuits(circuit') /\ circuit'[k].cab = circuit[k].cab
    BY <2>4, <2>5, RowsAreRows DEF Circuits
  <2>7. OwnCircuit' /\ \A p \in InFlight : p # r => Unnamed(request[p], circuit, circuit')
    <3>1. \A l \in Lights(light) \ strays : light[l].circuit \in CircuitsOf(circuit', light[l].cab)
      BY <1>0, <2>6 DEF OwnCircuit, CircuitsOf
    <3> QED
      BY <1>f, <2>1, <2>6, <3>1 DEF OwnCircuit
  <2>8. Within(cabs, circuit, light, circuit', light')
    <3>1. \A k \in CircuitIds :
            \/ circuit'[k] = circuit[k]
            \/ circuit[k].cab \in cabs /\ circuit'[k].cab \in cabs
      BY <2>2, <2>4, <2>5 DEF CircuitHere
    <3> QED
      BY <2>1, <3>1 DEF Within
  <2> DEFINE after == Idle
  <2>9. request' = [request EXCEPT ![r] = after]
    BY <2>1
  <2>10. ASSUME NEW k \in Circuits(circuit')
         PROVE  \/ k \in stale'
                \/ after # Idle /\ after.at # "checked" /\ k \in after.todo
                \/ circuit'[k].total = Load(light', k)
                \/ /\ k \in Circuits(circuit) /\ circuit'[k].total = circuit[k].total
                   /\ Load(light', k) = Load(light, k)
                   /\ k \in stale => k \in stale'
                   /\ request[r].at \in {"committed", "summed"} => k \notin request[r].todo
    <3>1. CASE k \in q.todo
      BY <2>1, <2>4, <2>6, <3>1
    <3>2. CASE k \notin q.todo
      <4>1. circuit'[k] = circuit[k] /\ (k \in stale => k \in stale')
        BY <2>1, <2>3, <2>5, <3>2 DEF Circuits
      <4> QED
        BY <2>1, <2>6, <3>2, <4>1 DEF q
    <3> QED
      BY <3>1, <3>2
  <2>11. after = Idle
    OBVIOUS
  <2> HIDE DEF after
  <2> QED
    BY <1>a, <1>c, <2>7, <2>8, <2>9, <2>10, <2>11, OneRequest
<1> QED
  BY <1>1, <1>2, <1>3, <1>4, <1>5, <1>6, <1>7, <1>8 DEF Handler

(* The deletion of cabinets takes their circuits and light points along,    *)
(* and nothing of any other cabinet.                                        *)
LEMMA DropSound ==
  ASSUME Sound, TypeInv', Orderly, NEW cs, Drop(cs)
  PROVE  Sound'
<1> DEFINE ds == cs \cup Feeding(cs)
<1>1. /\ \A p \in InFlight : request[p].cabs \cap ds = {}
      /\ circuit' = [k \in CircuitIds |->
           IF circuit[k] # NoRow /\ circuit[k].cab \in cs THEN NoRow ELSE circuit[k]]
      /\ light' = [l \in LightIds |->
           IF light[l] # NoRow /\ light[l].cab \in cs THEN NoRow ELSE light[l]]
      /\ stale' = (stale \cap Circuits(circuit')) \cup LeftBehind(circuit', light', {})
      /\ strays' = strays \ Changed(light')
      /\ request' = request
  BY DEF Drop
<1>2. /\ \A k \in Circuits(circuit') :
           k \in Circuits(circuit) /\ circuit'[k] = circuit[k]
      /\ \A k \in Circuits(circuit) : circuit[k].cab \notin cs =>
           k \in Circuits(circuit') /\ circuit'[k] = circuit[k]
  BY <1>1 DEF Circuits
<1>3. \A l \in Lights(light') :
        l \in Lights(light) /\ light'[l] = light[l] /\ light[l].cab \notin cs
  BY <1>1 DEF Lights
<1>4. OwnCircuit'
  <2>1. ASSUME NEW l \in Lights(light') \ strays'
        PROVE  light'[l].circuit \in CircuitsOf(circuit', light'[l].cab)
    <3>1. l \in Lights(light) \ strays /\ light'[l] = light[l] /\ light[l].cab \notin cs
      BY <1>1, <1>3, <2>1 DEF Changed
    <3>2. light[l].circuit \in CircuitsOf(circuit, light[l].cab)
      BY <3>1 DEF Sound, OwnCircuit
    <3> QED
      BY <1>2, <3>1, <3>2 DEF CircuitsOf
  <2> QED
    BY <2>1 DEF OwnCircuit
<1>5. Within(ds, circuit, light, circuit', light')
  <2>1. \A k \in CircuitIds :
          \/ circuit'[k] = circuit[k]
          \/ circuit[k].cab \in ds /\ circuit'[k] = NoRow
    BY <1>1
  <2>2. ASSUME NEW l \in LightIds, light'[l] # light[l]
        PROVE  Inside(light[l], ds, circuit) /\ Inside(light'[l], ds, circuit')
    <3>1. light[l] # NoRow /\ light[l].cab \in cs /\ light'[l] = NoRow
      BY <1>1, <2>2
    <3>2. ASSUME light[l].circuit \in Circuits(circuit)
          PROVE  circuit[light[l].circuit].cab \in Feeding(cs)
      <4>1. l \in {m \in Lights(light) :
                     light[m].cab \in cs /\ light[m].circuit \in Circuits(circuit)}
        BY <3>1, <3>2 DEF Lights
      <4> QED
        BY <4>1 DEF Feeding
    <3> QED
      BY <3>1, <3>2 DEF Inside, CircuitMine
  <2> HIDE DEF ds
  <2> QED
    BY <2>1, <2>2 DEF Within
<1>6. InFlight' = InFlight
  BY <1>1 DEF InFlight
<1> HIDE DEF ds
<1>7. ASSUME NEW p \in InFlight' PROVE Promised(request'[p], circuit', light')
  <2> DEFINE w == request[p]
  <2>1. /\ w.cabs \cap ds = {} /\ RequestOK(w) /\ Promised(w, circuit, light)
        /\ request'[p] = w
    BY <1>1, <1>6 DEF Sound, TypeInv, RequestsOK, InFlight
  <2> HIDE DEF w
  <2>2. Promised(w, circuit', light')
    BY <1>2, <1>5, <2>1, Undisturbed
  <2> QED
    BY <2>1, <2>2
<1>8. ASSUME NEW k \in Circuits(circuit') PROVE Exact(k)'
  <2>1. k \in Circuits(circuit) /\ circuit'[k] = circuit[k]
    BY <1>2
  <2>2. CASE Attached(light', k) = Attached(light, k)
    <3>1. Load(light', k) = Load(light, k)
      BY <1>3, <2>2, SameLoad DEF Attached
    <3>2. (k \in stale => k \in stale') /\ (Summing(k)' <=> Summing(k))
      BY <1>1, <1>6 DEF Summing
    <3> QED
      BY <2>1, <3>1, <3>2 DEF Sound, Exact
  <2>3. CASE Attached(light', k) # Attached(light, k)
    <3>1. k \in LeftBehind(circuit', light', {})
      BY <2>1, <2>3 DEF LeftBehind
    <3> QED
      BY <1>1, <3>1 DEF Exact
  <2> QED
    BY <2>2, <2>3
<1> QED
  BY <1>1, <1>4, <1>6, <1>7, <1>8 DEF Sound

LEMMA CabinetSound ==
  ASSUME Sound, Orderly, CreateCabinet \/ DeleteCabinet \/ Wipe \/ Crash
  PROVE  Sound'
<1>0. TypeInv'
  BY CabinetTypes DEF Sound
<1>1. CASE CreateCabinet
  <2>1. /\ circuit' = circuit /\ light' = light /\ request' = request
        /\ stale' = stale /\ strays' = strays
    BY <1>1 DEF CreateCabinet, histories
  <2>2. InFlight' = InFlight
    BY <2>1 DEF InFlight
  <2>3. OwnCircuit' /\ \A p \in InFlight' : Promised(request'[p], circuit', light')
    BY <2>1, <2>2 DEF Sound, OwnCircuit
  <2>4. ASSUME NEW k \in Circuits(circuit') PROVE Exact(k)'
    BY <2>1, <2>2 DEF Sound, Exact, Summing
  <2> QED
    BY <1>0, <2>1, <2>2, <2>3, <2>4 DEF Sound
<1>2. CASE DeleteCabinet
  <2>1. PICK c \in cabinets : Drop({c})
    BY <1>2 DEF DeleteCabinet
  <2> DEFINE cs == {c}
  <2>2. Drop(cs)
    BY <2>1
  <2> HIDE DEF cs
  <2> QED
    BY <1>0, <2>2, DropSound
<1>3. CASE Wipe
  <2>1. /\ circuit' = [k \in CircuitIds |-> NoRow] /\ light' = [l \in LightIds |-> NoRow]
        /\ request' = request /\ InFlight = {}
    BY <1>3 DEF Wipe
  <2>2. InFlight' = {} /\ Circuits(circuit') = {} /\ Lights(light') = {}
    BY <2>1 DEF InFlight, Circuits, Lights
  <2> QED
    BY <1>0, <2>2 DEF Sound, OwnCircuit
<1>4. CASE Crash
  <2>1. /\ request' = [r \in Requests |-> Idle]
        /\ circuit' = circuit /\ light' = light /\ strays' = strays
        /\ stale' = stale \cup (Circuits(circuit) \cap
             UNION {request[r].todo : r \in {q \in InFlight : request[q].at # "checked"}})
    BY <1>4 DEF Crash, tables
  <2>2. InFlight' = {} /\ OwnCircuit'
    BY <2>1 DEF InFlight, Sound, OwnCircuit
  <2>3. ASSUME NEW k \in Circuits(circuit') PROVE Exact(k)'
    <3>1. k \in Circuits(circuit) /\ (Summing(k) => k \in stale')
      BY <2>1 DEF Summing
    <3> QED
      BY <2>1, <3>1 DEF Sound, Exact
  <2> QED
    BY <1>0, <2>2, <2>3 DEF Sound
<1> QED
  BY <1>1, <1>2, <1>3, <1>4

LEMMA StepSound == Orderly /\ Sound /\ [Next]_vars => Sound'
<1> SUFFICES ASSUME Orderly, Sound, [Next]_vars PROVE Sound'
  OBVIOUS
<1>1. CASE UNCHANGED vars
  <2>1. /\ circuit' = circuit /\ light' = light /\ request' = request
        /\ stale' = stale /\ strays' = strays
    BY <1>1 DEF vars, tables, histories
  <2>2. InFlight' = InFlight
    BY <2>1 DEF InFlight
  <2>3. TypeInv'
    BY StepTypes DEF Sound
  <2>4. OwnCircuit' /\ \A p \in InFlight' : Promised(request'[p], circuit', light')
    BY <2>1, <2>2 DEF Sound, OwnCircuit
  <2>5. ASSUME NEW k \in Circuits(circuit') PROVE Exact(k)'
    BY <2>1, <2>2 DEF Sound, Exact, Summing
  <2> QED
    BY <2>1, <2>2, <2>3, <2>4, <2>5 DEF Sound
<1>2. CASE Next
  BY <1>2, ArrivalSound, HandlerSound, CabinetSound DEF Next
<1> QED
  BY <1>1, <1>2

(* When requests in flight concern different cabinets, a light point hangs  *)
(* from an existing circuit of its own cabinet after any number of changes, *)
(* moves, imports, restores, deletions and crashes, unless the client that  *)
(* created or last hung it named another: neither topology.py's             *)
(* create_lightpoint nor its update_lightpoint looks at the circuit named.  *)
THEOREM LightsHang == Orderly => (Spec => []OwnCircuit)
<1> SUFFICES ASSUME Orderly PROVE Spec => []OwnCircuit
  OBVIOUS
<1>1. Init => Sound
  BY InitSound
<1>2. Sound /\ [Next]_vars => Sound'
  BY StepSound
<1>3. Sound => OwnCircuit
  BY SoundClaims
<1> QED
  BY <1>1, <1>2, <1>3, PTL DEF Spec

(* When requests in flight concern different cabinets, and whatever circuits*)
(* clients name, the total stored for a circuit is what its light points    *)
(* draw, unless a request is still to store it or a step that does not      *)
(* recompute has taken light points away: _recompute_circuit_power after    *)
(* every change.                                                            *)
THEOREM TotalsAreExact == Orderly => (Spec => []TotalsExact)
<1> SUFFICES ASSUME Orderly PROVE Spec => []TotalsExact
  OBVIOUS
<1>1. Init => Sound
  BY InitSound
<1>2. Sound /\ [Next]_vars => Sound'
  BY StepSound
<1>3. Sound => TotalsExact
  BY SoundClaims
<1> QED
  BY <1>1, <1>2, <1>3, PTL DEF Spec

-----------------------------------------------------------------------------
(* What an import finds, and what it leaves                                 *)

(* The row's circuit and light point are there, with the row's data.        *)
HasCircuit(row, circ, k) == k \in CircuitsOf(circ, row.cab) /\ circ[k].number = row.circuit
HasLight(row, lit, k, l) ==
  /\ l \in LightsOf(lit, row.cab) /\ lit[l].number = row.light.number
  /\ lit[l].circuit = k /\ lit[l].power = row.light.power
Found(row, circ, lit) ==
  row.cab \in cabinets =>
    \E k : /\ HasCircuit(row, circ, k)
           /\ row.light # NoRow => \E l : HasLight(row, lit, k, l)

(* The light point that a light row names, and the row it makes of it.      *)
Names(row, r) == row.light # NoRow /\ row.cab = r.cab /\ row.light.number = r.number
Entered(c, k, entry) ==
  [cab |-> c, circuit |-> k, number |-> entry.number, power |-> entry.power]

(* The three things that can become of a row's circuit ...                  *)
LEMMA CircuitCases ==
  ASSUME NEW s \in SessionType, NEW c \in Codes, NEW n \in CircuitNumbers, NEW t,
         t = WithCircuit(s, c, n)
  PROVE  \/ NumberedCircuits(s, c, n) # {} /\ t = s
         \/ /\ t.full /\ t.circ = s.circ /\ t.lit = s.lit /\ t.pending = s.pending
            /\ t.hit = s.hit
         \/ /\ NumberedCircuits(s, c, n) = {} /\ t.lit = s.lit /\ t.pending = {}
            /\ \E k \in CircuitIds :
                 /\ s.circ[k] = NoRow
                 /\ t.circ = [s.circ EXCEPT ![k] = [cab |-> c, number |-> n, total |-> 0]]
<1> DEFINE free == CircuitIds \ Circuits(s.circ)
           row == [cab |-> c, number |-> n, total |-> 0]
           k0 == Min(free)
<1>1. s = [circ |-> s.circ, lit |-> s.lit, pending |-> s.pending, hit |-> s.hit, full |-> s.full]
  BY DEF SessionType
<1>2. CASE NumberedCircuits(s, c, n) # {}
  BY <1>2 DEF WithCircuit
<1>3. CASE NumberedCircuits(s, c, n) = {} /\ free = {}
  <2>1. t = [s EXCEPT !.full = TRUE]
    BY <1>3 DEF WithCircuit
  <2>2. t.full /\ t.circ = s.circ /\ t.lit = s.lit /\ t.pending = s.pending /\ t.hit = s.hit
    BY <1>1, <2>1
  <2> QED
    BY <2>2
<1>4. CASE NumberedCircuits(s, c, n) = {} /\ free # {}
  <2>1. t = [s EXCEPT !.circ[k0] = row, !.pending = {}]
    BY <1>4 DEF WithCircuit
  <2>2. k0 \in free
    BY <1>4, IdsAssumption, MinIsElement
  <2>3. k0 \in CircuitIds /\ s.circ[k0] = NoRow
    BY <2>2 DEF Circuits
  <2> HIDE DEF row, k0, free
  <2>4. t.circ = [s.circ EXCEPT ![k0] = row] /\ t.lit = s.lit /\ t.pending = {}
    BY <1>1, <2>1
  <2> QED
    BY <1>4, <2>3, <2>4 DEF row
<1> QED
  BY <1>2, <1>3, <1>4

(* A light point rewritten by an entry is the entry, entered on circuit k.  *)
LEMMA Rewritten ==
  ASSUME NEW r \in LightRow, NEW k, NEW entry, r.number = entry.number
  PROVE  [r EXCEPT !.circuit = k, !.power = entry.power] = Entered(r.cab, k, entry)
<1>1. \A w : [r EXCEPT !.circuit = k, !.power = w]
               \in [cab : {r.cab}, circuit : {k}, number : {r.number}, power : {w}]
  BY DEF LightRow
<1>2. ASSUME NEW a, NEW m, NEW w,
             NEW q \in [cab : {a}, circuit : {k}, number : {m}, power : {w}]
      PROVE  q = [cab |-> a, circuit |-> k, number |-> m, power |-> w]
  OBVIOUS
<1>3. \A w : [r EXCEPT !.circuit = k, !.power = w]
             = [cab |-> r.cab, circuit |-> k, number |-> r.number, power |-> w]
  BY <1>1, <1>2
<1> QED
  BY <1>3 DEF Entered

(* ... and of its light point.                                              *)
NoMore(s, t) == t.full /\ t.circ = s.circ /\ t.lit = s.lit /\ t.pending = s.pending
LightEntered(s, t, c, n, entry) ==
  /\ ~s.full /\ ~t.full /\ t.circ = s.circ
  /\ \E k \in NumberedCircuits(s, c, n), l \in LightIds :
       /\ t.lit = [s.lit EXCEPT ![l] = Entered(c, k, entry)]
       /\ \/ l \in NumberedLights(s, c, entry.number) /\ t.pending = s.pending
          \/ /\ NumberedLights(s, c, entry.number) = {} /\ s.lit[l] = NoRow
             /\ t.pending = s.pending \cup {l}

(* A light row either no longer fits or ends as one light point of the      *)
(* circuit it names.                                                        *)
LEMMA LightCases ==
  ASSUME NEW s \in SessionType, NEW c \in Codes, NEW n, NEW entry \in LightEntry, NEW t,
         t = WithLight(s, c, n, entry), s.full \/ NumberedCircuits(s, c, n) # {}
  PROVE  NoMore(s, t) \/ LightEntered(s, t, c, n, entry)
<1> DEFINE free == LightIds \ Lights(s.lit)
           same == NumberedLights(s, c, entry.number)
           k == Min(NumberedCircuits(s, c, n))
           row == Entered(c, k, entry)
<1>1. s.lit \in LightTable /\ s.full \in BOOLEAN
      /\ s = [circ |-> s.circ, lit |-> s.lit, pending |-> s.pending, hit |-> s.hit, full |-> s.full]
  BY DEF SessionType
<1>2. CASE s.full \/ (same = {} /\ free = {})
  <2>1. t = [s EXCEPT !.full = TRUE]
    BY <1>2 DEF WithLight
  <2>2. t.full /\ t.circ = s.circ /\ t.lit = s.lit /\ t.pending = s.pending
    BY <1>1, <2>1
  <2> QED
    BY <2>2 DEF NoMore
<1>3. ASSUME ~s.full PROVE k \in NumberedCircuits(s, c, n)
  <2>1. NumberedCircuits(s, c, n) # {} /\ NumberedCircuits(s, c, n) \subseteq CircuitIds
    BY <1>3 DEF NumberedCircuits, CircuitsOf, Circuits
  <2> QED
    BY <2>1, IdsAssumption, MinIsElement
<1>4. CASE ~s.full /\ same # {}
  <2> DEFINE l0 == Min(same)
  <2>1. t = [s EXCEPT !.lit[l0].circuit = k, !.lit[l0].power = entry.power,
                      !.hit = @ \cup {k}]
    BY <1>4 DEF WithLight
  <2>2. l0 \in same
    <3>1. same \subseteq Nat
      BY IdsAssumption DEF NumberedLights, LightsOf, Lights
    <3> QED
      BY <1>4, <3>1, MinIsElement
  <2>3. /\ l0 \in LightIds /\ s.lit[l0] \in LightRow /\ s.lit[l0].cab = c
        /\ s.lit[l0].number = entry.number
    BY <1>1, <2>2 DEF NumberedLights, LightsOf, Lights, LightTable
  <2>4. k \in NumberedCircuits(s, c, n)
    BY <1>3, <1>4
  <2> HIDE DEF k, l0, same, free
  <2>5. [s.lit[l0] EXCEPT !.circuit = k, !.power = entry.power] = row
    BY <2>3, Rewritten
  <2>6. [s.lit EXCEPT ![l0].circuit = k, ![l0].power = entry.power] = [s.lit EXCEPT ![l0] = row]
    BY <1>1, <2>3, <2>5 DEF LightTable
  <2> HIDE DEF row
  <2>7. t.lit = [s.lit EXCEPT ![l0] = row] /\ t.pending = s.pending /\ t.circ = s.circ
        /\ ~t.full
    BY <1>1, <1>4, <2>1, <2>6
  <2> QED
    BY <1>4, <2>2, <2>3, <2>4, <2>7 DEF row, same, LightEntered
<1>5. CASE ~s.full /\ same = {} /\ free # {}
  <2> DEFINE l0 == Min(free)
  <2>1. t = [s EXCEPT !.lit[l0] = row, !.pending = @ \cup {l0}, !.hit = @ \cup {k}]
    BY <1>5 DEF WithLight, Entered
  <2>2. l0 \in free
    BY <1>5, IdsAssumption, MinIsElement
  <2>3. l0 \in LightIds /\ s.lit[l0] = NoRow
    BY <2>2 DEF Lights
  <2>4. k \in NumberedCircuits(s, c, n)
    BY <1>3, <1>5
  <2> HIDE DEF k, l0, same, free, row
  <2>5. t.lit = [s.lit EXCEPT ![l0] = row] /\ t.pending = s.pending \cup {l0} /\ t.circ = s.circ
        /\ ~t.full
    BY <1>1, <1>5, <2>1
  <2> QED
    BY <1>5, <2>3, <2>4, <2>5 DEF row, same, LightEntered
<1> QED
  BY <1>1, <1>2, <1>4, <1>5

(* A row that is found is read without an effect, where numbers are unique. *)
OneEach(rows, ids) == \A a, b \in ids : rows[a].number = rows[b].number => a = b

(* Unambiguous tables have one row for each number.                         *)
LEMMA UnambiguousRows ==
  ASSUME NEW circ, NEW lit, NEW c
  PROVE  Unambiguous(circ, lit, c)
         <=> OneEach(circ, CircuitsOf(circ, c)) /\ OneEach(lit, LightsOf(lit, c))
BY DEF Unambiguous, OneEach

(* A row that is in place already leaves the session as it is.              *)
LEMMA FoundRow ==
  ASSUME NEW s \in SessionType, s.pending = {}, ~s.full, NEW row \in FileRow,
         Unambiguous(s.circ, s.lit, row.cab), Found(row, s.circ, s.lit),
         NEW t, t = ImportRow(s, row)
  PROVE  t \in SessionType /\ t.circ = s.circ /\ t.lit = s.lit /\ t.pending = {} /\ ~t.full
<1> DEFINE c == row.cab
           n == row.circuit
<1>1. c \in Codes /\ n \in CircuitNumbers /\ (row.light = NoRow \/ row.light \in LightEntry)
  BY DEF FileRow
<1>2. CASE c \notin cabinets
  BY <1>2 DEF ImportRow
<1>3. CASE c \in cabinets
  <2>1. PICK k : /\ HasCircuit(row, s.circ, k)
                 /\ row.light # NoRow => \E l : HasLight(row, s.lit, k, l)
    BY <1>3 DEF Found
  <2>2. \A j \in NumberedCircuits(s, c, n) : j = k
    BY <2>1 DEF HasCircuit, NumberedCircuits, Unambiguous
  <2>3. NumberedCircuits(s, c, n) # {}
    BY <2>1 DEF HasCircuit, NumberedCircuits
  <2>4. WithCircuit(s, c, n) = s
    BY <2>3 DEF WithCircuit
  <2>5. CASE row.light = NoRow
    BY <1>3, <2>4, <2>5 DEF ImportRow
  <2>6. CASE row.light # NoRow
    <3> DEFINE entry == row.light
    <3>1. entry \in LightEntry /\ t = WithLight(s, c, n, entry)
      BY <1>1, <1>3, <2>4, <2>6 DEF ImportRow
    <3>2. PICK l : HasLight(row, s.lit, k, l)
      BY <2>1, <2>6
    <3>3. l \in NumberedLights(s, c, entry.number)
      BY <3>2 DEF HasLight, NumberedLights
    <3>4. \A m \in NumberedLights(s, c, entry.number) : m = l
      BY <3>2 DEF HasLight, NumberedLights, Unambiguous
    <3>5. s.lit[l] = Entered(c, k, entry) /\ l \in LightIds /\ s.lit \in LightTable
      <4>1. s.lit[l] \in LightRow /\ l \in LightIds /\ s.lit \in LightTable
        BY <3>3 DEF SessionType, LightTable, NumberedLights, LightsOf, Lights
      <4>2. /\ s.lit[l].cab = c /\ s.lit[l].number = entry.number
            /\ s.lit[l].circuit = k /\ s.lit[l].power = entry.power
        BY <3>2 DEF HasLight, LightsOf
      <4> HIDE DEF entry, c
      <4> QED
        BY <4>1, <4>2 DEF LightRow, Entered
    <3>a. t \in SessionType
      BY <1>1, <2>3, <3>1, LightAdded
    <3>b. ~t.full /\ t.circ = s.circ /\ t.pending = s.pending /\ t.lit = s.lit
      <4>1. NumberedLights(s, c, entry.number) # {}
        BY <3>3
      <4>2. ~(s.full \/ (NumberedLights(s, c, entry.number) = {}
                          /\ LightIds \ Lights(s.lit) = {}))
        BY <4>1
      <4>3. Min(NumberedLights(s, c, entry.number)) = l
        <5>1. NumberedLights(s, c, entry.number) \subseteq Nat
          BY IdsAssumption DEF NumberedLights, LightsOf, Lights
        <5> QED
          BY <3>4, <4>1, <5>1, MinIsElement
      <4>4. Min(NumberedCircuits(s, c, n)) = k
        <5>1. NumberedCircuits(s, c, n) \subseteq Nat
          BY IdsAssumption DEF NumberedCircuits, CircuitsOf, Circuits
        <5> QED
          BY <2>2, <2>3, <5>1, MinIsElement
      <4>5. t = [s EXCEPT !.lit[l].circuit = k, !.lit[l].power = entry.power,
                          !.hit = @ \cup {k}]
        BY <3>1, <4>1, <4>2, <4>3, <4>4 DEF WithLight
      <4>6. s = [circ |-> s.circ, lit |-> s.lit, pending |-> s.pending, hit |-> s.hit,
                 full |-> s.full]
        BY DEF SessionType
      <4>7. [s.lit EXCEPT ![l].circuit = k, ![l].power = entry.power] = s.lit
        <5>1. [s.lit[l] EXCEPT !.circuit = k, !.power = entry.power] = s.lit[l]
          <6>1. s.lit[l] \in LightRow /\ s.lit[l].cab = c /\ s.lit[l].number = entry.number
            BY <3>3, <3>5 DEF LightTable, NumberedLights, LightsOf, Lights
          <6>2. s.lit[l] = Entered(s.lit[l].cab, k, entry)
            BY <3>5, <6>1
          <6> DEFINE r == s.lit[l]
          <6> HIDE DEF entry, r, c
          <6>3. [r EXCEPT !.circuit = k, !.power = entry.power] = Entered(r.cab, k, entry)
            <7>1. r \in LightRow /\ r.number = entry.number
              BY <6>1 DEF r
            <7> QED
              BY <7>1, Rewritten
          <6> QED
            BY <6>2, <6>3 DEF r
        <5> HIDE DEF entry
        <5> QED
          BY <3>5, <5>1 DEF LightTable
      <4> HIDE DEF entry
      <4> QED
        BY <4>5, <4>6, <4>7
    <3> QED
      BY <3>a, <3>b
  <2> QED
    BY <2>5, <2>6
<1> QED
  BY <1>2, <1>3

(* An import of rows that are all in place changes neither table.           *)
LEMMA FoundFile ==
  ASSUME NEW circ \in CircuitTable, NEW lit \in LightTable, NEW file \in Seq(FileRow),
         \A i \in 1..Len(file) : /\ Found(file[i], circ, lit)
                                 /\ Unambiguous(circ, lit, file[i].cab)
  PROVE  Imported(circ, lit, file).circ = circ /\ Imported(circ, lit, file).lit = lit
<1> DEFINE Same(s) == /\ s \in SessionType /\ s.circ = circ /\ s.lit = lit
                      /\ s.pending = {} /\ ~s.full
<1>1. Len(file) \in Nat /\ \A i \in 1..Len(file) : file[i] \in FileRow
  BY LenProperties, ElementOfSeq
<1>2. PICK f : /\ f[0] = Session(circ, lit)
               /\ \A i \in 1..Len(file) : f[i] = ImportRow(f[i - 1], file[i])
               /\ Imported(circ, lit, file) = f[Len(file)]
  BY <1>1, ImportedRuns
<1>a. Same(Session(circ, lit))
  BY DEF Session, SessionType
<1> DEFINE Bad == {i \in 0..Len(file) : ~Same(f[i])}
<1>3. Bad = {}
  <2> SUFFICES ASSUME Bad # {} PROVE FALSE
    OBVIOUS
  <2>1. Bad \in SUBSET Nat
    BY <1>1
  <2>2. PICK m \in Bad : \A y \in Bad : m <= y
    BY <2>1, LeastElement
  <2>3. m \in 0..Len(file) /\ ~Same(f[m])
    OBVIOUS
  <2>4. m # 0
    BY <1>2, <1>a, <2>3
  <2>5. m \in 1..Len(file) /\ m - 1 \in 0..Len(file) /\ m - 1 \notin Bad
    BY <1>1, <2>2, <2>3, <2>4
  <2>6. Same(f[m - 1])
    BY <2>5
  <2>7. f[m] = ImportRow(f[m - 1], file[m]) /\ file[m] \in FileRow
        /\ Found(file[m], circ, lit) /\ Unambiguous(circ, lit, file[m].cab)
    BY <1>1, <1>2, <2>5
  <2>8. Same(f[m])
    BY <2>6, <2>7, FoundRow
  <2> QED
    BY <2>3, <2>8
<1>4. Len(file) \in 0..Len(file)
  BY <1>1
<1> QED
  BY <1>2, <1>3, <1>4

-----------------------------------------------------------------------------
(* An import, row by row: what is unique stays unique unless the file has   *)
(* several rows for it, what is new is named by a row that was read, and    *)
(* every row read is found if no two rows name the same light point.        *)

DistinctLights(file) == \A c \in Codes, n \in LightNumbers : ~Repeats(file, c, n)

OneUnlessRepeated(lit, c, file) ==
  \A a, b \in LightsOf(lit, c) :
    lit[a].number = lit[b].number => a = b \/ Repeats(file, c, lit[a].number)

LEMMA DistinctStaysOne ==
  ASSUME NEW file, DistinctLights(file), NEW lit \in LightTable, NEW c \in Codes,
         OneUnlessRepeated(lit, c, file)
  PROVE  OneEach(lit, LightsOf(lit, c))
<1>1. \A l \in LightsOf(lit, c) : lit[l].number \in LightNumbers
  BY DEF LightsOf, Lights, LightTable, LightRow
<1> QED
  BY <1>1 DEF OneEach, OneUnlessRepeated, DistinctLights

CircuitsRead(s, circ, file, n) ==
  /\ \A c \in Codes :
       OneEach(circ, CircuitsOf(circ, c)) => OneEach(s.circ, CircuitsOf(s.circ, c))
  /\ \A k \in Circuits(s.circ) :
       \/ s.circ[k] = circ[k]
       \/ \E j \in 1..n : file[j].cab = s.circ[k].cab /\ file[j].circuit = s.circ[k].number

(* The light points that are pending are all of rows that were read.        *)
LightsRead(s, lit, file, n) ==
  /\ \A c \in Codes : OneEach(lit, LightsOf(lit, c)) => OneUnlessRepeated(s.lit, c, file)
  /\ \A l \in Lights(s.lit) : s.lit[l] = lit[l] \/ \E j \in 1..n : Names(file[j], s.lit[l])
  /\ \A l \in s.pending : l \in Lights(s.lit) /\ \E j \in 1..n : Names(file[j], s.lit[l])

FoundAll(s, file, n) ==
  DistinctLights(file) /\ ~s.full => \A j \in 1..n : Found(file[j], s.circ, s.lit)

(* Reading the next row, the circuits stay accounted for.                   *)
LEMMA CircuitRead ==
  ASSUME NEW s \in SessionType, NEW circ, NEW file, NEW n \in Nat \ {0},
         CircuitsRead(s, circ, file, n - 1), file[n] \in FileRow,
         NEW t, t = WithCircuit(s, file[n].cab, file[n].circuit)
  PROVE  /\ CircuitsRead(t, circ, file, n)
         /\ t.pending \subseteq s.pending
         /\ \A k \in Circuits(s.circ) : k \in Circuits(t.circ) /\ t.circ[k] = s.circ[k]
<1> DEFINE c == file[n].cab
           m == file[n].circuit
           row == [cab |-> c, number |-> m, total |-> 0]
<1>1. c \in Codes /\ m \in CircuitNumbers
  BY DEF FileRow
<1>2. 1..(n - 1) \subseteq 1..n /\ n \in 1..n
  OBVIOUS
<1>3. CASE t.circ = s.circ /\ t.pending = s.pending
  <2>1. CircuitsRead(t, circ, file, n)
    BY <1>2, <1>3 DEF CircuitsRead
  <2> QED
    BY <1>3, <2>1
<1>4. CASE /\ NumberedCircuits(s, c, m) = {} /\ t.lit = s.lit /\ t.pending = {}
           /\ \E k \in CircuitIds : s.circ[k] = NoRow /\ t.circ = [s.circ EXCEPT ![k] = row]
  <2>1. PICK k0 \in CircuitIds : s.circ[k0] = NoRow /\ t.circ = [s.circ EXCEPT ![k0] = row]
    BY <1>4
  <2>2. row \in CircuitRow /\ row.cab = c /\ row.number = m
    BY <1>1, WattsFinite DEF CircuitRow, Totals
  <2> HIDE DEF row
  <2>3. t.circ[k0] = row /\ \A k \in CircuitIds : k # k0 => t.circ[k] = s.circ[k]
    BY <2>1 DEF SessionType, CircuitTable
  <2>4. Circuits(t.circ) = Circuits(s.circ) \cup {k0} /\ k0 \notin Circuits(s.circ)
    BY <2>1, <2>2, <2>3, RowsAreRows DEF Circuits
  <2>5. \A k \in Circuits(s.circ) : k \in Circuits(t.circ) /\ t.circ[k] = s.circ[k]
    BY <2>3, <2>4 DEF Circuits
  <2>6. \A d : CircuitsOf(t.circ, d) = CircuitsOf(s.circ, d) \cup (IF d = c THEN {k0} ELSE {})
    BY <2>2, <2>3, <2>4, <2>5 DEF CircuitsOf
  <2>7. \A k \in CircuitsOf(s.circ, c) : s.circ[k].number # m
    BY <1>4 DEF NumberedCircuits
  <2>8. ASSUME NEW d \in Codes, OneEach(s.circ, CircuitsOf(s.circ, d))
        PROVE  OneEach(t.circ, CircuitsOf(t.circ, d))
    <3>1. \A k \in CircuitsOf(s.circ, d) : t.circ[k] = s.circ[k]
      BY <2>5 DEF CircuitsOf
    <3>2. CASE d # c
      BY <2>6, <2>8, <3>1, <3>2 DEF OneEach
    <3>3. CASE d = c
      <4>1. \A k \in CircuitsOf(s.circ, d) : t.circ[k].number # m
        BY <2>7, <3>1, <3>3
      <4>2. CircuitsOf(t.circ, d) = CircuitsOf(s.circ, d) \cup {k0} /\ t.circ[k0].number = m
        BY <2>2, <2>3, <2>6, <3>3
      <4> QED
        BY <2>8, <3>1, <4>1, <4>2 DEF OneEach
    <3> QED
      BY <3>2, <3>3
  <2>9. ASSUME NEW k \in Circuits(t.circ)
        PROVE  \/ t.circ[k] = circ[k]
               \/ \E j \in 1..n : file[j].cab = t.circ[k].cab /\ file[j].circuit = t.circ[k].number
    <3>1. CASE k = k0
      BY <1>2, <2>2, <2>3, <3>1
    <3>2. CASE k # k0
      <4>1. k \in Circuits(s.circ) /\ t.circ[k] = s.circ[k]
        BY <2>4, <2>5, <3>2
      <4> QED
        BY <1>2, <4>1 DEF CircuitsRead
    <3> QED
      BY <3>1, <3>2
  <2>10. CircuitsRead(t, circ, file, n)
    BY <2>8, <2>9 DEF CircuitsRead
  <2> QED
    BY <1>4, <2>5, <2>10
<1>5. t = WithCircuit(s, c, m)
  OBVIOUS
<1> HIDE DEF c, m
<1>6. \/ NumberedCircuits(s, c, m) # {} /\ t = s
      \/ /\ t.full /\ t.circ = s.circ /\ t.lit = s.lit /\ t.pending = s.pending
         /\ t.hit = s.hit
      \/ /\ NumberedCircuits(s, c, m) = {} /\ t.lit = s.lit /\ t.pending = {}
         /\ \E k \in CircuitIds : s.circ[k] = NoRow /\ t.circ = [s.circ EXCEPT ![k] = row]
  BY <1>1, <1>5, CircuitCases
<1> HIDE DEF row
<1> QED
  BY <1>3, <1>4, <1>6

(* A light row that is read.                                                *)
LEMMA LightRead ==
  ASSUME NEW s \in SessionType, NEW lit, NEW file, NEW n \in 1..Len(file), Len(file) \in Nat,
         DOMAIN file = 1..Len(file), file[n] \in FileRow, file[n].light # NoRow,
         LightsRead(s, lit, file, n - 1), FoundAll(s, file, n - 1),
         s.full \/ NumberedCircuits(s, file[n].cab, file[n].circuit) # {},
         NEW t, t = WithLight(s, file[n].cab, file[n].circuit, file[n].light)
  PROVE  LightsRead(t, lit, file, n) /\ FoundAll(t, file, n)
<1> DEFINE row == file[n]
           c == row.cab
           m == row.circuit
           entry == row.light
<1>1. c \in Codes /\ entry \in LightEntry
  BY DEF FileRow
<1>2. 1..(n - 1) \subseteq 1..n /\ n \in 1..n /\ 1..n = (1..(n - 1)) \cup {n} /\ n \notin 1..(n - 1)
      /\ 1..n \subseteq DOMAIN file
  OBVIOUS
<1>3. CASE NoMore(s, t)
  BY <1>2, <1>3 DEF NoMore, LightsRead, FoundAll
<1>4. ASSUME ~s.full, t.circ = s.circ,
             NEW k \in NumberedCircuits(s, c, m), NEW l0 \in LightIds,
             t.lit = [s.lit EXCEPT ![l0] = Entered(c, k, entry)],
             \/ l0 \in NumberedLights(s, c, entry.number) /\ t.pending = s.pending
             \/ /\ NumberedLights(s, c, entry.number) = {} /\ s.lit[l0] = NoRow
                /\ t.pending = s.pending \cup {l0}
      PROVE  LightsRead(t, lit, file, n) /\ FoundAll(t, file, n)
  <2> DEFINE new == Entered(c, k, entry)
  <2>1. /\ new \in LightRow /\ new.cab = c /\ new.number = entry.number
        /\ new.circuit = k /\ new.power = entry.power
    BY <1>1 DEF NumberedCircuits, CircuitsOf, Circuits, Entered, LightEntry, LightRow
  <2>2. HasCircuit(row, s.circ, k)
    BY DEF HasCircuit, NumberedCircuits
  <2>3. s.lit \in LightTable /\ s.pending \subseteq LightIds
    BY DEF SessionType
  <2>a. Names(row, new)
    BY <2>1 DEF Names
  <2> HIDE DEF new
  <2>4. t.lit = [s.lit EXCEPT ![l0] = new]
    BY <1>4 DEF new
  <2>5. t.lit[l0] = new /\ \A l \in LightIds : l # l0 => t.lit[l] = s.lit[l]
    BY <2>3, <2>4 DEF LightTable
  <2>6. Lights(t.lit) = Lights(s.lit) \cup {l0}
    BY <2>1, <2>5, RowsAreRows DEF Lights
  <2>7. s.lit[l0] = NoRow \/ (s.lit[l0].cab = c /\ s.lit[l0].number = entry.number)
    BY <1>4 DEF NumberedLights, LightsOf
  <2>b. entry.number \in LightNumbers
    BY <1>1 DEF LightEntry
  (* Another row that names the light point makes the file repeat it ...    *)
  <2>c. ASSUME NEW j \in 1..(n - 1), file[j].light # NoRow, file[j].cab = c,
               file[j].light.number = entry.number
        PROVE  Repeats(file, c, entry.number)
    BY <1>2, <2>c DEF Repeats
  (* ... as it has to if another light point of the cabinet has the number. *)
  <2>8. ASSUME NEW l \in LightsOf(s.lit, c), l # l0, s.lit[l].number = entry.number,
               OneUnlessRepeated(s.lit, c, file)
        PROVE  Repeats(file, c, entry.number)
    <3>1. CASE l0 \in NumberedLights(s, c, entry.number)
      <4>1. l0 \in LightsOf(s.lit, c) /\ s.lit[l0].number = entry.number
        BY <3>1 DEF NumberedLights
      <4>2. \A e : e = entry.number => (Repeats(file, c, s.lit[l].number) <=> Repeats(file, c, e))
        BY <2>8
      <4> QED
        BY <2>8, <4>1, <4>2 DEF OneUnlessRepeated
    <3>2. CASE NumberedLights(s, c, entry.number) = {}
      <4>1. l \in s.pending
        BY <2>8, <3>2 DEF NumberedLights
      <4>2. PICK j \in 1..(n - 1) : Names(file[j], s.lit[l])
        BY <4>1 DEF LightsRead
      <4>3. file[j].light # NoRow /\ file[j].cab = c /\ file[j].light.number = entry.number
        BY <2>8, <4>2 DEF Names, LightsOf
      <4> QED
        BY <2>c, <4>3
    <3> QED
      BY <1>4, <3>1, <3>2
  <2>9. ASSUME NEW d \in Codes, OneUnlessRepeated(s.lit, d, file)
        PROVE  OneUnlessRepeated(t.lit, d, file)
    <3>1. \A l \in LightsOf(t.lit, d) : l # l0 => l \in LightsOf(s.lit, d) /\ t.lit[l] = s.lit[l]
      BY <2>5, <2>6 DEF LightsOf, Lights
    <3>2. l0 \in LightsOf(t.lit, d) => d = c
      BY <2>1, <2>5 DEF LightsOf
    <3>3. ASSUME NEW l \in LightsOf(t.lit, d), l0 \in LightsOf(t.lit, d), l # l0,
                 t.lit[l].number = entry.number
          PROVE  Repeats(file, d, entry.number)
      <4>1. d = c /\ l \in LightsOf(s.lit, c) /\ s.lit[l].number = entry.number
        BY <3>1, <3>2, <3>3
      <4>2. OneUnlessRepeated(s.lit, c, file)
        BY <2>9, <4>1
      <4> QED
        BY <2>8, <3>3, <4>1, <4>2
    <3>4. SUFFICES ASSUME NEW a \in LightsOf(t.lit, d), NEW b \in LightsOf(t.lit, d),
                          t.lit[a].number = t.lit[b].number, a # b
                   PROVE  Repeats(file, d, t.lit[a].number)
      BY DEF OneUnlessRepeated
    <3>5. CASE a # l0 /\ b # l0
      <4>1. /\ a \in LightsOf(s.lit, d) /\ b \in LightsOf(s.lit, d)
            /\ t.lit[a] = s.lit[a] /\ t.lit[b] = s.lit[b]
        BY <3>1, <3>5
      <4> QED
        BY <2>9, <3>4, <4>1 DEF OneUnlessRepeated
    <3>6. CASE a = l0 \/ b = l0
      <4>1. t.lit[a].number = entry.number /\ t.lit[b].number = entry.number
        BY <2>1, <2>5, <3>4, <3>6
      <4>2. Repeats(file, d, entry.number)
        BY <3>3, <3>4, <3>6, <4>1
      <4> QED
        BY <4>1, <4>2
    <3> QED
      BY <3>5, <3>6
  <2>10. ASSUME NEW l \in Lights(t.lit)
         PROVE  t.lit[l] = lit[l] \/ \E j \in 1..n : Names(file[j], t.lit[l])
    <3>1. CASE l = l0
      BY <1>2, <2>5, <2>a, <3>1
    <3>2. CASE l # l0
      <4>1. l \in Lights(s.lit) /\ t.lit[l] = s.lit[l]
        BY <2>5, <2>6, <3>2 DEF Lights
      <4> QED
        BY <1>2, <4>1 DEF LightsRead
    <3> QED
      BY <3>1, <3>2
  <2>11. ASSUME NEW l \in t.pending
         PROVE  l \in Lights(t.lit) /\ \E j \in 1..n : Names(file[j], t.lit[l])
    <3>1. CASE l = l0
      BY <1>2, <2>5, <2>6, <2>a, <3>1
    <3>2. CASE l # l0
      <4>1. l \in s.pending /\ t.lit[l] = s.lit[l]
        BY <1>4, <2>3, <2>5, <3>2
      <4> QED
        BY <1>2, <2>6, <4>1 DEF LightsRead
    <3> QED
      BY <3>1, <3>2
  <2>12. LightsRead(t, lit, file, n)
    BY <2>9, <2>10, <2>11 DEF LightsRead
  <2>13. Found(row, t.circ, t.lit)
    <3>1. HasLight(row, t.lit, k, l0)
      BY <2>1, <2>5, <2>6 DEF HasLight, LightsOf
    <3> QED
      BY <1>4, <2>2, <3>1 DEF Found
  <2>14. ASSUME NEW j \in 1..(n - 1), DistinctLights(file) PROVE Found(file[j], t.circ, t.lit)
    <3> SUFFICES ASSUME file[j].cab \in cabinets
                 PROVE  \E h : /\ HasCircuit(file[j], t.circ, h)
                               /\ file[j].light # NoRow => \E l : HasLight(file[j], t.lit, h, l)
      BY DEF Found
    <3>1. PICK h : /\ HasCircuit(file[j], s.circ, h)
                   /\ file[j].light # NoRow => \E l : HasLight(file[j], s.lit, h, l)
      BY <1>4, <2>14 DEF FoundAll, Found
    <3>2. ASSUME file[j].light # NoRow PROVE \E l : HasLight(file[j], t.lit, h, l)
      <4>1. PICK l : HasLight(file[j], s.lit, h, l)
        BY <3>1, <3>2
      <4>2. l # l0
        <5> SUFFICES ASSUME l = l0 PROVE FALSE
          OBVIOUS
        <5>1. file[j].cab = c /\ file[j].light.number = entry.number
          BY <2>7, <4>1 DEF HasLight, LightsOf, Lights
        <5>2. Repeats(file, c, entry.number)
          BY <2>c, <3>2, <5>1
        <5> QED
          BY <1>1, <2>14, <2>b, <5>2 DEF DistinctLights
      <4>3. HasLight(file[j], t.lit, h, l)
        BY <2>5, <2>6, <4>1, <4>2 DEF HasLight, LightsOf, Lights
      <4> QED
        BY <4>3
    <3> QED
      BY <1>4, <3>1, <3>2
  <2> QED
    BY <1>2, <2>12, <2>13, <2>14 DEF FoundAll
<1> HIDE DEF row, entry, c, m
<1>5. s.full \/ NumberedCircuits(s, c, m) # {}
  BY DEF c, row, m
<1>6. t = WithLight(s, c, m, entry)
  BY DEF c, row, entry, m
<1>7. NoMore(s, t) \/ LightEntered(s, t, c, m, entry)
  BY <1>1, <1>5, <1>6, LightCases
<1>8. CASE LightEntered(s, t, c, m, entry)
  <2>1. ~s.full /\ t.circ = s.circ
    BY <1>8 DEF LightEntered
  <2>2. PICK k \in NumberedCircuits(s, c, m), l \in LightIds :
          /\ t.lit = [s.lit EXCEPT ![l] = Entered(c, k, entry)]
          /\ \/ l \in NumberedLights(s, c, entry.number) /\ t.pending = s.pending
             \/ /\ NumberedLights(s, c, entry.number) = {} /\ s.lit[l] = NoRow
                /\ t.pending = s.pending \cup {l}
    BY <1>8 DEF LightEntered
  <2> QED
    BY <1>4, <2>1, <2>2
<1> QED
  BY <1>3, <1>7, <1>8

(* What an import has done to its session when it has read n rows.          *)
Read(s, circ, lit, file, n) ==
  /\ s \in SessionType
  /\ CircuitsRead(s, circ, file, n) /\ LightsRead(s, lit, file, n) /\ FoundAll(s, file, n)

(* Every row read keeps what the import has promised of the rows before.    *)
LEMMA RowRead ==
  ASSUME NEW s, NEW circ, NEW lit, NEW file, NEW n \in 1..Len(file), Len(file) \in Nat,
         DOMAIN file = 1..Len(file), file[n] \in FileRow,
         Read(s, circ, lit, file, n - 1), NEW u, u = ImportRow(s, file[n])
  PROVE  Read(u, circ, lit, file, n)
<1> DEFINE row == file[n]
           c == row.cab
           m == row.circuit
           t == WithCircuit(s, c, m)
<1>1. c \in Codes /\ m \in CircuitNumbers /\ (row.light = NoRow \/ row.light \in LightEntry)
  BY DEF FileRow
<1>2. /\ s \in SessionType /\ CircuitsRead(s, circ, file, n - 1)
      /\ LightsRead(s, lit, file, n - 1) /\ FoundAll(s, file, n - 1)
  BY DEF Read
<1>3. n \in Nat \ {0} /\ 1..n = (1..(n - 1)) \cup {n}
  OBVIOUS
<1>4. CASE c \notin cabinets
  <2>1. u = s
    BY <1>4 DEF ImportRow
  <2>2. Found(row, s.circ, s.lit)
    BY <1>4 DEF Found
  <2>3. FoundAll(s, file, n)
    BY <1>2, <1>3, <2>2 DEF FoundAll
  <2>4. CircuitsRead(s, circ, file, n) /\ LightsRead(s, lit, file, n)
    BY <1>2, <1>3 DEF CircuitsRead, LightsRead
  <2> QED
    BY <1>2, <2>1, <2>3, <2>4 DEF Read
<1>5. CASE c \in cabinets
  <2>1. /\ CircuitsRead(t, circ, file, n) /\ t.pending \subseteq s.pending
        /\ \A k \in Circuits(s.circ) : k \in Circuits(t.circ) /\ t.circ[k] = s.circ[k]
    BY <1>2, <1>3, CircuitRead
  <2>2. /\ t \in SessionType /\ t.lit = s.lit
        /\ ~t.full => ~s.full /\ NumberedCircuits(t, c, m) # {}
    <3>1. t = WithCircuit(s, c, m) /\ s \in SessionType /\ c \in Codes /\ m \in CircuitNumbers
      BY <1>1, <1>2
    <3> HIDE DEF t, c, m
    <3>2. OneAdded(s, t, c, m)
      BY <3>1, CircuitAdded
    <3> QED
      BY <3>2 DEF OneAdded
  <2>3. u = IF row.light = NoRow THEN t ELSE WithLight(t, c, m, row.light)
    BY <1>5 DEF ImportRow
  <2> HIDE DEF t
  <2>4. LightsRead(t, lit, file, n - 1)
    BY <1>2, <2>1, <2>2 DEF LightsRead
  <2>5. \A r, h : HasCircuit(r, s.circ, h) => HasCircuit(r, t.circ, h)
    BY <2>1 DEF HasCircuit, CircuitsOf
  <2>6. FoundAll(t, file, n - 1)
    BY <1>2, <2>2, <2>5 DEF FoundAll, Found
  <2>7. CASE row.light = NoRow
    <3>1. ~t.full => Found(row, t.circ, t.lit)
      BY <2>2, <2>7 DEF Found, HasCircuit, NumberedCircuits
    <3>2. FoundAll(t, file, n)
      BY <1>3, <2>6, <3>1 DEF FoundAll
    <3>3. LightsRead(t, lit, file, n)
      BY <1>3, <2>4 DEF LightsRead
    <3> QED
      BY <2>1, <2>2, <2>3, <2>7, <3>2, <3>3 DEF Read
  <2>8. CASE row.light # NoRow
    <3>1. u = WithLight(t, c, m, row.light) /\ row.light \in LightEntry
      BY <1>1, <2>3, <2>8
    <3>2. t.full \/ NumberedCircuits(t, c, m) # {}
      BY <2>2
    <3>3. u \in SessionType /\ u.circ = t.circ
      BY <1>1, <2>2, <3>1, <3>2, LightAdded
    <3>4. LightsRead(u, lit, file, n) /\ FoundAll(u, file, n)
      BY <2>2, <2>4, <2>6, <2>8, <3>1, <3>2, LightRead
    <3>5. CircuitsRead(u, circ, file, n)
      BY <2>1, <3>3 DEF CircuitsRead
    <3> QED
      BY <3>3, <3>4, <3>5 DEF Read
  <2> QED
    BY <2>7, <2>8
<1> QED
  BY <1>4, <1>5

(* At the end of a file, what it promised holds of every row of it.         *)
LEMMA FileRead ==
  ASSUME NEW circ \in CircuitTable, NEW lit \in LightTable, NEW file \in Seq(FileRow),
         NEW s, s = Imported(circ, lit, file)
  PROVE  Read(s, circ, lit, file, Len(file))
<1>1. /\ Len(file) \in Nat /\ DOMAIN file = 1..Len(file)
      /\ \A i \in 1..Len(file) : file[i] \in FileRow
  BY LenProperties, ElementOfSeq
<1>2. PICK f : /\ f[0] = Session(circ, lit)
               /\ \A i \in 1..Len(file) : f[i] = ImportRow(f[i - 1], file[i])
               /\ Imported(circ, lit, file) = f[Len(file)]
  BY <1>1, ImportedRuns
<1>3. Read(Session(circ, lit), circ, lit, file, 0)
  <2>1. Session(circ, lit) \in SessionType
    BY DEF Session, SessionType
  <2>2. Session(circ, lit).circ = circ /\ Session(circ, lit).lit = lit
        /\ Session(circ, lit).pending = {}
    BY DEF Session
  <2>3. \A c \in Codes : OneEach(lit, LightsOf(lit, c)) => OneUnlessRepeated(lit, c, file)
    BY DEF OneEach, OneUnlessRepeated
  <2> QED
    BY <2>1, <2>2, <2>3 DEF Read, CircuitsRead, LightsRead, FoundAll
<1> DEFINE Bad == {i \in 0..Len(file) : ~Read(f[i], circ, lit, file, i)}
<1>4. Bad = {}
  <2> SUFFICES ASSUME Bad # {} PROVE FALSE
    OBVIOUS
  <2>1. Bad \in SUBSET Nat
    BY <1>1
  <2>2. PICK m \in Bad : \A y \in Bad : m <= y
    BY <2>1, LeastElement
  <2>3. m \in 0..Len(file) /\ ~Read(f[m], circ, lit, file, m)
    OBVIOUS
  <2>4. m # 0
    BY <1>2, <1>3, <2>3
  <2>5. m \in 1..Len(file) /\ m - 1 \in 0..Len(file) /\ m - 1 \notin Bad
    BY <1>1, <2>2, <2>3, <2>4
  <2>6. Read(f[m - 1], circ, lit, file, m - 1)
    BY <2>5
  <2>7. f[m] = ImportRow(f[m - 1], file[m]) /\ file[m] \in FileRow
    BY <1>1, <1>2, <2>5
  <2> QED
    BY <1>1, <2>3, <2>5, <2>6, <2>7, RowRead
<1>5. Len(file) \in 0..Len(file)
  BY <1>1
<1> QED
  BY <1>2, <1>4, <1>5

-----------------------------------------------------------------------------
(* Import                                                                   *)

(* Imports are upserts in every well-typed state, requests in flight or     *)
(* not.                                                                     *)
LEMMA TypesUpsert == TypeInv => ImportUpserts
<1> SUFFICES ASSUME TypeInv, NEW file \in Files, ~Imported(circuit, light, file).full
             PROVE  LET s == Imported(circuit, light, file)
                        again == Imported(s.circ, s.lit, file)
                    IN /\ Circuits(circuit) \subseteq Circuits(s.circ)
                       /\ Lights(light) \subseteq Lights(s.lit)
                       /\ \A c \in Codes : Unambiguous(circuit, light, c) =>
                            /\ OneEach(s.circ, CircuitsOf(s.circ, c))
                            /\ OneUnlessRepeated(s.lit, c, file)
                       /\ (\A c \in Codes : /\ Unambiguous(circuit, light, c)
                                            /\ \A n \in LightNumbers : ~Repeats(file, c, n)) =>
                            again.circ = s.circ /\ again.lit = s.lit
  BY DEF ImportUpserts, OneEach, OneUnlessRepeated
<1> DEFINE s == Imported(circuit, light, file)
           again == Imported(s.circ, s.lit, file)
           cabs == {file[i].cab : i \in DOMAIN file}
<1>1. circuit \in CircuitTable /\ light \in LightTable /\ cabinets \subseteq Codes
  BY DEF TypeInv, TablesOK
<1>2. /\ file \in Seq(FileRow) /\ Len(file) \in Nat /\ DOMAIN file = 1..Len(file)
      /\ \A i \in 1..Len(file) : file[i] \in FileRow
  BY FilesAssumption, LenProperties, ElementOfSeq
<1>3. Read(s, circuit, light, file, Len(file))
  BY <1>1, <1>2, FileRead
<1>4. Faithful(s, circuit, light, cabs)
  BY <1>1, <1>2, ImportKeepsFaith
<1>5. ~s.full
  OBVIOUS
<1> HIDE DEF s
<1>6. Circuits(circuit) \subseteq Circuits(s.circ) /\ Lights(light) \subseteq Lights(s.lit)
  BY <1>4, RowsAreRows DEF Faithful, Circuits, Lights
<1>7. ASSUME NEW c \in Codes, Unambiguous(circuit, light, c)
      PROVE  OneEach(s.circ, CircuitsOf(s.circ, c)) /\ OneUnlessRepeated(s.lit, c, file)
  BY <1>3, <1>7, UnambiguousRows DEF Read, CircuitsRead, LightsRead
<1>8. ASSUME \A c \in Codes : /\ Unambiguous(circuit, light, c)
                              /\ \A n \in LightNumbers : ~Repeats(file, c, n)
      PROVE  again.circ = s.circ /\ again.lit = s.lit
  <2>1. s.circ \in CircuitTable /\ s.lit \in LightTable
    BY <1>3 DEF Read, SessionType
  <2>2. DistinctLights(file)
    BY <1>8 DEF DistinctLights
  <2>3. ASSUME NEW c \in Codes PROVE Unambiguous(s.circ, s.lit, c)
    <3>1. OneEach(s.circ, CircuitsOf(s.circ, c)) /\ OneUnlessRepeated(s.lit, c, file)
      BY <1>7, <1>8
    <3>2. OneEach(s.lit, LightsOf(s.lit, c))
      BY <2>1, <2>2, <3>1, DistinctStaysOne
    <3> QED
      BY <3>1, <3>2, UnambiguousRows
  <2>4. \A i \in 1..Len(file) : Found(file[i], s.circ, s.lit)
    BY <1>3, <1>5, <2>2 DEF Read, FoundAll
  <2>5. \A i \in 1..Len(file) : Unambiguous(s.circ, s.lit, file[i].cab)
    BY <1>2, <2>3 DEF FileRow
  <2> QED
    BY <1>2, <2>1, <2>4, <2>5, FoundFile
<1> QED
  BY <1>6, <1>7, <1>8 DEF s

(* An import deletes nothing whatever is in the file; where numbers were    *)
(* unique, those of circuits stay so, and those of light points unless the  *)
(* file has several rows for one; without such rows a second import of the  *)
(* file finds everything in place: topology.py, import_lightpoints.         *)
THEOREM ImportIsUpsert == Spec => []ImportUpserts
<1>1. Init => TypeInv
  BY InitTypes
<1>2. TypeInv /\ [Next]_vars => TypeInv'
  BY StepTypes
<1>3. TypeInv => ImportUpserts
  BY TypesUpsert
<1> QED
  BY <1>1, <1>2, <1>3, PTL DEF Spec

-----------------------------------------------------------------------------
(* Listings by number                                                       *)

(* Neighbours in order put the whole in order.                              *)
LEMMA Ascending ==
  ASSUME NEW n \in Nat, NEW f, \A i \in 1..n : f[i] \in Int,
         \A i \in 2..n : f[i - 1] <= f[i], NEW i \in 1..n, NEW j \in i..n
  PROVE  f[i] <= f[j]
<1> DEFINE Bad == {m \in i..n : ~(f[i] <= f[m])}
<1> SUFFICES ASSUME Bad # {} PROVE FALSE
  OBVIOUS
<1>1. Bad \in SUBSET Nat
  OBVIOUS
<1>2. PICK m \in Bad : \A y \in Bad : m <= y
  BY <1>1, LeastElement
<1>3. m \in i..n /\ ~(f[i] <= f[m])
  OBVIOUS
<1>4. m # i
  BY <1>3
<1>5. m \in 2..n /\ m - 1 \in i..n /\ m - 1 \notin Bad
  BY <1>2, <1>3, <1>4
<1>6. f[i] <= f[m - 1] /\ f[m - 1] <= f[m]
  BY <1>5
<1>7. f[i] \in Int /\ f[m - 1] \in Int /\ f[m] \in Int
  BY <1>3, <1>5
<1> QED
  BY <1>3, <1>6, <1>7

LEMMA Apart ==
  ASSUME NEW a \in Int, NEW b \in Int, a < b
  PROVE  a # b /\ ~(b < a)
OBVIOUS

(* Two ascending sequences of the same numbers are the same.                *)
Twins(n, f, g) ==
  /\ \A i \in 1..n : f[i] \in Int /\ g[i] \in Int
  /\ \A i, j \in 1..n : i < j => f[i] < f[j] /\ g[i] < g[j]
  /\ \A i \in 1..n : \E j \in 1..n : f[i] = g[j]
  /\ \A i \in 1..n : \E j \in 1..n : g[i] = f[j]

(* Two ascending sequences of the same numbers are the same.                *)
LEMMA SameOrder ==
  ASSUME NEW n \in Nat, NEW f, NEW g, Twins(n, f, g), NEW k \in 1..n
  PROVE  f[k] = g[k]
<1> USE DEF Twins
<1> DEFINE Bad == {m \in 1..n : f[m] # g[m]}
<1> SUFFICES ASSUME Bad # {} PROVE FALSE
  OBVIOUS
<1>1. Bad \in SUBSET Nat
  OBVIOUS
<1>2. PICK m \in Bad : \A y \in Bad : m <= y
  BY <1>1, LeastElement
<1>3. m \in 1..n /\ f[m] # g[m]
  OBVIOUS
<1>4. \A i \in 1..n : i < m => f[i] = g[i]
  BY <1>2
<1> HIDE DEF Bad
<1>5. f[m] \in Int /\ g[m] \in Int
  BY <1>3
(* What equals the other one there is found further on.                     *)
<1>6. ASSUME NEW j \in 1..n, f[m] = g[j] \/ g[m] = f[j] PROVE m < j
  <2>1. f[j] \in Int /\ g[j] \in Int
    OBVIOUS
  <2>2. CASE j < m
    <3>1. f[j] = g[j] /\ f[j] < f[m] /\ g[j] < g[m]
      BY <1>3, <1>4, <2>2
    <3>2. f[j] # f[m] /\ g[j] # g[m]
      BY <1>5, <2>1, <3>1, Apart
    <3> QED
      BY <1>6, <3>1, <3>2, Zenon
  <2>3. CASE j = m
    BY <1>3, <1>6, <2>3, Zenon
  <2>4. j < m \/ j = m \/ m < j
    BY <1>3
  <2> QED
    BY <2>2, <2>3, <2>4, Zenon
<1>7. PICK j \in 1..n : f[m] = g[j]
  BY <1>3
<1>8. PICK i \in 1..n : g[m] = f[i]
  BY <1>3
<1>9. m < j /\ m < i
  BY <1>6, <1>7, <1>8
<1>10. g[m] < f[m] /\ f[m] < g[m]
  <2>1. g[m] < g[j] /\ f[m] < f[i]
    BY <1>3, <1>9
  <2> QED
    BY <1>7, <1>8, <2>1, Zenon
<1> QED
  BY <1>5, <1>10, Apart

(* With one row for each number, a listing is strictly ascending.           *)
LEMMA ListedAscends ==
  ASSUME NEW ids, IsFiniteSet(ids), NEW rows, \A x \in ids : rows[x].number \in Int,
         OneEach(rows, ids), NEW s \in Listed(ids, rows)
  PROVE  /\ Cardinality(ids) \in Nat /\ Len(s) = Cardinality(ids)
         /\ s \in [1..Cardinality(ids) -> ids]
         /\ \A x \in ids : \E i \in 1..Cardinality(ids) : s[i] = x
         /\ \A i, j \in 1..Cardinality(ids) : i < j => rows[s[i]].number < rows[s[j]].number
<1> DEFINE n == Cardinality(ids)
           f == [i \in 1..n |-> rows[s[i]].number]
<1>1. n \in Nat /\ s \in [1..n -> ids] /\ \A i, j \in 1..n : i # j => s[i] # s[j]
  BY FS_CardinalityType DEF Listed, SetToSeqs
<1>2. Len(s) = n
  BY <1>1, ListedRows, LenProperties
<1>3. \A i \in 2..n : rows[s[i - 1]].number <= rows[s[i]].number
  BY <1>2 DEF Listed
<1>4. \A x \in ids : \E i \in 1..n : s[i] = x
  <2>1. s \in Injection(1..n, ids)
    BY <1>1 DEF Injection, IsInjective
  <2>2. Cardinality(1..n) = n
    BY <1>1, FS_Interval
  <2>3. s \in Surjection(1..n, ids)
    BY <2>1, <2>2, FS_Injection
  <2> QED
    BY <2>3 DEF Surjection
<1> HIDE DEF n
<1>5. ASSUME NEW i \in 1..n, NEW j \in 1..n, i < j
      PROVE  rows[s[i]].number < rows[s[j]].number
  <2>1. \A m \in 1..n : f[m] \in Int
    BY <1>1
  <2>2. \A m \in 2..n : f[m - 1] <= f[m]
    <3> SUFFICES ASSUME NEW m \in 2..n PROVE f[m - 1] <= f[m]
      OBVIOUS
    <3>1. m - 1 \in 1..n /\ m \in 1..n
      BY <1>1
    <3> QED
      BY <1>3, <3>1
  <2>3. j \in i..n
    BY <1>1, <1>5
  <2> HIDE DEF f
  <2>4. f[i] <= f[j]
    BY <1>1, <2>1, <2>2, <2>3, Ascending
  <2>5. f[i] = rows[s[i]].number /\ f[j] = rows[s[j]].number
    BY DEF f
  <2>6. rows[s[i]].number # rows[s[j]].number
    BY <1>1, <1>5 DEF OneEach
  <2> QED
    BY <2>1, <2>4, <2>5, <2>6
<1> QED
  BY <1>1, <1>2, <1>4, <1>5 DEF n

(* Rows with the same numbers can be listed, and are listed alike.          *)
LEMMA ListedAlike ==
  ASSUME NEW ids, IsFiniteSet(ids), NEW rows, \A x \in ids : rows[x].number \in Int,
         OneEach(rows, ids),
         NEW ids2, IsFiniteSet(ids2), NEW rows2, \A y \in ids2 : rows2[y].number \in Int,
         OneEach(rows2, ids2),
         \A x \in ids : \E y \in ids2 : rows2[y].number = rows[x].number,
         \A y \in ids2 : \E x \in ids : rows2[y].number = rows[x].number,
         NEW s \in Listed(ids, rows)
  PROVE  /\ Listed(ids2, rows2) # {}
         /\ \A t \in Listed(ids2, rows2) :
              /\ DOMAIN t = DOMAIN s
              /\ \A i \in DOMAIN s : rows2[t[i]].number = rows[s[i]].number
<1> DEFINE n == Cardinality(ids)
           match == [x \in ids |-> CHOOSE y \in ids2 : rows2[y].number = rows[x].number]
           u == [i \in 1..n |-> match[s[i]]]
<1>1. /\ n \in Nat /\ Len(s) = n /\ s \in [1..n -> ids]
      /\ \A x \in ids : \E i \in 1..n : s[i] = x
      /\ \A i, j \in 1..n : i < j => rows[s[i]].number < rows[s[j]].number
  BY ListedAscends
<1>2. \A x \in ids : match[x] \in ids2 /\ rows2[match[x]].number = rows[x].number
  OBVIOUS
<1>a. match \in [ids -> ids2]
  BY <1>2
<1> HIDE DEF n, match
<1>3. match \in Bijection(ids, ids2)
  <2>1. match \in Injection(ids, ids2)
    BY <1>2, <1>a DEF Injection, IsInjective, OneEach
  <2>2. match \in Surjection(ids, ids2)
    BY <1>2, <1>a DEF Surjection, OneEach
  <2> QED
    BY <2>1, <2>2 DEF Bijection
<1>4. Cardinality(ids2) = n
  BY <1>3, FS_Bijection DEF ExistsBijection, n
<1>5. u \in Listed(ids2, rows2)
  <2>1. u \in [1..n -> ids2] /\ \A i \in 1..n : u[i] = match[s[i]]
    BY <1>1, <1>2
  <2> HIDE DEF u
  <2>2. \A i, j \in 1..n : i < j => rows2[u[i]].number < rows2[u[j]].number
    <3> SUFFICES ASSUME NEW i \in 1..n, NEW j \in 1..n, i < j
                 PROVE  rows2[u[i]].number < rows2[u[j]].number
      OBVIOUS
    <3>1. s[i] \in ids /\ s[j] \in ids /\ rows[s[i]].number < rows[s[j]].number
      BY <1>1
    <3> QED
      BY <1>2, <2>1, <3>1
  <2>3. \A i \in 1..n : rows2[u[i]].number \in Int
    BY <2>1
  <2>4. \A i, j \in 1..n : i # j => u[i] # u[j]
    <3> SUFFICES ASSUME NEW i \in 1..n, NEW j \in 1..n, i < j PROVE u[i] # u[j]
      BY <1>1
    <3> QED
      BY <2>2, <2>3
  <2>5. u \in SetToSeqs(ids2)
    BY <1>4, <2>1, <2>4 DEF SetToSeqs
  <2>6. Len(u) = n
    BY <1>1, <2>1, SeqDef, LenProperties
  <2>7. \A i \in 2..n : rows2[u[i - 1]].number <= rows2[u[i]].number
    <3> SUFFICES ASSUME NEW i \in 2..n PROVE rows2[u[i - 1]].number <= rows2[u[i]].number
      OBVIOUS
    <3>1. i - 1 \in 1..n /\ i \in 1..n /\ i - 1 < i
      BY <1>1
    <3> QED
      BY <2>2, <2>3, <3>1
  <2> QED
    BY <2>5, <2>6, <2>7 DEF Listed
<1>6. ASSUME NEW t \in Listed(ids2, rows2)
      PROVE  DOMAIN t = DOMAIN s /\ \A i \in DOMAIN s : rows2[t[i]].number = rows[s[i]].number
  <2>1. /\ t \in [1..n -> ids2]
        /\ \A y \in ids2 : \E i \in 1..n : t[i] = y
        /\ \A i, j \in 1..n : i < j => rows2[t[i]].number < rows2[t[j]].number
    BY <1>4, ListedAscends
  <2> DEFINE f == [i \in 1..n |-> rows[s[i]].number]
             g == [i \in 1..n |-> rows2[t[i]].number]
  <2>2. \A i \in 1..n : f[i] \in Int /\ g[i] \in Int
    BY <1>1, <2>1
  <2>3. \A i, j \in 1..n : i < j => f[i] < f[j] /\ g[i] < g[j]
    BY <1>1, <2>1
  <2>4. \A i \in 1..n : \E j \in 1..n : f[i] = g[j]
    <3> SUFFICES ASSUME NEW i \in 1..n PROVE \E j \in 1..n : f[i] = g[j]
      OBVIOUS
    <3>1. PICK y \in ids2 : rows2[y].number = rows[s[i]].number
      BY <1>1
    <3>2. PICK j \in 1..n : t[j] = y
      BY <2>1
    <3> QED
      BY <3>1, <3>2
  <2>5. \A i \in 1..n : \E j \in 1..n : g[i] = f[j]
    <3> SUFFICES ASSUME NEW i \in 1..n PROVE \E j \in 1..n : g[i] = f[j]
      OBVIOUS
    <3>1. PICK x \in ids : rows2[t[i]].number = rows[x].number
      BY <2>1
    <3>2. PICK j \in 1..n : s[j] = x
      BY <1>1
    <3> QED
      BY <3>1, <3>2
  <2>6. \A i \in 1..n : f[i] = rows[s[i]].number /\ g[i] = rows2[t[i]].number
    OBVIOUS
  <2> HIDE DEF f, g
  <2>a. n \in Nat
    BY <1>1
  <2>7. \A i \in 1..n : f[i] = g[i]
    <3>1. Twins(n, f, g)
      BY <2>2, <2>3, <2>4, <2>5 DEF Twins
    <3> QED
      BY <2>a, <3>1, SameOrder
  <2>8. DOMAIN s = 1..n /\ DOMAIN t = 1..n
    BY <1>1, <2>1
  <2>9. \A i \in DOMAIN s : rows2[t[i]].number = rows[s[i]].number
    BY <2>6, <2>7, <2>8, Zenon
  <2> QED
    BY <2>8, <2>9
<1> QED
  BY <1>5, <1>6

-----------------------------------------------------------------------------
(* Restore                                                                  *)

CircuitOnly(c, n) == [cab |-> c, circuit |-> n, light |-> NoRow]
WithPoint(c, p) ==
  [cab |-> c, circuit |-> p.circuit, light |-> [number |-> p.number, power |-> p.power]]

(* Three sequences, one after the other.                                    *)
Joined(w, x, y, z, m, n) ==
  /\ Len(w) = m + n + n /\ DOMAIN w = 1..(m + n + n)
  /\ \A i \in 1..m : w[i] = x[i]
  /\ \A i \in 1..n : w[m + i] = y[i]
  /\ \A i \in 1..n : w[m + n + i] = z[i]

(* The places of three sequences joined end to end.                         *)
LEMMA ThreeParts ==
  ASSUME NEW S, NEW x \in Seq(S), NEW y \in Seq(S), NEW z \in Seq(S),
         NEW m \in Nat, NEW n \in Nat, Len(x) = m, Len(y) = n, Len(z) = n,
         NEW w, w = x \o y \o z
  PROVE  Joined(w, x, y, z, m, n)
<1> DEFINE h == x \o y
<1>1. /\ h \in Seq(S) /\ Len(h) = m + n
      /\ \A i \in 1..(m + n) : h[i] = IF i <= m THEN x[i] ELSE y[i - m]
  <2>1. /\ x \o y \in Seq(S) /\ Len(x \o y) = Len(x) + Len(y)
        /\ \A i \in 1..(Len(x) + Len(y)) :
             (x \o y)[i] = IF i <= Len(x) THEN x[i] ELSE y[i - Len(x)]
    BY ConcatProperties
  <2> QED
    BY <2>1, Zenon
<1>2. w = h \o z
  OBVIOUS
<1> HIDE DEF h
<1>3. /\ w \in Seq(S) /\ Len(w) = m + n + n
      /\ \A i \in 1..(m + n + n) : w[i] = IF i <= m + n THEN h[i] ELSE z[i - (m + n)]
  BY <1>1, <1>2, ConcatProperties
<1>4. DOMAIN w = 1..(m + n + n)
  BY <1>3, LenProperties
<1>5. ASSUME NEW i \in 1..m PROVE w[i] = x[i]
  <2>1. i \in 1..(m + n) /\ i \in 1..(m + n + n) /\ i <= m /\ i <= m + n
    OBVIOUS
  <2> QED
    BY <1>1, <1>3, <2>1
<1>6. ASSUME NEW i \in 1..n PROVE w[m + i] = y[i]
  <2>1. /\ m + i \in 1..(m + n) /\ m + i \in 1..(m + n + n)
        /\ ~(m + i <= m) /\ m + i <= m + n /\ (m + i) - m = i
    OBVIOUS
  <2> QED
    BY <1>1, <1>3, <2>1
<1>7. ASSUME NEW i \in 1..n PROVE w[m + n + i] = z[i]
  <2>1. /\ m + n + i \in 1..(m + n + n)
        /\ ~(m + n + i <= m + n) /\ (m + n + i) - (m + n) = i
    OBVIOUS
  <2> QED
    BY <1>3, <2>1
<1> QED
  BY <1>3, <1>4, <1>5, <1>6, <1>7 DEF Joined

InThree(j, m, n) ==
  j \in 1..m \/ (\E i \in 1..n : j = m + i) \/ (\E i \in 1..n : j = m + n + i)

(* Every place of the whole lies in one of the three parts.                 *)
LEMMA ThreePlaces ==
  ASSUME NEW m \in Nat, NEW n \in Nat
  PROVE  \A j \in 1..(m + n + n) : InThree(j, m, n)
<1> SUFFICES ASSUME NEW j \in 1..(m + n + n) PROVE InThree(j, m, n)
  OBVIOUS
<1>1. m < j /\ j <= m + n => j - m \in 1..n /\ j = m + (j - m)
  OBVIOUS
<1>2. m + n < j => j - (m + n) \in 1..n /\ j = m + n + (j - (m + n))
  OBVIOUS
<1> QED
  BY <1>1, <1>2 DEF InThree

(* The rows of a restore, by their places.                                  *)
Placed(rows, c, file, m, n) ==
  /\ m \in Nat /\ n \in Nat /\ Len(rows) = m + n + n /\ DOMAIN rows = 1..(m + n + n)
  /\ \A i \in 1..m : rows[i] = CircuitOnly(c, file.circuits[i])
  /\ \A i \in 1..n : rows[m + i] = CircuitOnly(c, file.lights[i].circuit)
  /\ \A i \in 1..n : rows[m + n + i] = WithPoint(c, file.lights[i])

(* The rows of a restore: circuits, circuits of light points, light points. *)
LEMMA RestoreRowPlaces ==
  ASSUME NEW c \in Codes, NEW file \in Backup
  PROVE  Placed(RestoreRows(c, file), c, file, Len(file.circuits), Len(file.lights))
<1> DEFINE m == Len(file.circuits)
           n == Len(file.lights)
           rows == RestoreRows(c, file)
           first == [i \in 1..m |-> CircuitOnly(c, file.circuits[i])]
           then == [i \in 1..n |-> CircuitOnly(c, file.lights[i].circuit)]
           last == [i \in 1..n |-> WithPoint(c, file.lights[i])]
           Items == UNION {{first[i] : i \in 1..m}, {then[i] : i \in 1..n}, {last[i] : i \in 1..n}}
<1>1. m \in Nat /\ n \in Nat
  BY LenProperties DEF Backup
<1>2. rows = first \o then \o last
  BY DEF RestoreRows, CircuitOnly, WithPoint
<1> HIDE DEF m, n, rows
<1>3. /\ \A i \in 1..m : first[i] = CircuitOnly(c, file.circuits[i])
      /\ \A i \in 1..n : then[i] = CircuitOnly(c, file.lights[i].circuit)
      /\ \A i \in 1..n : last[i] = WithPoint(c, file.lights[i])
  OBVIOUS
<1>4. first \in Seq(Items) /\ Len(first) = m
  <2>1. first = [i \in 1..m |-> first[i]] /\ \A i \in 1..m : first[i] \in Items
    OBVIOUS
  <2> HIDE DEF first, Items
  <2> QED
    BY <1>1, <2>1, SequenceOf
<1>5. then \in Seq(Items) /\ Len(then) = n
  <2>1. then = [i \in 1..n |-> then[i]] /\ \A i \in 1..n : then[i] \in Items
    OBVIOUS
  <2> HIDE DEF then, Items
  <2> QED
    BY <1>1, <2>1, SequenceOf
<1>6. last \in Seq(Items) /\ Len(last) = n
  <2>1. last = [i \in 1..n |-> last[i]] /\ \A i \in 1..n : last[i] \in Items
    OBVIOUS
  <2> HIDE DEF last, Items
  <2> QED
    BY <1>1, <2>1, SequenceOf
<1> HIDE DEF first, then, last, Items
<1>7. /\ Len(rows) = m + n + n /\ DOMAIN rows = 1..(m + n + n)
      /\ \A i \in 1..m : rows[i] = first[i]
      /\ \A i \in 1..n : rows[m + i] = then[i]
      /\ \A i \in 1..n : rows[m + n + i] = last[i]
  <2>1. Joined(rows, first, then, last, m, n)
    BY <1>1, <1>2, <1>4, <1>5, <1>6, ThreeParts
  <2> QED
    BY <2>1 DEF Joined
<1>8. \A i \in 1..m : rows[i] = CircuitOnly(c, file.circuits[i])
  BY <1>3, <1>7
<1>9. \A i \in 1..n : rows[m + i] = CircuitOnly(c, file.lights[i].circuit)
  BY <1>3, <1>7
<1>10. \A i \in 1..n : rows[m + n + i] = WithPoint(c, file.lights[i])
  BY <1>3, <1>7
<1>11. Placed(rows, c, file, m, n)
  BY <1>1, <1>7, <1>8, <1>9, <1>10 DEF Placed
<1> QED
  BY <1>11 DEF m, n, rows

-----------------------------------------------------------------------------
(* A backup, and the sequences it was made from.                            *)
Carried(circ, lit, c) == {l \in LightsOf(lit, c) : lit[l].circuit \in CircuitsOf(circ, c)}
Point(circ, row) ==
  [circuit |-> circ[row.circuit].number, number |-> row.number, power |-> row.power]
FileOf(circ, lit, ks, ls) ==
  [circuits |-> [i \in DOMAIN ks |-> circ[ks[i]].number],
   lights |-> [i \in DOMAIN ls |-> Point(circ, lit[ls[i]])]]

MadeFrom(file, circ, lit, c, ks, ls, m, n) ==
  /\ ks \in Listed(CircuitsOf(circ, c), circ) /\ ls \in Listed(Carried(circ, lit, c), lit)
  /\ file = FileOf(circ, lit, ks, ls) /\ m \in Nat /\ n \in Nat
  /\ ks \in [1..m -> CircuitsOf(circ, c)] /\ ls \in [1..n -> Carried(circ, lit, c)]
  /\ \A k \in CircuitsOf(circ, c) : \E i \in 1..m : ks[i] = k
  /\ \A l \in Carried(circ, lit, c) : \E i \in 1..n : ls[i] = l
  /\ \A i, j \in 1..n : lit[ls[i]].number = lit[ls[j]].number => i = j
  /\ m = Len(file.circuits) /\ \A i \in 1..m : file.circuits[i] = circ[ks[i]].number
  /\ n = Len(file.lights) /\ \A i \in 1..n : file.lights[i] = Point(circ, lit[ls[i]])

(* A backup is made from a listing of circuits and one of light points.     *)
LEMMA BackupFilesMade ==
  ASSUME NEW circ, NEW lit, NEW c, NEW file
  PROVE  file \in Backups(circ, lit, c)
         <=> \E ks \in Listed(CircuitsOf(circ, c), circ), ls \in Listed(Carried(circ, lit, c), lit) :
               file = FileOf(circ, lit, ks, ls)
<1> DEFINE cids == CircuitsOf(circ, c)
           lids == {l \in LightsOf(lit, c) : lit[l].circuit \in cids}
           made(ks, ls) ==
             [circuits |-> [i \in DOMAIN ks |-> circ[ks[i]].number],
              lights |-> [i \in DOMAIN ls |->
                [circuit |-> circ[lit[ls[i]].circuit].number,
                 number |-> lit[ls[i]].number, power |-> lit[ls[i]].power]]]
<1>1. Backups(circ, lit, c) = {made(ks, ls) : ks \in Listed(cids, circ), ls \in Listed(lids, lit)}
  BY DEF Backups
<1>2. \A ks, ls : made(ks, ls) = FileOf(circ, lit, ks, ls)
  BY DEF FileOf, Point
<1>3. lids = Carried(circ, lit, c)
  BY DEF Carried
<1> HIDE DEF cids, lids, made
<1>4. file \in Backups(circ, lit, c)
      <=> \E ks \in Listed(cids, circ), ls \in Listed(lids, lit) : file = made(ks, ls)
  BY <1>1
<1> QED
  BY <1>2, <1>3, <1>4 DEF cids

(* The rows of a cabinet that a backup lists are finitely many, each with a *)
(* number of its own.                                                       *)
LEMMA CabinetRows ==
  ASSUME NEW circ \in CircuitTable, NEW lit \in LightTable, NEW c,
         OneEach(circ, CircuitsOf(circ, c)), OneEach(lit, LightsOf(lit, c))
  PROVE  /\ IsFiniteSet(CircuitsOf(circ, c)) /\ IsFiniteSet(Carried(circ, lit, c))
         /\ \A k \in CircuitsOf(circ, c) : circ[k] \in CircuitRow /\ circ[k].number \in Int
         /\ \A l \in Carried(circ, lit, c) : lit[l] \in LightRow /\ lit[l].number \in Int
         /\ OneEach(lit, Carried(circ, lit, c))
<1>1. /\ CircuitsOf(circ, c) \subseteq CircuitIds
      /\ \A k \in CircuitsOf(circ, c) : circ[k] \in CircuitRow
  BY DEF CircuitsOf, Circuits, CircuitTable
<1>2. /\ Carried(circ, lit, c) \subseteq LightIds
      /\ \A l \in Carried(circ, lit, c) : lit[l] \in LightRow
  BY DEF Carried, LightsOf, Lights, LightTable
<1>3. \A k \in CircuitsOf(circ, c) : circ[k].number \in Int
  BY <1>1, NumbersAssumption DEF CircuitRow
<1>4. \A l \in Carried(circ, lit, c) : lit[l].number \in Int
  BY <1>2, NumbersAssumption DEF LightRow
<1>5. OneEach(lit, Carried(circ, lit, c))
  BY DEF OneEach, Carried
<1>6. IsFiniteSet(CircuitsOf(circ, c)) /\ IsFiniteSet(Carried(circ, lit, c))
  BY <1>1, <1>2, IdsAssumption, FS_Subset
<1> QED
  BY <1>1, <1>2, <1>3, <1>4, <1>5, <1>6

(* A backup of an unambiguous cabinet carries every row of it once.         *)
LEMMA BackupMade ==
  ASSUME NEW circ \in CircuitTable, NEW lit \in LightTable, NEW c,
         Unambiguous(circ, lit, c), NEW file \in Backups(circ, lit, c)
  PROVE  \E ks \in Listed(CircuitsOf(circ, c), circ), ls \in Listed(Carried(circ, lit, c), lit),
            m \in Nat, n \in Nat : MadeFrom(file, circ, lit, c, ks, ls, m, n)
<1> DEFINE cids == CircuitsOf(circ, c)
           lids == Carried(circ, lit, c)
           m == Cardinality(cids)
           n == Cardinality(lids)
<1>1. PICK ks \in Listed(cids, circ), ls \in Listed(lids, lit) : file = FileOf(circ, lit, ks, ls)
  BY BackupFilesMade
<1>2. OneEach(circ, cids) /\ OneEach(lit, LightsOf(lit, c))
  BY UnambiguousRows
<1>3. /\ IsFiniteSet(cids) /\ IsFiniteSet(lids) /\ OneEach(lit, lids)
      /\ \A k \in cids : circ[k].number \in Int
      /\ \A l \in lids : lit[l].number \in Int
  BY <1>2, CabinetRows
<1> HIDE DEF cids, lids
<1>4. /\ m \in Nat /\ ks \in [1..m -> cids] /\ \A k \in cids : \E i \in 1..m : ks[i] = k
  BY <1>1, <1>2, <1>3, ListedAscends
<1>5. /\ n \in Nat /\ ls \in [1..n -> lids] /\ \A l \in lids : \E i \in 1..n : ls[i] = l
      /\ \A i, j \in 1..n : i < j => lit[ls[i]].number < lit[ls[j]].number
  BY <1>1, <1>3, ListedAscends
<1> HIDE DEF m, n
<1>6. ASSUME NEW i \in 1..n, NEW j \in 1..n, lit[ls[i]].number = lit[ls[j]].number
      PROVE  i = j
  <2>1. lit[ls[i]].number \in Int /\ lit[ls[j]].number \in Int
    BY <1>3, <1>5
  <2>2. ~(i < j) /\ ~(j < i)
    BY <1>5, <1>6, <2>1, Apart
  <2> QED
    BY <1>5, <2>2
<1>7. m = Len(file.circuits) /\ \A i \in 1..m : file.circuits[i] = circ[ks[i]].number
  <2>1. DOMAIN ks = 1..m /\ file.circuits = [i \in DOMAIN ks |-> circ[ks[i]].number]
    BY <1>1, <1>4 DEF FileOf
  <2> DEFINE numbers == file.circuits
             given == {circ[ks[i]].number : i \in 1..m}
  <2>2. /\ numbers = [i \in 1..m |-> numbers[i]] /\ \A i \in 1..m : numbers[i] \in given
        /\ \A i \in 1..m : numbers[i] = circ[ks[i]].number
    BY <2>1
  <2> HIDE DEF numbers, given
  <2>3. Len(numbers) = m
    BY <1>4, <2>2, SequenceOf
  <2> QED
    BY <2>2, <2>3 DEF numbers
<1>8. n = Len(file.lights) /\ \A i \in 1..n : file.lights[i] = Point(circ, lit[ls[i]])
  <2>1. DOMAIN ls = 1..n /\ file.lights = [i \in DOMAIN ls |-> Point(circ, lit[ls[i]])]
    BY <1>1, <1>5 DEF FileOf
  <2> DEFINE points == file.lights
             given == {Point(circ, lit[ls[i]]) : i \in 1..n}
  <2>2. /\ points = [i \in 1..n |-> points[i]] /\ \A i \in 1..n : points[i] \in given
        /\ \A i \in 1..n : points[i] = Point(circ, lit[ls[i]])
    BY <2>1
  <2> HIDE DEF points, given
  <2>3. Len(points) = n
    BY <1>5, <2>2, SequenceOf
  <2> QED
    BY <2>2, <2>3 DEF points
<1>9. MadeFrom(file, circ, lit, c, ks, ls, m, n)
  BY <1>1, <1>4, <1>5, <1>6, <1>7, <1>8 DEF MadeFrom, cids, lids
<1> QED
  BY <1>1, <1>4, <1>5, <1>9 DEF cids, lids

(* The rows of its restore recall the cabinet: they name its circuits, and  *)
(* each light point once, with its power and its circuit.                   *)
Recalled(row, circ, l) ==
  /\ row.light # NoRow /\ row.circuit = circ[l.circuit].number
  /\ row.light.number = l.number /\ row.light.power = l.power

Recall(rows, circ, lit, c) ==
  /\ \A j \in 1..Len(rows) : \E k \in CircuitsOf(circ, c) : rows[j].circuit = circ[k].number
  /\ \A j \in 1..Len(rows) :
       rows[j].light # NoRow => \E l \in Carried(circ, lit, c) : Recalled(rows[j], circ, lit[l])
  /\ \A k \in CircuitsOf(circ, c) : \E j \in 1..Len(rows) : rows[j].circuit = circ[k].number
  /\ \A l \in Carried(circ, lit, c) : \E j \in 1..Len(rows) : Recalled(rows[j], circ, lit[l])

(* The rows of a restore recall the cabinet of the backup: all of it,       *)
(* nothing else.                                                            *)
LEMMA RowsRecall ==
  ASSUME NEW circ \in CircuitTable, NEW lit \in LightTable, NEW c, NEW d \in Codes,
         NEW ks, NEW ls, NEW file \in Backup, NEW m \in Nat, NEW n \in Nat,
         MadeFrom(file, circ, lit, c, ks, ls, m, n), NEW rows, Placed(rows, d, file, m, n)
  PROVE  Recall(rows, circ, lit, c) /\ DistinctLights(rows)
<1>1. Len(rows) = m + n + n /\ DOMAIN rows = 1..(m + n + n)
  BY DEF Placed
<1>a. \A x : CircuitOnly(d, x).circuit = x /\ CircuitOnly(d, x).light = NoRow
  BY DEF CircuitOnly
<1>2. ASSUME NEW i \in 1..m
      PROVE  ks[i] \in CircuitsOf(circ, c) /\ rows[i] = CircuitOnly(d, circ[ks[i]].number)
  <2>1. ks[i] \in CircuitsOf(circ, c) /\ file.circuits[i] = circ[ks[i]].number
    BY DEF MadeFrom
  <2>2. rows[i] = CircuitOnly(d, file.circuits[i])
    BY DEF Placed
  <2> QED
    BY <2>1, <2>2
<1>3. ASSUME NEW i \in 1..n
      PROVE  /\ ls[i] \in Carried(circ, lit, c)
             /\ rows[m + i] = CircuitOnly(d, circ[lit[ls[i]].circuit].number)
             /\ rows[m + n + i] = WithPoint(d, Point(circ, lit[ls[i]]))
  <2>1. ls[i] \in Carried(circ, lit, c) /\ file.lights[i] = Point(circ, lit[ls[i]])
    BY DEF MadeFrom
  <2>2. rows[m + i] = CircuitOnly(d, file.lights[i].circuit)
        /\ rows[m + n + i] = WithPoint(d, file.lights[i])
    BY DEF Placed
  <2>3. Point(circ, lit[ls[i]]).circuit = circ[lit[ls[i]].circuit].number
    BY DEF Point
  <2> QED
    BY <2>1, <2>2, <2>3
<1>4. ASSUME NEW l \in Carried(circ, lit, c), NEW j \in 1..Len(rows),
             rows[j] = WithPoint(d, Point(circ, lit[l]))
      PROVE  Recalled(rows[j], circ, lit[l])
  <2>1. /\ rows[j].circuit = circ[lit[l].circuit].number
        /\ rows[j].light = [number |-> lit[l].number, power |-> lit[l].power]
    BY <1>4 DEF WithPoint, Point
  <2>2. lit[l] \in LightRow
    BY DEF Carried, LightsOf, Lights, LightTable
  <2>3. rows[j].light \in LightEntry
    BY <2>1, <2>2 DEF LightEntry, LightRow
  <2> QED
    BY <2>1, <2>3, RowsAreRows DEF Recalled
<1>5. ASSUME NEW j \in 1..Len(rows)
      PROVE  /\ \E k \in CircuitsOf(circ, c) : rows[j].circuit = circ[k].number
             /\ rows[j].light # NoRow =>
                  \E i \in 1..n : j = m + n + i /\ Recalled(rows[j], circ, lit[ls[i]])
  <2>1. j \in 1..(m + n + n)
    BY <1>1
  <2>2. InThree(j, m, n)
    BY <2>1, ThreePlaces
  <2>3. ASSUME j \in 1..m
        PROVE  rows[j].light = NoRow
               /\ \E k \in CircuitsOf(circ, c) : rows[j].circuit = circ[k].number
    <3>1. ks[j] \in CircuitsOf(circ, c) /\ rows[j] = CircuitOnly(d, circ[ks[j]].number)
      BY <1>2, <2>3
    <3> QED
      BY <1>a, <3>1
  <2>4. ASSUME NEW i \in 1..n, j = m + i
        PROVE  rows[j].light = NoRow
               /\ \E k \in CircuitsOf(circ, c) : rows[j].circuit = circ[k].number
    <3>1. /\ ls[i] \in Carried(circ, lit, c)
          /\ rows[j] = CircuitOnly(d, circ[lit[ls[i]].circuit].number)
      BY <1>3, <2>4
    <3> QED
      BY <3>1 DEF CircuitOnly, Carried
  <2>5. ASSUME NEW i \in 1..n, j = m + n + i
        PROVE  /\ \E k \in CircuitsOf(circ, c) : rows[j].circuit = circ[k].number
               /\ Recalled(rows[j], circ, lit[ls[i]])
    <3>1. ls[i] \in Carried(circ, lit, c) /\ rows[j] = WithPoint(d, Point(circ, lit[ls[i]]))
      BY <1>3, <2>5
    <3>2. Recalled(rows[j], circ, lit[ls[i]])
      BY <1>4, <3>1
    <3> QED
      BY <3>1, <3>2 DEF Recalled, Carried
  <2> QED
    BY <2>2, <2>3, <2>4, <2>5 DEF InThree
<1>6. ASSUME NEW k \in CircuitsOf(circ, c)
      PROVE  \E j \in 1..Len(rows) : rows[j].circuit = circ[k].number
  <2>1. PICK i \in 1..m : ks[i] = k
    BY DEF MadeFrom
  <2>2. rows[i].circuit = circ[k].number
    BY <1>2, <1>a, <2>1, Zenon
  <2>3. i \in 1..Len(rows)
    BY <1>1
  <2> QED
    BY <2>2, <2>3
<1>7. ASSUME NEW l \in Carried(circ, lit, c)
      PROVE  \E j \in 1..Len(rows) : Recalled(rows[j], circ, lit[l])
  <2>1. PICK i \in 1..n : ls[i] = l
    BY DEF MadeFrom
  <2>2. rows[m + n + i] = WithPoint(d, Point(circ, lit[l]))
    BY <1>3, <2>1
  <2>3. m + n + i \in 1..Len(rows)
    BY <1>1
  <2> QED
    BY <1>4, <2>2, <2>3
<1>8. DistinctLights(rows)
  <2> SUFFICES ASSUME NEW i \in 1..Len(rows), NEW j \in 1..Len(rows),
                      rows[i].light # NoRow, rows[j].light # NoRow,
                      rows[i].light.number = rows[j].light.number
               PROVE  i = j
    BY <1>1 DEF DistinctLights, Repeats
  <2>1. PICK a \in 1..n : i = m + n + a /\ Recalled(rows[i], circ, lit[ls[a]])
    BY <1>5
  <2>2. PICK b \in 1..n : j = m + n + b /\ Recalled(rows[j], circ, lit[ls[b]])
    BY <1>5
  <2>3. lit[ls[a]].number = lit[ls[b]].number
    BY <2>1, <2>2 DEF Recalled
  <2>4. a = b
    BY <2>3 DEF MadeFrom
  <2> QED
    BY <2>1, <2>2, <2>4
<1>9. Recall(rows, circ, lit, c)
  BY <1>3, <1>5, <1>6, <1>7 DEF Recall
<1> QED
  BY <1>8, <1>9

(* The rows restored from a backup recall the cabinet it was made of.       *)
LEMMA RestoreRecalls ==
  ASSUME NEW circ \in CircuitTable, NEW lit \in LightTable, NEW c, NEW d \in Codes,
         Unambiguous(circ, lit, c), NEW file \in Backups(circ, lit, c)
  PROVE  /\ Recall(RestoreRows(d, file), circ, lit, c)
         /\ DistinctLights(RestoreRows(d, file))
<1>1. PICK ks \in Listed(CircuitsOf(circ, c), circ), ls \in Listed(Carried(circ, lit, c), lit),
           m \in Nat, n \in Nat : MadeFrom(file, circ, lit, c, ks, ls, m, n)
  BY BackupMade
<1>2. file \in Backup
  BY BackupsAreBackups
<1>3. m = Len(file.circuits) /\ n = Len(file.lights)
  BY <1>1 DEF MadeFrom
<1>4. Placed(RestoreRows(d, file), d, file, m, n)
  BY <1>2, <1>3, RestoreRowPlaces
<1> QED
  BY <1>1, <1>2, <1>4, RowsRecall

(* On the cabinet itself every row is found, so nothing changes.            *)
LEMMA RestoreInPlace ==
  ASSUME TypeInv, NEW c \in cabinets, Unambiguous(circuit, light, c),
         NEW file \in Backups(circuit, light, c)
  PROVE  Restored(circuit, light, c, file).circ = circuit
         /\ Restored(circuit, light, c, file).lit = light
<1> DEFINE rows == RestoreRows(c, file)
<1>1. circuit \in CircuitTable /\ light \in LightTable /\ c \in Codes
  BY DEF TypeInv, TablesOK
<1>2. Recall(rows, circuit, light, c)
  BY <1>1, RestoreRecalls
<1>3. rows \in Seq(FileRow) /\ \A i \in 1..Len(rows) : rows[i].cab = c
  BY <1>1, BackupsAreBackups, RestoreRowsAreRows
<1> HIDE DEF rows
<1>4. ASSUME NEW j \in 1..Len(rows) PROVE Found(rows[j], circuit, light)
  <2>1. rows[j].cab = c
    BY <1>3
  <2>2. CASE rows[j].light = NoRow
    <3>1. PICK k \in CircuitsOf(circuit, c) : rows[j].circuit = circuit[k].number
      BY <1>2 DEF Recall
    <3>2. HasCircuit(rows[j], circuit, k)
      BY <2>1, <3>1 DEF HasCircuit
    <3> QED
      BY <2>2, <3>2 DEF Found
  <2>3. CASE rows[j].light # NoRow
    <3>1. PICK l \in Carried(circuit, light, c) : Recalled(rows[j], circuit, light[l])
      BY <1>2, <2>3 DEF Recall
    <3>2. /\ HasCircuit(rows[j], circuit, light[l].circuit)
          /\ HasLight(rows[j], light, light[l].circuit, l)
      BY <2>1, <3>1 DEF HasCircuit, HasLight, Recalled, Carried
    <3> QED
      BY <3>2 DEF Found
  <2> QED
    BY <2>2, <2>3
<1>5. \A j \in 1..Len(rows) : Unambiguous(circuit, light, rows[j].cab)
  BY <1>3
<1>6. /\ Imported(circuit, light, rows).circ = circuit
      /\ Imported(circuit, light, rows).lit = light
  BY <1>1, <1>3, <1>4, <1>5, FoundFile
<1> QED
  BY <1>6 DEF Restored, rows

-----------------------------------------------------------------------------
(* One cabinet copies another: same circuits, same light points on them.    *)
Copy(circ, lit, c, circ2, lit2, d) ==
  /\ OneEach(circ2, CircuitsOf(circ2, d)) /\ OneEach(lit2, LightsOf(lit2, d))
  /\ \A k \in CircuitsOf(circ, c) : \E h \in CircuitsOf(circ2, d) : circ2[h].number = circ[k].number
  /\ \A h \in CircuitsOf(circ2, d) : \E k \in CircuitsOf(circ, c) : circ2[h].number = circ[k].number
  /\ \A l \in Carried(circ, lit, c) : \E g \in Carried(circ2, lit2, d) :
       Point(circ2, lit2[g]) = Point(circ, lit[l])
  /\ \A g \in Carried(circ2, lit2, d) : \E l \in Carried(circ, lit, c) :
       lit2[g].number = lit[l].number

(* A copy of an unambiguous cabinet has the same backup, and no other.      *)
LEMMA CopiesShareBackups ==
  ASSUME NEW circ \in CircuitTable, NEW lit \in LightTable, NEW c,
         NEW circ2 \in CircuitTable, NEW lit2 \in LightTable, NEW d,
         Unambiguous(circ, lit, c), Copy(circ, lit, c, circ2, lit2, d),
         NEW file \in Backups(circ, lit, c)
  PROVE  Backups(circ2, lit2, d) = {file}
<1> DEFINE cids == CircuitsOf(circ, c)
           lids == Carried(circ, lit, c)
           cids2 == CircuitsOf(circ2, d)
           lids2 == Carried(circ2, lit2, d)
<1>1. PICK ks \in Listed(cids, circ), ls \in Listed(lids, lit) : file = FileOf(circ, lit, ks, ls)
  BY BackupFilesMade
<1>2. /\ OneEach(circ, cids) /\ OneEach(lit, LightsOf(lit, c))
      /\ OneEach(circ2, cids2) /\ OneEach(lit2, LightsOf(lit2, d))
  BY UnambiguousRows DEF Copy
<1>3. /\ IsFiniteSet(cids) /\ IsFiniteSet(lids) /\ OneEach(lit, lids)
      /\ \A k \in cids : circ[k].number \in Int
      /\ \A l \in lids : lit[l].number \in Int
  BY <1>2, CabinetRows
<1>4. /\ IsFiniteSet(cids2) /\ IsFiniteSet(lids2) /\ OneEach(lit2, lids2)
      /\ \A k \in cids2 : circ2[k].number \in Int
      /\ \A l \in lids2 : lit2[l].number \in Int
  BY <1>2, CabinetRows
<1>5. /\ \A k \in cids : \E h \in cids2 : circ2[h].number = circ[k].number
      /\ \A h \in cids2 : \E k \in cids : circ2[h].number = circ[k].number
  BY DEF Copy
<1>6. \A l \in lids : \E g \in lids2 : Point(circ2, lit2[g]) = Point(circ, lit[l])
  BY DEF Copy
<1>7. \A g \in lids2 : \E l \in lids : lit2[g].number = lit[l].number
  BY DEF Copy
<1>8. \A p, q : Point(circ2, p) = Point(circ, q) => p.number = q.number
  BY DEF Point
<1>9. \A l \in lids : \E g \in lids2 : lit2[g].number = lit[l].number
  BY <1>6, <1>8
<1>a. \A hs \in Listed(cids2, circ2), gs \in Listed(lids2, lit2) :
        FileOf(circ2, lit2, hs, gs) \in Backups(circ2, lit2, d)
  BY BackupFilesMade
<1>b. \A other \in Backups(circ2, lit2, d) :
        \E hs \in Listed(cids2, circ2), gs \in Listed(lids2, lit2) :
          other = FileOf(circ2, lit2, hs, gs)
  BY BackupFilesMade
<1>c. ks \in [1..Len(ks) -> cids] /\ ls \in [1..Len(ls) -> lids]
  <2>1. ks \in Seq(cids) /\ ls \in Seq(lids)
    BY <1>1, <1>3, ListedRows
  <2> QED
    BY <2>1, LenProperties
<1> HIDE DEF cids, lids, cids2, lids2
<1>10. /\ Listed(cids2, circ2) # {}
       /\ \A hs \in Listed(cids2, circ2) :
            /\ DOMAIN hs = DOMAIN ks
            /\ \A i \in DOMAIN ks : circ2[hs[i]].number = circ[ks[i]].number
  BY <1>1, <1>2, <1>3, <1>4, <1>5, ListedAlike
<1>11. /\ Listed(lids2, lit2) # {}
       /\ \A gs \in Listed(lids2, lit2) :
            /\ DOMAIN gs = DOMAIN ls
            /\ \A i \in DOMAIN ls : lit2[gs[i]].number = lit[ls[i]].number
  BY <1>1, <1>2, <1>3, <1>4, <1>7, <1>9, ListedAlike
<1>12. ASSUME NEW hs \in Listed(cids2, circ2), NEW gs \in Listed(lids2, lit2)
       PROVE  FileOf(circ2, lit2, hs, gs) = file
  <2>1. [i \in DOMAIN hs |-> circ2[hs[i]].number] = [i \in DOMAIN ks |-> circ[ks[i]].number]
    BY <1>10
  <2>2. DOMAIN gs = DOMAIN ls /\ \A i \in DOMAIN ls : lit2[gs[i]].number = lit[ls[i]].number
    BY <1>11
  <2>3. \A i \in DOMAIN ls : gs[i] \in lids2 /\ ls[i] \in lids
    <3>1. gs \in Seq(lids2)
      BY <1>4, ListedRows
    <3>2. gs \in [DOMAIN gs -> lids2]
      BY <3>1, LenProperties
    <3> QED
      BY <1>c, <2>2, <3>2
  <2>4. ASSUME NEW i \in DOMAIN ls PROVE Point(circ2, lit2[gs[i]]) = Point(circ, lit[ls[i]])
    <3>1. PICK g \in lids2 : Point(circ2, lit2[g]) = Point(circ, lit[ls[i]])
      BY <1>6, <2>3
    <3>2. lit2[g].number = lit[ls[i]].number /\ lit2[gs[i]].number = lit[ls[i]].number
      BY <1>8, <2>2, <3>1
    <3>3. g = gs[i]
      BY <1>4, <2>3, <3>2 DEF OneEach
    <3> QED
      BY <3>1, <3>3
  <2>5. [i \in DOMAIN gs |-> Point(circ2, lit2[gs[i]])] = [i \in DOMAIN ls |-> Point(circ, lit[ls[i]])]
    BY <2>2, <2>4
  <2> QED
    BY <1>1, <2>1, <2>5 DEF FileOf
<1>13. \A other \in Backups(circ2, lit2, d) : other = file
  BY <1>b, <1>12
<1>14. file \in Backups(circ2, lit2, d)
  <2>1. PICK hs \in Listed(cids2, circ2) : TRUE
    BY <1>10
  <2>2. PICK gs \in Listed(lids2, lit2) : TRUE
    BY <1>11
  <2> QED
    BY <1>a, <1>12
<1> QED
  BY <1>13, <1>14

(* A restore on an empty cabinet copies the one the backup was taken of.    *)
LEMMA RestoreCopies ==
  ASSUME TypeInv, NEW c \in cabinets, NEW d \in cabinets, Unambiguous(circuit, light, c),
         NEW file \in Backups(circuit, light, c),
         CircuitsOf(circuit, d) \cup LightsOf(light, d) = {},
         NEW s, s = Restored(circuit, light, d, file), ~s.full
  PROVE  /\ s.circ \in CircuitTable /\ s.lit \in LightTable
         /\ Copy(circuit, light, c, s.circ, s.lit, d)
<1> DEFINE rows == RestoreRows(d, file)
<1>1. circuit \in CircuitTable /\ light \in LightTable /\ c \in Codes /\ d \in Codes
  BY DEF TypeInv, TablesOK
<1>2. Recall(rows, circuit, light, c) /\ DistinctLights(rows)
  BY <1>1, RestoreRecalls
<1>3. rows \in Seq(FileRow) /\ \A i \in 1..Len(rows) : rows[i].cab = d
  BY <1>1, BackupsAreBackups, RestoreRowsAreRows
<1>4. s = Imported(circuit, light, rows)
  BY DEF Restored
<1> HIDE DEF rows
<1>5. Read(s, circuit, light, rows, Len(rows))
  BY <1>1, <1>2, <1>3, <1>4, FileRead
<1>6. s.circ \in CircuitTable /\ s.lit \in LightTable
  BY <1>5 DEF Read, SessionType
<1>7. OneEach(s.circ, CircuitsOf(s.circ, d)) /\ OneEach(s.lit, LightsOf(s.lit, d))
  <2>1. OneEach(circuit, CircuitsOf(circuit, d)) /\ OneEach(light, LightsOf(light, d))
    BY DEF OneEach
  <2>2. OneEach(s.circ, CircuitsOf(s.circ, d)) /\ OneUnlessRepeated(s.lit, d, rows)
    BY <1>1, <1>5, <2>1 DEF Read, CircuitsRead, LightsRead
  <2> QED
    BY <1>1, <1>2, <1>6, <2>2, DistinctStaysOne
<1>8. ASSUME NEW j \in 1..Len(rows)
      PROVE  \E h : /\ HasCircuit(rows[j], s.circ, h)
                    /\ rows[j].light # NoRow => \E g : HasLight(rows[j], s.lit, h, g)
  BY <1>2, <1>3, <1>5 DEF Read, FoundAll, Found
<1>9. ASSUME NEW h \in CircuitsOf(s.circ, d)
      PROVE  \E k \in CircuitsOf(circuit, c) : s.circ[h].number = circuit[k].number
  <2>1. h \in Circuits(s.circ) /\ s.circ[h].cab = d /\ s.circ[h] # NoRow /\ h \in CircuitIds
    BY DEF CircuitsOf, Circuits
  <2>2. s.circ[h] # circuit[h]
    BY <2>1 DEF CircuitsOf, Circuits
  <2>3. PICK j \in 1..Len(rows) : rows[j].circuit = s.circ[h].number
    BY <1>5, <2>1, <2>2 DEF Read, CircuitsRead
  <2> QED
    BY <1>2, <2>3 DEF Recall
<1>10. ASSUME NEW k \in CircuitsOf(circuit, c)
       PROVE  \E h \in CircuitsOf(s.circ, d) : s.circ[h].number = circuit[k].number
  <2>1. PICK j \in 1..Len(rows) : rows[j].circuit = circuit[k].number
    BY <1>2 DEF Recall
  <2>2. PICK h : HasCircuit(rows[j], s.circ, h)
    BY <1>8
  <2> QED
    BY <1>3, <2>1, <2>2 DEF HasCircuit
<1>11. ASSUME NEW g \in Carried(s.circ, s.lit, d)
       PROVE  \E l \in Carried(circuit, light, c) : s.lit[g].number = light[l].number
  <2>1. g \in Lights(s.lit) /\ s.lit[g].cab = d /\ s.lit[g] # NoRow /\ g \in LightIds
    BY DEF Carried, LightsOf, Lights
  <2>2. s.lit[g] # light[g]
    BY <2>1 DEF LightsOf, Lights
  <2>3. PICK j \in 1..Len(rows) : Names(rows[j], s.lit[g])
    BY <1>5, <2>1, <2>2 DEF Read, LightsRead
  <2>4. rows[j].light # NoRow /\ rows[j].light.number = s.lit[g].number
    BY <2>3 DEF Names
  <2>5. PICK l \in Carried(circuit, light, c) : Recalled(rows[j], circuit, light[l])
    BY <1>2, <2>4 DEF Recall
  <2> QED
    BY <2>4, <2>5 DEF Recalled
<1>12. ASSUME NEW l \in Carried(circuit, light, c)
       PROVE  \E g \in Carried(s.circ, s.lit, d) : Point(s.circ, s.lit[g]) = Point(circuit, light[l])
  <2>1. PICK j \in 1..Len(rows) : Recalled(rows[j], circuit, light[l])
    BY <1>2 DEF Recall
  <2>2. rows[j].light # NoRow
    BY <2>1 DEF Recalled
  <2>3. PICK h : HasCircuit(rows[j], s.circ, h) /\ \E g : HasLight(rows[j], s.lit, h, g)
    BY <1>8, <2>2
  <2>4. PICK g : HasLight(rows[j], s.lit, h, g)
    BY <2>3
  <2>5. h \in CircuitsOf(s.circ, d) /\ s.circ[h].number = circuit[light[l].circuit].number
    BY <1>3, <2>1, <2>3 DEF HasCircuit, Recalled
  <2>6. /\ g \in LightsOf(s.lit, d) /\ s.lit[g].number = light[l].number
        /\ s.lit[g].circuit = h /\ s.lit[g].power = light[l].power
    BY <1>3, <2>1, <2>4 DEF HasLight, Recalled
  <2>7. g \in Carried(s.circ, s.lit, d)
    BY <2>5, <2>6 DEF Carried
  <2>8. Point(s.circ, s.lit[g]) = Point(circuit, light[l])
    BY <2>5, <2>6 DEF Point
  <2> QED
    BY <2>7, <2>8
<1> QED
  BY <1>6, <1>7, <1>9, <1>10, <1>11, <1>12 DEF Copy

(* Backups round-trip in every well-typed state, requests in flight or not. *)
LEMMA TypesRoundTrip == TypeInv => BackupRoundTrip
<1> SUFFICES ASSUME TypeInv, NEW c \in cabinets, NEW d \in cabinets,
                    NEW file \in Backups(circuit, light, c), Unambiguous(circuit, light, c),
                    ~Restored(circuit, light, d, file).full
             PROVE  LET s == Restored(circuit, light, d, file)
                    IN /\ c = d => s.circ = circuit /\ s.lit = light
                       /\ CircuitsOf(circuit, d) \cup LightsOf(light, d) = {} =>
                            Backups(s.circ, s.lit, d) = {file}
  BY DEF BackupRoundTrip
<1> DEFINE s == Restored(circuit, light, d, file)
<1>1. ASSUME c = d PROVE s.circ = circuit /\ s.lit = light
  BY <1>1, RestoreInPlace
<1>2. ASSUME CircuitsOf(circuit, d) \cup LightsOf(light, d) = {}
      PROVE  Backups(s.circ, s.lit, d) = {file}
  <2>1. /\ s.circ \in CircuitTable /\ s.lit \in LightTable
        /\ Copy(circuit, light, c, s.circ, s.lit, d)
    BY <1>2, RestoreCopies
  <2>2. circuit \in CircuitTable /\ light \in LightTable
    BY DEF TypeInv, TablesOK
  <2> HIDE DEF s
  <2> QED
    BY <2>1, <2>2, CopiesShareBackups
<1> QED
  BY <1>1, <1>2

(* A backup restored on its cabinet changes nothing, and on an empty one    *)
(* makes a copy that has the same backup: topology.py, restore_cabinet.     *)
THEOREM BackupsRoundTrip == Spec => []BackupRoundTrip
<1>1. Init => TypeInv
  BY InitTypes
<1>2. TypeInv /\ [Next]_vars => TypeInv'
  BY StepTypes
<1>3. TypeInv => BackupRoundTrip
  BY TypesRoundTrip
<1> QED
  BY <1>1, <1>2, <1>3, PTL DEF Spec
=============================================================================
