----------------------------- MODULE Tables_proofs -----------------------------
(* What the statements that write a table keep of it, and sets of numbers. *)
EXTENDS Naturals, Tables, WellFoundedInduction, TLAPS

\* Writing a row of the right type keeps a table typed.
LEMMA PutIsTable ==
  ASSUME NEW table, NEW keys, NEW rows, IsTable(table, keys, rows),
         NEW key \in keys, NEW row \in rows
  PROVE  IsTable(Put(table, key, row), keys, rows)
BY DEF IsTable, Put

\* So does writing several.
LEMMA MergeIsTable ==
  ASSUME NEW table, NEW new, NEW keys, NEW rows, IsTable(table, keys, rows),
         IsTable(new, keys, rows)
  PROVE  IsTable(Merge(table, new), keys, rows)
BY DEF IsTable, Merge

\* And removing rows.
LEMMA RemoveIsTable ==
  ASSUME NEW table, NEW keys, NEW rows, IsTable(table, keys, rows), NEW gone
  PROVE  IsTable(Remove(table, gone), keys, rows)
BY DEF IsTable, Remove

\* A row of a table has the type of its rows.
LEMMA RowOfTable ==
  ASSUME NEW table, NEW keys, NEW rows, IsTable(table, keys, rows),
         NEW key \in DOMAIN table
  PROVE  key \in keys /\ table[key] \in rows
BY DEF IsTable

-------------------------------------------------------------------------------

\* A non-empty set of numbers has a least one.
LEMMA MinExists ==
  ASSUME NEW T \in SUBSET Nat, T # {}
  PROVE  \E x \in T : \A y \in T : x <= y
<1> DEFINE R == OpToRel(<, Nat)
<1>1. IsWellFoundedOn(R, Nat)
  BY NatLessThanWellFounded
<1>2. ASSUME NEW x \in Nat, NEW y \in Nat, ~ (<<y, x>> \in R)
      PROVE  x <= y
  <2>1. ~ (y < x)
    BY <1>2, Zenon DEF OpToRel
  <2> QED
    BY <2>1
<1> HIDE DEF R
<1>3. PICK x \in T : \A y \in T : ~ (<<y, x>> \in R)
  BY <1>1, WFMin
<1> QED
  BY <1>2, <1>3, Zenon

\* A set of positions of a sequence has a last one.
LEMMA MaxExists ==
  ASSUME NEW L \in Nat, NEW S \in SUBSET (1 .. L), S # {}
  PROVE  \E x \in S : \A y \in S : y <= x
<1> DEFINE T == {n \in Nat : L - n \in S}
<1>1. T # {}
  <2>1. PICK s \in S : TRUE
    OBVIOUS
  <2>2. L - s \in Nat /\ L - (L - s) = s
    BY <2>1
  <2> QED
    BY <2>2
<1>2. PICK n \in T : \A m \in T : n <= m
  BY <1>1, MinExists
<1>3. ASSUME NEW y \in S PROVE y <= L - n
  <2>1. y \in 1 .. L /\ L - y \in Nat /\ L - (L - y) = y
    OBVIOUS
  <2>2. L - y \in T
    BY <2>1
  <2>3. n \in Nat /\ n <= L - y
    BY <1>2, <2>2
  <2> HIDE DEF T
  <2> QED
    BY <2>1, <2>3
<1> QED
  BY <1>2, <1>3
===============================================================================
