--------------------------- MODULE DescriptorsProofs ---------------------------
(***************************************************************************)
(* Proofs about Descriptors: what is finished was written in full, writing *)
(* fails only for want of room, and lengths are true.                      *)
(***************************************************************************)
EXTENDS Descriptors, WellFoundedInduction, TLAPS

-----------------------------------------------------------------------------
(* Sums.                                                                   *)

(* A set of naturals with 0 and every successor is all of them.            *)
LEMMA Induction ==
  ASSUME NEW S, 0 \in S, \A n \in Nat : n \in S => n + 1 \in S
  PROVE  Nat \subseteq S
<1>. DEFINE T == Nat \ S
            R == OpToRel(<, Nat)
<1>. SUFFICES ASSUME T # {} PROVE FALSE
  OBVIOUS
<1>1. IsWellFoundedOn(R, Nat)
  BY NatLessThanWellFounded
<1>2. T \subseteq Nat
  OBVIOUS
<1>. HIDE DEF T
<1>3. PICK x \in T : \A y \in T : ~ (<<y, x>> \in R)
  <2>. HIDE DEF R
  <2>. QED  BY <1>1, <1>2, WFMin
<1>4. x \in Nat /\ x \notin S
  BY <1>3 DEF T
<1>5. x - 1 \in Nat /\ (x - 1) + 1 = x
  <2>. HIDE DEF R
  <2>. QED  BY SMT, <1>4
<1>6. <<x - 1, x>> \in R
  <2>. DEFINE y == x - 1
  <2>1. y \in Nat /\ y < x
    <3>. HIDE DEF R
    <3>. QED  BY SMT, <1>4, <1>5
  <2>. HIDE DEF y
  <2>2. \A p, q \in Nat : p < q => <<p, q>> \in OpToRel(<, Nat)
    BY Zenon DEF OpToRel
  <2>3. <<y, x>> \in R
    BY Zenon, <1>4, <2>1, <2>2
  <2>. QED  BY Zenon, <2>3 DEF y
<1>7. x - 1 \in S
  <2>1. x - 1 \notin T
    BY Zenon, <1>3, <1>6
  <2>. QED  BY Zenon, <1>5, <2>1 DEF T
<1>. HIDE DEF R
<1>. QED  BY Zenon, <1>4, <1>5, <1>7

(* Sums up to each position, by recursion.                                 *)
LEMMA SumsExist ==
  ASSUME NEW N \in Nat, NEW values \in [1..N -> Nat]
  PROVE  \E f \in [0..N -> Nat] :
            f[0] = 0 /\ \A n \in 1..N : f[n] = f[n - 1] + values[n]
<1>. DEFINE Sums(f, m) == f[0] = 0 /\ \A n \in 1..m : f[n] = f[n - 1] + values[n]
            S == {m \in Nat : m <= N => \E f \in [0..m -> Nat] : Sums(f, m)}
<1>1. 0 \in S
  <2>. DEFINE zero == [i \in 0..0 |-> 0]
  <2>1. zero \in [0..0 -> Nat]
    BY SMT
  <2>2. zero[0] = 0
    BY SMT
  <2>. HIDE DEF zero
  <2>3. Sums(zero, 0)
    BY SMT, <2>2
  <2>. HIDE DEF Sums
  <2>. QED  BY Zenon, <2>1, <2>3
<1>2. ASSUME NEW m \in Nat, m \in S
      PROVE  m + 1 \in S
  <2>0. m + 1 \in Nat
    BY SMT
  <2>. SUFFICES ASSUME m + 1 <= N
       PROVE  \E f \in [0..(m + 1) -> Nat] : Sums(f, m + 1)
    <3>. HIDE DEF Sums
    <3>. QED  BY Zenon, <2>0
  <2>1. PICK f \in [0..m -> Nat] : Sums(f, m)
    <3>1. m <= N
      BY SMT
    <3>. HIDE DEF Sums
    <3>. QED  BY Zenon, <1>2, <3>1
  <2>. DEFINE g == [i \in 0..(m + 1) |-> IF i = m + 1 THEN f[m] + values[m + 1] ELSE f[i]]
  <2>2. g \in [0..(m + 1) -> Nat]
    BY SMT, <2>1
  <2>3. Sums(g, m + 1)
    <3>1. g[0] = 0
      BY SMT, <2>1
    <3>2. ASSUME NEW n \in 1..(m + 1) PROVE g[n] = g[n - 1] + values[n]
      <4>1. n - 1 \in 0..m /\ g[n - 1] = f[n - 1]
        BY SMT, <2>1
      <4>2. CASE n = m + 1
        BY SMT, <4>1, <4>2
      <4>3. CASE n # m + 1
        <5>1. n \in 1..m /\ g[n] = f[n]
          BY SMT, <4>3
        <5>2. f[n] = f[n - 1] + values[n]
          BY <2>1, <5>1
        <5>. QED  BY <4>1, <5>1, <5>2
      <4>. QED  BY <4>2, <4>3
    <3>. HIDE DEF g
    <3>. QED  BY Zenon, <3>1, <3>2
  <2>. HIDE DEF Sums, g
  <2>. QED  BY Zenon, <2>2, <2>3
<1>. HIDE DEF S
<1>3. Nat \subseteq S
  BY <1>1, <1>2, Induction
<1>4. N \in S /\ N <= N
  BY SMT, <1>3
<1>. QED  BY Zenon, <1>4 DEF S

LEMMA UpToSums ==
  ASSUME NEW values \in Seq(Nat)
  PROVE  /\ UpTo(values) \in [0..Len(values) -> Nat]
         /\ UpTo(values)[0] = 0
         /\ \A n \in 1..Len(values) : UpTo(values)[n] = UpTo(values)[n - 1] + values[n]
<1>. DEFINE N == Len(values)
            Sums(f) == f = [n \in 0..N |-> IF n = 0 THEN 0 ELSE f[n - 1] + values[n]]
            u == UpTo(values)
<1>1. N \in Nat /\ values \in [1..N -> Nat]
  OBVIOUS
<1>2. u = CHOOSE f : Sums(f)
  BY DEF UpTo
<1>. HIDE DEF N
<1>3. PICK f \in [0..N -> Nat] :
         f[0] = 0 /\ \A n \in 1..N : f[n] = f[n - 1] + values[n]
  BY <1>1, SumsExist
<1>4. Sums(f)
  BY SMT, <1>1, <1>3
<1>5. Sums(u)
  <2>. HIDE DEF Sums, u
  <2>. QED  BY Zenon, <1>2, <1>4
<1>. HIDE DEF u
<1>6. u[0] = 0 /\ \A n \in 1..N : u[n] = u[n - 1] + values[n]
  <2>1. \A n \in 0..N : u[n] = IF n = 0 THEN 0 ELSE u[n - 1] + values[n]
    BY Zenon, <1>5
  <2>2. 0 \in 0..N /\ \A n \in 1..N : n \in 0..N /\ n # 0
    BY SMT, <1>1
  <2>. HIDE DEF Sums
  <2>. QED  BY Zenon, <2>1, <2>2
<1>. DEFINE S == {n \in Nat : n <= N => u[n] \in Nat}
<1>7. \A n \in 0..N : u[n] \in Nat
  <2>1. 0 \in S
    BY <1>6
  <2>2. ASSUME NEW n \in Nat, n \in S PROVE n + 1 \in S
    <3>. SUFFICES ASSUME n + 1 <= N PROVE u[n + 1] \in Nat
      BY SMT
    <3>. DEFINE m == n + 1
    <3>1. m \in 1..N /\ m - 1 = n /\ n <= N
      BY SMT, <1>1
    <3>. HIDE DEF m
    <3>2. u[m] = u[m - 1] + values[m]
      BY <1>6, <3>1
    <3>3. u[m - 1] \in Nat /\ values[m] \in Nat
      BY SMT, <1>1, <2>2, <3>1
    <3>4. u[m] \in Nat
      BY SMT, <3>2, <3>3
    <3>. QED  BY <3>4 DEF m
  <2>. HIDE DEF S
  <2>3. Nat \subseteq S
    BY <2>1, <2>2, Induction
  <2>. QED  BY SMT, <2>3, <1>1 DEF S
<1>8. u \in [0..N -> Nat]
  BY SMT, <1>5, <1>7
<1>. QED  BY <1>6, <1>8 DEF u, N

LEMMA Increasing ==
  ASSUME NEW values \in Seq(Nat), NEW i \in Nat, NEW j \in Nat,
         i <= j, j <= Len(values)
  PROVE  UpTo(values)[i] <= UpTo(values)[j]
<1>. DEFINE N == Len(values)
            u == UpTo(values)
            S == {d \in Nat : i + d <= N => u[i] <= u[i + d]}
<1>1. N \in Nat /\ values \in [1..N -> Nat]
  OBVIOUS
<1>2. u \in [0..N -> Nat] /\ \A n \in 1..N : u[n] = u[n - 1] + values[n]
  BY UpToSums
<1>. HIDE DEF u, N
<1>3. 0 \in S
  <2>1. i + 0 = i /\ i \in 0..N
    BY SMT, <1>1 DEF N
  <2>2. u[i] \in Nat
    BY <1>2, <2>1
  <2>3. u[i] <= u[i + 0]
    BY SMT, <2>1, <2>2
  <2>. QED  BY <2>3
<1>4. ASSUME NEW d \in Nat, d \in S PROVE d + 1 \in S
  <2>. SUFFICES ASSUME i + (d + 1) <= N PROVE u[i] <= u[i + (d + 1)]
    BY SMT
  <2>. DEFINE m == i + (d + 1)
  <2>1. m \in 1..N /\ m - 1 = i + d /\ i + d <= N /\ i \in 0..N /\ i + d \in 0..N
    BY SMT, <1>1
  <2>2. u[i] <= u[i + d]
    BY <1>4, <2>1
  <2>. HIDE DEF m, S
  <2>3. u[m] = u[m - 1] + values[m] /\ u[m] \in Nat /\ u[m - 1] \in Nat /\ values[m] \in Nat
    <3>1. u[m] = u[m - 1] + values[m]
      BY <1>2, <2>1
    <3>2. m \in 0..N /\ m - 1 \in 0..N
      BY SMT, <1>1, <2>1
    <3>. QED  BY <1>1, <1>2, <2>1, <3>1, <3>2
  <2>4. u[i] \in Nat
    BY <1>2, <2>1
  <2>5. u[i] <= u[m]
    <3>. DEFINE x == u[i]
                y == u[m - 1]
                z == values[m]
    <3>1. x \in Nat /\ y \in Nat /\ z \in Nat /\ x <= y /\ u[m] = y + z
      BY <2>1, <2>2, <2>3, <2>4
    <3>. HIDE DEF x, y, z
    <3>2. x <= y + z
      BY SMT, <3>1
    <3>. QED  BY <3>1, <3>2 DEF x
  <2>. QED  BY <2>5 DEF m
<1>. HIDE DEF S
<1>5. Nat \subseteq S
  BY <1>3, <1>4, Induction
<1>6. j - i \in Nat /\ i + (j - i) = j
  BY SMT
<1>. QED  BY SMT, <1>5, <1>6 DEF S, u, N

-----------------------------------------------------------------------------
(* Payloads.                                                               *)

Field == [bytes : Nat, whole : BOOLEAN]
Written == {i \in Items : i.name \in Names}

(* A slice is followed by a byte: Cursor::write may cut the slice, but     *)
(* write_all of the byte then fails.                                       *)
WellShaped(p) ==
  /\ p \in Seq(Field)
  /\ Len(p) \in 1..11
  /\ \A k \in 1..Len(p) : p[k].whole \/ (k < Len(p) /\ p[k + 1] = U8)

LEMMA NamesAre ==
  /\ DOMAIN BlockPayload = {"InterfaceAssociation", "Interface", "Endpoint", "ACHeader"}
  /\ DOMAIN EntityPayload = {"ClockSource", "ClockMultiplier", "InputTerminal", "OutputTerminal"}
  /\ DOMAIN StreamPayload = {"FormatType1", "ASInterface", "ASEndpoint"}
  /\ DOMAIN HeaderPayload = {"IfaceHeader"}
  /\ DOMAIN BaseSize = DOMAIN EntityPayload \cup DOMAIN StreamPayload \cup DOMAIN HeaderPayload
       \cup {"ClockSelector", "SelectorUnit", "ProcessingUnit", "ExtensionUnit"}
BY SMT DEF BlockPayload, EntityPayload, StreamPayload, HeaderPayload, BaseSize

LEMMA Payloads ==
  ASSUME NEW i \in Written
  PROVE  \/ /\ i.name \in DOMAIN BlockPayload
            /\ \E n \in {5, 6, 7} : Payload(i) = <<Whole(n)>> /\ (i.name = "ACHeader" => n = 7)
         \/ i.name = "ClockSource" /\ Payload(i) = <<U8, U8, U8, U8, U8, U8>>
         \/ i.name = "ClockMultiplier" /\ Payload(i) = <<U8, U8, U8, U8, U8>>
         \/ i.name = "InputTerminal"
              /\ Payload(i) = <<U8, U8, U16, U8, U8, U8, Slice(4), U8, U8, U8, U8>>
         \/ i.name = "OutputTerminal" /\ Payload(i) = <<U8, U8, U16, U8, U8, U8, U8, U8, U8>>
         \/ i.name = "FormatType1" /\ Payload(i) = <<U8, U8, U8, U8>>
         \/ i.name = "ASInterface" /\ Payload(i) = <<U8, U8, U8, U8, U32, U8, Slice(4), U8>>
         \/ i.name = "ASEndpoint" /\ Payload(i) = <<U8, U8, U8, U8, U16>>
         \/ i.name = "IfaceHeader" /\ Payload(i) = <<U8, U8, U8, U8, U16, U8>>
         \/ i.name \in {"ClockSelector", "SelectorUnit"}
              /\ Payload(i) = <<U8, U8, U8, Slice(i.n), U8, U8>>
         \/ i.name = "ProcessingUnit"
              /\ Payload(i) = <<U8, U8, U16, U8, Slice(i.n), U8, Slice(4), U8, U16, U8>>
         \/ i.name = "ExtensionUnit"
              /\ Payload(i) = <<U8, U8, U16, U8, Slice(i.n), U8, Slice(4), U8, U8, U8>>
<1>1. CASE i.name \in DOMAIN BlockPayload
  <2>1. Payload(i) = BlockPayload[i.name]
    BY SMT, <1>1, NamesAre DEF Payload
  <2>2. \/ BlockPayload[i.name] = <<Whole(5)>> /\ i.name # "ACHeader"
        \/ BlockPayload[i.name] = <<Whole(6)>> /\ i.name # "ACHeader"
        \/ BlockPayload[i.name] = <<Whole(7)>>
    BY SMT, <1>1, NamesAre DEF BlockPayload
  <2>3. \E n \in {5, 6, 7} : Payload(i) = <<Whole(n)>> /\ (i.name = "ACHeader" => n = 7)
    BY Zenon, <2>1, <2>2
  <2>. QED  BY <1>1, <2>3
<1>2. CASE i.name \in DOMAIN EntityPayload
  <2>1. Payload(i) = EntityPayload[i.name]
    BY SMT, <1>2, NamesAre DEF Payload
  <2>2. CASE i.name = "ClockSource"
    BY SMT, <2>1, <2>2 DEF EntityPayload
  <2>3. CASE i.name = "ClockMultiplier"
    BY SMT, <2>1, <2>3 DEF EntityPayload
  <2>4. CASE i.name = "InputTerminal"
    BY SMT, <2>1, <2>4 DEF EntityPayload
  <2>5. CASE i.name = "OutputTerminal"
    BY SMT, <2>1, <2>5 DEF EntityPayload
  <2>. QED  BY <1>2, <2>2, <2>3, <2>4, <2>5, NamesAre
<1>3. CASE i.name \in DOMAIN StreamPayload
  <2>1. Payload(i) = StreamPayload[i.name]
    BY SMT, <1>3, NamesAre DEF Payload
  <2>2. CASE i.name = "FormatType1"
    BY SMT, <2>1, <2>2 DEF StreamPayload
  <2>3. CASE i.name = "ASInterface"
    BY SMT, <2>1, <2>3 DEF StreamPayload
  <2>4. CASE i.name = "ASEndpoint"
    BY SMT, <2>1, <2>4 DEF StreamPayload
  <2>. QED  BY <1>3, <2>2, <2>3, <2>4, NamesAre
<1>4. CASE i.name \in DOMAIN HeaderPayload
  BY SMT, <1>4, NamesAre DEF Payload, HeaderPayload
<1>5. CASE i.name \in {"ClockSelector", "SelectorUnit", "ProcessingUnit", "ExtensionUnit"}
  <2>1. Payload(i) = UnitPayload(i.n)[i.name]
    BY SMT, <1>5, NamesAre DEF Payload
  <2>2. CASE i.name \in {"ClockSelector", "SelectorUnit"}
    <3>1. CASE i.name = "ClockSelector"
      BY SMT, <2>1, <3>1 DEF UnitPayload
    <3>2. CASE i.name = "SelectorUnit"
      BY SMT, <2>1, <3>2 DEF UnitPayload
    <3>. QED  BY <2>2, <3>1, <3>2
  <2>3. CASE i.name = "ProcessingUnit"
    BY SMT, <2>1, <2>3 DEF UnitPayload
  <2>4. CASE i.name = "ExtensionUnit"
    BY SMT, <2>1, <2>4 DEF UnitPayload
  <2>. QED  BY <1>5, <2>2, <2>3, <2>4
<1>6. i.name \in DOMAIN BlockPayload \cup DOMAIN BaseSize
  BY DEF Written, Names
<1>. QED  BY Zenon, <1>1, <1>2, <1>3, <1>4, <1>5, <1>6, NamesAre

LEMMA Shapes ==
  ASSUME NEW i \in Written
  PROVE  WellShaped(Payload(i))
<1>. DEFINE n == i.n
<1>1. n \in Nat
  BY DEF Written, Items
<1>. HIDE DEF n
<1>2. /\ U8 \in Field /\ U16 \in Field /\ U32 \in Field /\ U8.whole /\ U16.whole /\ U32.whole
      /\ Slice(4) \in Field /\ Slice(n) \in Field
      /\ \A k \in Nat : Whole(k) \in Field /\ Whole(k).whole
  BY SMT, <1>1 DEF U8, U16, U32, Slice, Whole, Field
<1>3. \A k \in Nat : WellShaped(<<Whole(k)>>)
  BY SMT, <1>2 DEF WellShaped
<1>4. /\ WellShaped(<<U8, U8, U8, U8, U8, U8>>)
      /\ WellShaped(<<U8, U8, U8, U8, U8>>)
      /\ WellShaped(<<U8, U8, U8, U8>>)
      /\ WellShaped(<<U8, U8, U8, U8, U16>>)
      /\ WellShaped(<<U8, U8, U8, U8, U16, U8>>)
  BY SMT, <1>2 DEF WellShaped
<1>5. WellShaped(<<U8, U8, U16, U8, U8, U8, Slice(4), U8, U8, U8, U8>>)
  BY SMT, <1>2 DEF WellShaped
<1>6. WellShaped(<<U8, U8, U16, U8, U8, U8, U8, U8, U8>>)
  BY SMT, <1>2 DEF WellShaped
<1>7. WellShaped(<<U8, U8, U8, U8, U32, U8, Slice(4), U8>>)
  BY SMT, <1>2 DEF WellShaped
<1>8. WellShaped(<<U8, U8, U8, Slice(n), U8, U8>>)
  BY SMT, <1>2 DEF WellShaped
<1>9. WellShaped(<<U8, U8, U16, U8, Slice(n), U8, Slice(4), U8, U16, U8>>)
  BY SMT, <1>2 DEF WellShaped
<1>10. WellShaped(<<U8, U8, U16, U8, Slice(n), U8, Slice(4), U8, U8, U8>>)
  BY SMT, <1>2 DEF WellShaped
<1>. QED
  BY Zenon, 5 \in Nat, 6 \in Nat, 7 \in Nat, <1>3, <1>4, <1>5, <1>6, <1>7, <1>8, <1>9, <1>10, Payloads DEF n

-----------------------------------------------------------------------------
(* Where a field and an item begin.                                        *)

FieldsUpTo(i) == UpTo(Bytes(Payload(i)))
ItemsUpTo(items) == UpTo(Needs(items))

LEMMA FieldSums ==
  ASSUME NEW i \in Written
  PROVE  /\ FieldsUpTo(i) \in [0..Len(Payload(i)) -> Nat]
         /\ FieldsUpTo(i)[0] = 0
         /\ \A k \in 1..Len(Payload(i)) :
              FieldsUpTo(i)[k] = FieldsUpTo(i)[k - 1] + Payload(i)[k].bytes
         /\ FieldsUpTo(i)[Len(Payload(i))] = BytesIn(Payload(i))
         /\ \A k \in 0..Len(Payload(i)) : FieldsUpTo(i)[k] <= BytesIn(Payload(i))
         /\ BytesIn(Payload(i)) \in Nat
<1>. DEFINE p == Payload(i)
            values == Bytes(p)
<1>1. p \in Seq(Field) /\ Len(p) \in Nat
  BY Shapes DEF WellShaped
<1>. HIDE DEF p
<1>2. /\ values \in Seq(Nat) /\ Len(values) = Len(p)
      /\ \A k \in 1..Len(p) : values[k] = p[k].bytes
  <2>1. \A k \in 1..Len(p) : p[k] \in Field
    BY SMT, <1>1
  <2>2. \A k \in 1..Len(p) : p[k].bytes \in Nat
    BY <2>1 DEF Field
  <2>. QED  BY SMT, <1>1, <2>2 DEF Bytes
<1>3. BytesIn(p) = UpTo(values)[Len(p)]
  BY <1>2 DEF BytesIn, Sum
<1>. HIDE DEF values
<1>4. /\ UpTo(values) \in [0..Len(p) -> Nat]
      /\ UpTo(values)[0] = 0
      /\ \A k \in 1..Len(p) : UpTo(values)[k] = UpTo(values)[k - 1] + p[k].bytes
  BY <1>2, UpToSums
<1>5. \A k \in 0..Len(p) : UpTo(values)[k] <= BytesIn(p)
  <2>1. ASSUME NEW k \in 0..Len(p) PROVE UpTo(values)[k] <= UpTo(values)[Len(p)]
    <3>1. k \in Nat /\ k <= Len(p) /\ Len(p) <= Len(values)
      BY SMT, <1>1, <1>2
    <3>. QED  BY <1>1, <1>2, <3>1, Increasing
  <2>. QED  BY <1>3, <2>1
<1>6. BytesIn(p) \in Nat
  <2>1. Len(p) \in 0..Len(p)
    BY SMT, <1>1
  <2>. QED  BY <1>3, <1>4, <2>1
<1>. QED  BY <1>3, <1>4, <1>5, <1>6 DEF FieldsUpTo, p, values

LEMMA ItemSums ==
  ASSUME NEW items \in Seq(Written)
  PROVE  /\ ItemsUpTo(items) \in [0..Len(items) -> Nat]
         /\ ItemsUpTo(items)[0] = 0
         /\ \A k \in 1..Len(items) :
              ItemsUpTo(items)[k] = ItemsUpTo(items)[k - 1] + 2 + BytesIn(Payload(items[k]))
         /\ ItemsUpTo(items)[Len(items)] = Sum(Needs(items)) /\ Sum(Needs(items)) \in Nat
         /\ \A k \in 0..Len(items) : ItemsUpTo(items)[k] <= Sum(Needs(items))
<1>. DEFINE values == Needs(items)
            n == Len(items)
<1>1. n \in Nat /\ \A k \in 1..n : items[k] \in Written
  BY SMT
<1>2. \A k \in 1..n : BytesIn(Payload(items[k])) \in Nat
  BY <1>1, FieldSums
<1>3. /\ values \in Seq(Nat) /\ Len(values) = n
      /\ \A k \in 1..n : values[k] = 2 + BytesIn(Payload(items[k]))
  BY SMT, <1>1, <1>2 DEF Needs
<1>4. Sum(values) = UpTo(values)[n]
  BY <1>3 DEF Sum
<1>. HIDE DEF values, n
<1>5. /\ UpTo(values) \in [0..n -> Nat]
      /\ UpTo(values)[0] = 0
      /\ \A k \in 1..n : UpTo(values)[k] = UpTo(values)[k - 1] + values[k]
  BY <1>3, UpToSums
<1>6. \A k \in 1..n :
         UpTo(values)[k] = UpTo(values)[k - 1] + 2 + BytesIn(Payload(items[k]))
  <2>1. ASSUME NEW k \in 1..n
        PROVE  UpTo(values)[k] = UpTo(values)[k - 1] + 2 + BytesIn(Payload(items[k]))
    <3>1. UpTo(values)[k - 1] \in Nat
      <4>1. k - 1 \in 0..n
        BY SMT, <1>1
      <4>. QED  BY <1>5, <4>1
    <3>2. UpTo(values)[k] = UpTo(values)[k - 1] + (2 + BytesIn(Payload(items[k])))
      BY <1>3, <1>5
    <3>. DEFINE before == UpTo(values)[k - 1]
                bytes == BytesIn(Payload(items[k]))
    <3>3. before \in Nat /\ bytes \in Nat
      BY <1>2, <3>1
    <3>. HIDE DEF before, bytes
    <3>4. before + (2 + bytes) = before + 2 + bytes
      BY SMT, <3>3
    <3>. QED  BY <3>2, <3>4 DEF before, bytes
  <2>. QED  BY <2>1
<1>7. \A k \in 0..n : UpTo(values)[k] <= Sum(values)
  <2>1. ASSUME NEW k \in 0..n PROVE UpTo(values)[k] <= UpTo(values)[n]
    <3>1. k \in Nat /\ k <= n /\ n <= Len(values)
      BY SMT, <1>1, <1>3
    <3>. QED  BY <1>1, <1>3, <3>1, Increasing
  <2>. QED  BY <1>4, <2>1
<1>8. Sum(values) \in Nat
  <2>1. n \in 0..n
    BY SMT, <1>1
  <2>. QED  BY <1>4, <1>5, <2>1
<1>. QED  BY <1>4, <1>5, <1>6, <1>7, <1>8 DEF ItemsUpTo, values, n

-----------------------------------------------------------------------------
(* The inductive invariant.                                                *)

Items1 == Len(job.items)
Begin == ItemsUpTo(job.items)[item - 1]
Here == Begin + 2 + FieldsUpTo(Current)[field - 1]

(* What is true of an item that was finished.                              *)
Entry(i) ==
  [item |-> i, bytes |-> 2 + BytesIn(Payload(i)),
   bLength |-> IF job.via = "writer" \/ i.name \in DOMAIN BlockPayload
                 THEN (2 + BytesIn(Payload(i))) % 256 ELSE size(i)]

Typed ==
  /\ job \in Jobs /\ room \in Rooms /\ room \in Nat
  /\ item \in 1..Items1 + 1 /\ field \in 0..12
  /\ pos \in 0..room /\ start \in 0..pos
  /\ status \in {"writing", "ok", "overflow"}
  /\ status = "ok" => item = Items1 + 1 /\ field = 0

History ==
  /\ Len(finished) = item - 1
  /\ finished \in Seq({Entry(i) : i \in Written})
  /\ \A k \in 1..item - 1 : finished[k] = Entry(job.items[k])

(* The buffer holds what came before, up to the field that is due; or it   *)
(* is full, a slice was cut, and a byte is due.                            *)
Between == field = 0 /\ pos = Begin
Inside ==
  /\ item <= Items1 /\ field \in 1..Len(Payload(Current)) + 1
  /\ start = Begin
  /\ \/ pos = Here
     \/ /\ pos = room /\ room < Here
        /\ field <= Len(Payload(Current)) /\ Payload(Current)[field] = U8

Position ==
  IF status = "overflow" THEN room < Needed ELSE Between \/ Inside

IInv == Typed /\ History /\ Position

(* What is known of the job.                                               *)
LEMMA JobFacts ==
  ASSUME job \in Jobs
  PROVE  /\ job.items \in Seq(Written) /\ Items1 \in Nat
         /\ \A k \in 1..Items1 : job.items[k] \in Written
<1>1. job.items \in Seq(Written)
  BY JobAssumption DEF Written
<1>. QED  BY SMT, <1>1 DEF Items1

LEMMA CurrentFacts ==
  ASSUME Typed, item <= Items1
  PROVE  /\ Current \in Written
         /\ Begin \in Nat
         /\ Begin + 2 + BytesIn(Payload(Current)) = ItemsUpTo(job.items)[item]
         /\ Begin + 2 + BytesIn(Payload(Current)) <= Needed /\ Needed \in Nat
<1>. DEFINE items == job.items
            u == ItemsUpTo(items)
<1>1. items \in Seq(Written) /\ Len(items) \in Nat
  BY JobFacts DEF Typed, Items1
<1>2. item \in 1..Len(items)
  BY SMT, <1>1 DEF Typed, Items1
<1>3. items[item] \in Written
  BY SMT, <1>1, <1>2
<1>. HIDE DEF items, u
<1>4. BytesIn(Payload(items[item])) \in Nat
  BY <1>3, FieldSums
<1>5. /\ u[item] = u[item - 1] + 2 + BytesIn(Payload(items[item]))
      /\ u \in [0..Len(items) -> Nat]
      /\ u[item] <= Sum(Needs(items)) /\ Sum(Needs(items)) \in Nat
  <2>1. item \in 0..Len(items)
    BY SMT, <1>1, <1>2
  <2>. QED  BY <1>1, <1>2, <2>1, ItemSums DEF u
<1>6. u[item - 1] \in Nat
  BY SMT, <1>1, <1>2, <1>5
<1>. QED
  BY <1>3, <1>5, <1>6 DEF items, u, Current, Begin, Needed

LEMMA InitIInv == Init => IInv
<1>. SUFFICES ASSUME Init PROVE IInv
  OBVIOUS
<1>1. job.items \in Seq(Written) /\ Items1 \in Nat /\ room \in Nat /\ room \in Rooms
  BY JobFacts, JobAssumption DEF Init
<1>2. Typed
  BY SMT, <1>1 DEF Init, Typed
<1>3. History
  BY SMT DEF Init, History
<1>4. Between
  BY <1>1, ItemSums DEF Init, Between, Begin
<1>. QED  BY <1>2, <1>3, <1>4 DEF Init, IInv, Position

LEMMA BeginItemStep ==
  ASSUME IInv, BeginItem
  PROVE  IInv'
<1>1. /\ Typed /\ status = "writing" /\ item <= Items1 /\ field = 0
      /\ pos = Begin /\ pos \in Nat /\ room \in Nat /\ pos <= room
      /\ item \in Nat
  BY SMT, JobFacts DEF IInv, Position, Between, Inside, BeginItem, Writing, Items1, Typed
<1>2. /\ job' = job /\ room' = room /\ item' = item /\ finished' = finished
      /\ start' = pos
  BY DEF BeginItem
<1>3. /\ Begin' = Begin /\ Current' = Current /\ Needed' = Needed /\ Items1' = Items1
  BY <1>2 DEF Begin, Current, Needed, Items1
<1>4. /\ Current \in Written /\ Begin \in Nat
      /\ Begin + 2 + BytesIn(Payload(Current)) <= Needed /\ Needed \in Nat
      /\ BytesIn(Payload(Current)) \in Nat /\ Len(Payload(Current)) \in Nat
  BY <1>1, CurrentFacts, FieldSums, Shapes DEF WellShaped
<1>5. History'
  BY <1>2 DEF IInv, History, Entry
<1>6. CASE PrefixFits
  <2>1. pos' = pos + 2 /\ field' = 1 /\ status' = "writing" /\ pos + 2 <= room
    BY <1>1, <1>6 DEF BeginItem, PrefixFits
  <2>2. Typed'
    BY SMT, <1>1, <1>2, <1>3, <2>1 DEF Typed
  <2>3. Here' = Begin + 2
    <3>1. FieldsUpTo(Current)[0] = 0
      BY <1>4, FieldSums
    <3>2. Here' = Begin + 2 + FieldsUpTo(Current)[1 - 1]
      BY <1>3, <2>1 DEF Here
    <3>. QED  BY SMT, <1>4, <3>1, <3>2
  <2>4. Inside'
    BY SMT, <1>1, <1>2, <1>3, <1>4, <2>1, <2>3 DEF Inside
  <2>. QED  BY <1>5, <2>1, <2>2, <2>4 DEF IInv, Position
<1>7. CASE ~PrefixFits
  <2>1. pos' = pos /\ field' = field /\ status' = "overflow" /\ ~(pos + 2 <= room)
    BY <1>7 DEF BeginItem, PrefixFits
  <2>2. Typed'
    BY SMT, <1>1, <1>2, <1>3, <2>1 DEF Typed
  <2>3. room < Needed
    <3>. DEFINE b == BytesIn(Payload(Current))
                n == Needed
    <3>1. Begin + 2 + b <= n /\ b \in Nat /\ n \in Nat
      BY <1>4
    <3>. HIDE DEF b, n
    <3>2. room < n
      BY SMT, <1>1, <2>1, <3>1
    <3>. QED  BY <3>2 DEF n
  <2>. QED  BY <1>2, <1>3, <1>5, <2>1, <2>2, <2>3 DEF IInv, Position
<1>. QED  BY <1>6, <1>7

(* A field is written, cut or refused.                                     *)
LEMMA WriteFieldStep ==
  ASSUME IInv, WriteField
  PROVE  IInv'
<1>. DEFINE p == Payload(Current)
            f == p[field]
            u == FieldsUpTo(Current)
            b == Begin
            need == Needed
<1>1. /\ Typed /\ status = "writing" /\ item <= Items1
      /\ pos \in Nat /\ room \in Nat /\ pos <= room /\ item \in Nat
      /\ field \in 1..Len(p)
  BY SMT, JobFacts DEF IInv, WriteField, Writing, Items1, Typed
<1>2. /\ job' = job /\ room' = room /\ item' = item /\ finished' = finished
      /\ start' = start
  BY DEF WriteField
<1>3. /\ Begin' = Begin /\ Current' = Current /\ Needed' = Needed /\ Items1' = Items1
  BY <1>2 DEF Begin, Current, Needed, Items1
<1>4. /\ Current \in Written /\ b \in Nat /\ need \in Nat
      /\ b + 2 + BytesIn(p) <= need
  BY <1>1, CurrentFacts
<1>5. /\ p \in Seq(Field) /\ Len(p) \in 1..11
      /\ \A k \in 1..Len(p) : p[k].whole \/ (k < Len(p) /\ p[k + 1] = U8)
  BY <1>4, Shapes DEF WellShaped
<1>6. /\ f \in Field /\ f.bytes \in Nat /\ f.whole \in BOOLEAN
  <2>1. f \in Field
    <3>. HIDE DEF p
    <3>. QED  BY SMT, <1>1, <1>5
  <2>. QED  BY <2>1 DEF Field
<1>7. /\ u[field - 1] \in Nat /\ u[field] = u[field - 1] + f.bytes
      /\ u[field] <= BytesIn(p) /\ BytesIn(p) \in Nat
  <2>1. field - 1 \in 0..Len(p) /\ field \in 0..Len(p)
    <3>. HIDE DEF p
    <3>. QED  BY SMT, <1>1, <1>5
  <2>. QED  BY <1>1, <1>4, <2>1, FieldSums
<1>8. /\ start = b
      /\ \/ pos = b + 2 + u[field - 1]
         \/ /\ pos = room /\ room < b + 2 + u[field - 1]
            /\ f = U8
  BY <1>1, SMT DEF IInv, Position, Between, Inside, Here
<1>9. History'
  BY <1>2 DEF IInv, History, Entry
<1>10. /\ pos' = pos + Shorter(f.bytes, Free)
       /\ Fails(f) => status' = "overflow" /\ field' = field
       /\ ~Fails(f) => status' = "writing" /\ field' = field + 1
  BY <1>1 DEF WriteField
<1>. DEFINE whole == f.whole
            bytes == f.bytes
<1>11. Shorter(f.bytes, Free) = IF bytes < room - pos THEN bytes ELSE room - pos
  BY DEF Shorter, Free
<1>12. Fails(f) <=> bytes > room - pos /\ (whole \/ room - pos = 0)
  BY DEF Fails, Free
<1>13. f = U8 => bytes = 1 /\ whole
  BY DEF U8, Whole
<1>14. /\ pos' = pos + (IF bytes < room - pos THEN bytes ELSE room - pos)
       /\ bytes \in Nat /\ whole \in BOOLEAN
       /\ Len(p) \in 1..11 /\ field \in 1..Len(p)
  BY <1>1, <1>5, <1>6, <1>10, <1>11
<1>15. Typed'
  <2>1. pos' \in 0..room /\ pos <= pos'
    <3>. HIDE DEF bytes, p
    <3>. QED  BY SMT, <1>1, <1>14
  <2>2. field' \in 0..12
    <3>. DEFINE n == Len(p)
    <3>1. field' = field \/ field' = field + 1
      BY <1>10
    <3>2. field \in 1..n /\ n \in 1..11
      BY <1>14
    <3>. HIDE DEF n
    <3>3. field \in Nat /\ field <= 11
      BY SMT, <3>2
    <3>. QED  BY SMT, <3>1, <3>3
  <2>3. status' \in {"writing", "overflow"}
    BY <1>10
  <2>. QED  BY SMT, <1>1, <1>2, <1>3, <2>1, <2>2, <2>3 DEF Typed
<1>16. CASE Fails(f)
  <2>1. status' = "overflow"
    BY <1>10, <1>16
  <2>2. room < need
    <3>. DEFINE before == u[field - 1]
                all == BytesIn(p)
    <3>1. /\ bytes > room - pos
          /\ pos = b + 2 + before \/ room < b + 2 + before
          /\ before + bytes <= all /\ b + 2 + all <= need
          /\ before \in Nat /\ all \in Nat
      BY <1>4, <1>7, <1>8, <1>12, <1>16
    <3>. HIDE DEF before, all, bytes, b, need
    <3>. QED  BY SMT, <1>1, <1>4, <1>14, <3>1
  <2>. QED  BY <1>2, <1>3, <1>9, <1>15, <2>1, <2>2 DEF IInv, Position
<1>17. CASE ~Fails(f)
  <2>1. status' = "writing" /\ field' = field + 1
    BY <1>10, <1>17
  <2>. DEFINE before == u[field - 1]
              here == Here'
  <2>2. here = b + 2 + (before + bytes)
    <3>1. (field + 1) - 1 = field
      BY SMT, <1>1, <1>14
    <3>2. Here' = Begin + 2 + FieldsUpTo(Current)[(field + 1) - 1]
      BY <1>3, <2>1 DEF Here
    <3>. QED  BY <1>7, <3>1, <3>2
  <2>3. \/ pos' = here
        \/ pos' = room /\ room < here /\ ~whole
    <3>1. /\ ~(bytes > room - pos /\ (whole \/ room - pos = 0))
          /\ \/ pos = b + 2 + before
             \/ pos = room /\ room < b + 2 + before /\ bytes = 1 /\ whole
          /\ before \in Nat
      BY <1>7, <1>8, <1>12, <1>13, <1>17
    <3>. HIDE DEF before, bytes, b, whole, here
    <3>. QED  BY SMT, <1>1, <1>4, <1>14, <2>2, <3>1
  <2>4. ~whole => field + 1 <= Len(p) /\ p[field + 1] = U8
    <3>1. ~whole => field < Len(p) /\ p[field + 1] = U8
      BY <1>5, <1>14
    <3>2. field < Len(p) => field + 1 <= Len(p)
      <4>. HIDE DEF p
      <4>. QED  BY SMT, <1>14
    <3>. QED  BY <3>1, <3>2
  <2>5. field + 1 \in 1..Len(p) + 1
    <3>. HIDE DEF p
    <3>. QED  BY SMT, <1>14
  <2>6. Inside'
    <3>1. /\ item' <= Items1' /\ field' \in 1..Len(Payload(Current')) + 1
          /\ start' = Begin'
      BY <1>1, <1>2, <1>3, <1>8, <2>1, <2>5
    <3>2. \/ pos' = Here'
          \/ /\ pos' = room' /\ room' < Here'
             /\ field' <= Len(Payload(Current')) /\ Payload(Current')[field'] = U8
      BY <1>2, <1>3, <2>1, <2>3, <2>4
    <3>. QED  BY <3>1, <3>2 DEF Inside
  <2>. QED  BY <1>9, <1>15, <2>1, <2>6 DEF IInv, Position
<1>. QED  BY <1>16, <1>17

(* The last field was followed by nothing, so it was not a cut slice.      *)
LEMMA FinishItemStep ==
  ASSUME IInv, FinishItem
  PROVE  IInv'
<1>. DEFINE p == Payload(Current)
            b == Begin
            all == BytesIn(p)
            items == job.items
<1>1. /\ Typed /\ History /\ status = "writing" /\ item <= Items1
      /\ pos \in Nat /\ room \in Nat /\ pos <= room /\ start \in 0..pos /\ item \in Nat
      /\ item \in 1..Items1 /\ Items1 \in Nat
      /\ field = Len(p) + 1
  BY SMT, JobFacts DEF IInv, FinishItem, Writing, Items1, Typed
<1>2. /\ job' = job /\ room' = room /\ pos' = pos /\ start' = start /\ status' = status
      /\ item' = item + 1 /\ field' = 0
  BY DEF FinishItem
<1>3. Items1' = Items1
  BY <1>2 DEF Items1
<1>4. /\ Current \in Written /\ b \in Nat
      /\ b + 2 + all = ItemsUpTo(items)[item]
      /\ Len(p) \in Nat /\ FieldsUpTo(Current)[Len(p)] = all /\ all \in Nat
  BY <1>1, CurrentFacts, FieldSums, Shapes DEF WellShaped
<1>5. start = b /\ pos = b + 2 + all
  <2>1. (Len(p) + 1) - 1 = Len(p) /\ ~(Len(p) + 1 <= Len(p)) /\ Len(p) + 1 # 0
    <3>. HIDE DEF p
    <3>. QED  BY SMT, <1>4
  <2>2. ~Between /\ Inside
    BY <1>1, <2>1 DEF IInv, Position, Between
  <2>. QED  BY <1>1, <1>4, <2>1, <2>2 DEF Inside, Here
<1>6. pos - start = 2 + all
  <2>. HIDE DEF b, all
  <2>. QED  BY SMT, <1>1, <1>4, <1>5
<1>7. finished' = Append(finished, Entry(Current))
  BY <1>6 DEF FinishItem, Entry
<1>8. History'
  <2>. DEFINE S == {Entry(i) : i \in Written}
              e == Entry(Current)
              g == finished'
              entry(k) == Entry(items[k])
  <2>1. e \in S /\ e = entry(item)
    BY <1>4 DEF Current
  <2>2. /\ finished \in Seq(S) /\ Len(finished) = item - 1
        /\ \A k \in 1..item - 1 : finished[k] = entry(k)
    BY <1>1 DEF History
  <2>3. g = Append(finished, e)
    BY <1>7
  <2>. HIDE DEF S, e, g, entry
  <2>4. /\ g \in Seq(S) /\ Len(g) = (item + 1) - 1
        /\ \A k \in 1..(item + 1) - 1 : g[k] = entry(k)
    BY SMT, <1>1, <2>1, <2>2, <2>3
  <2>5. \A i : Entry(i)' = Entry(i)
    BY <1>2 DEF Entry
  <2>. QED  BY <1>2, <2>4, <2>5 DEF History, S, g, entry
<1>9. Typed'
  BY SMT, <1>1, <1>2, <1>3 DEF Typed
<1>10. Between'
  <2>1. Begin' = ItemsUpTo(items)[(item + 1) - 1]
    BY <1>2 DEF Begin
  <2>2. (item + 1) - 1 = item
    BY SMT, <1>1
  <2>. QED  BY <1>2, <1>4, <1>5, <2>1, <2>2 DEF Between
<1>. QED  BY <1>1, <1>2, <1>8, <1>9, <1>10 DEF IInv, Position

LEMMA FinishStep ==
  ASSUME IInv, Finish
  PROVE  IInv'
<1>1. /\ job' = job /\ room' = room /\ pos' = pos /\ start' = start
      /\ item' = item /\ field' = field /\ finished' = finished
      /\ status = "writing" /\ status' = "ok" /\ item > Items1
  BY DEF Finish, Items1
<1>2. Items1' = Items1 /\ Begin' = Begin /\ Items1 \in Nat
  BY <1>1, JobFacts DEF Items1, Begin, IInv, Typed
<1>3. Between
  BY SMT, <1>1, <1>2 DEF IInv, Position, Inside, Typed
<1>4. Typed'
  BY SMT, <1>1, <1>2, <1>3 DEF IInv, Typed, Between
<1>5. History'
  BY <1>1 DEF IInv, History, Entry
<1>6. Between'
  BY <1>1, <1>2, <1>3 DEF Between
<1>. QED  BY <1>1, <1>4, <1>5, <1>6 DEF IInv, Position

(* The inductive invariant holds in every reachable state.                 *)
THEOREM Invariance == Spec => []IInv
<1>1. IInv /\ [Next]_vars => IInv'
  <2>1. CASE UNCHANGED vars
    BY <2>1 DEF vars, IInv, Typed, History, Entry, Position, Between, Inside,
                Begin, Here, Current, Items1, Needed
  <2>2. CASE Next
    BY <2>2, BeginItemStep, WriteFieldStep, FinishItemStep, FinishStep DEF Next
  <2>. QED  BY <2>1, <2>2
<1>. QED  BY InitIInv, <1>1, PTL DEF Spec

(* Positions stay in the buffer, the payload and the job.                  *)
THEOREM TypeCorrect == Spec => []TypeOK
<1>1. IInv => TypeOK
  <2>. SUFFICES ASSUME IInv PROVE TypeOK
    OBVIOUS
  <2>1. Len(Payload(Item("InputTerminal", 0))) = 11
    <3>1. Payload(Item("InputTerminal", 0)) = EntityPayload.InputTerminal
      BY SMT, NamesAre DEF Payload, Item
    <3>. QED  BY SMT, <3>1 DEF EntityPayload
  <2>2. /\ pos \in 0..room /\ start \in 0..pos
        /\ item \in 1..Len(job.items) + 1
        /\ Len(finished) = item - 1
        /\ status \in {"writing", "ok", "overflow"}
    BY DEF IInv, Typed, History, Items1
  <2>3. field \in 0..11 + 1
    BY SMT DEF IInv, Typed
  <2>. QED  BY <2>1, <2>2, <2>3 DEF TypeOK
<1>. QED  BY <1>1, Invariance, PTL

(* Every descriptor that was finished was written in full, though          *)
(* Cursor::write reports success when it has cut a slice.                  *)
THEOREM NothingCut == Spec => []NoSilentTruncation
<1>1. IInv => NoSilentTruncation
  <2>. SUFFICES ASSUME IInv, NEW k \in DOMAIN finished
       PROVE  finished[k].bytes = 2 + BytesIn(Payload(finished[k].item))
    BY DEF NoSilentTruncation
  <2>1. k \in 1..item - 1
    BY SMT DEF IInv, History
  <2>2. finished[k] = Entry(job.items[k])
    BY <2>1 DEF IInv, History
  <2>. QED  BY <2>2 DEF Entry
<1>. QED  BY <1>1, Invariance, PTL

LEMMA Honest == IInv => OverflowIsHonest
<1>. SUFFICES ASSUME IInv PROVE OverflowIsHonest
  OBVIOUS
<1>1. status = "overflow" => room < Needed
  BY DEF IInv, Position
<1>2. ASSUME status = "ok" PROVE pos = Needed
  <2>1. item = Items1 + 1 /\ field = 0 /\ Items1 \in Nat /\ job.items \in Seq(Written)
    BY <1>2, JobFacts DEF IInv, Typed
  <2>2. pos = Begin
    BY SMT, <1>2, <2>1 DEF IInv, Position, Between, Inside
  <2>3. item - 1 = Items1
    BY SMT, <2>1
  <2>. QED  BY <2>1, <2>2, <2>3, ItemSums DEF Begin, Needed, Items1
<1>. QED  BY <1>1, <1>2 DEF OverflowIsHonest

(* An error means that the buffer was too small for the job, and success   *)
(* that all of it is there.                                                *)
THEOREM HonestErrors == Spec => []OverflowIsHonest
<1>. QED  BY Honest, Invariance, PTL

-----------------------------------------------------------------------------
(* Lengths.                                                                *)

(* What size() counts right: sources as many as a u8 holds beside the rest,*)
(* and not the two units, whose size() is one too many.                    *)
Sized(i) ==
  /\ i.name \notin {"ProcessingUnit", "ExtensionUnit"}
  /\ i.n <= IF i.name \in {"ClockSelector", "SelectorUnit"} THEN 248 ELSE 0
AllSized == \A j \in Jobs : \A k \in 1..Len(j.items) : Sized(j.items[k])

LEMMA Measured ==
  ASSUME NEW i \in Written, Sized(i)
  PROVE  /\ BytesIn(Payload(i)) \in Nat /\ 2 + BytesIn(Payload(i)) <= 255
         /\ i.name \notin DOMAIN BlockPayload => size(i) = 2 + BytesIn(Payload(i))
         /\ i.name \in Headers => 2 + BytesIn(Payload(i)) = 9
<1>. DEFINE p == Payload(i)
            u == FieldsUpTo(i)
            n == i.n
            all == BytesIn(p)
<1>1. /\ U8.bytes = 1 /\ U16.bytes = 2 /\ U32.bytes = 4
      /\ Slice(4).bytes = 4 /\ Slice(n).bytes = n /\ \A k : Whole(k).bytes = k
  BY DEF U8, U16, U32, Slice, Whole
<1>2. n \in Nat
  BY DEF Written, Items
<1>3. /\ u[0] = 0 /\ \A k \in 1..Len(p) : u[k] = u[k - 1] + p[k].bytes
      /\ u[Len(p)] = all /\ all \in Nat
  BY FieldSums
<1>. HIDE DEF p, u, n, all
<1>4. \A k \in {5, 6, 7} : p = <<Whole(k)>> => all = k
  BY SMT, <1>1, <1>3
<1>5. /\ p = <<U8, U8, U8, U8, U8, U8>> => all = 6
      /\ p = <<U8, U8, U8, U8, U8>> => all = 5
      /\ p = <<U8, U8, U8, U8>> => all = 4
      /\ p = <<U8, U8, U8, U8, U16>> => all = 6
      /\ p = <<U8, U8, U8, U8, U16, U8>> => all = 7
  <2>1. p = <<U8, U8, U8, U8, U8, U8>> => all = 6
    BY SMT, <1>1, <1>3
  <2>2. p = <<U8, U8, U8, U8, U8>> => all = 5
    BY SMT, <1>1, <1>3
  <2>3. p = <<U8, U8, U8, U8>> => all = 4
    BY SMT, <1>1, <1>3
  <2>4. p = <<U8, U8, U8, U8, U16>> => all = 6
    BY SMT, <1>1, <1>3
  <2>5. p = <<U8, U8, U8, U8, U16, U8>> => all = 7
    BY SMT, <1>1, <1>3
  <2>. QED  BY <2>1, <2>2, <2>3, <2>4, <2>5
<1>6. p = <<U8, U8, U16, U8, U8, U8, Slice(4), U8, U8, U8, U8>> => all = 15
  BY SMT, <1>1, <1>3
<1>7. p = <<U8, U8, U16, U8, U8, U8, U8, U8, U8>> => all = 10
  BY SMT, <1>1, <1>3
<1>8. p = <<U8, U8, U8, U8, U32, U8, Slice(4), U8>> => all = 14
  BY SMT, <1>1, <1>3
<1>9. p = <<U8, U8, U8, Slice(n), U8, U8>> => all = 5 + n
  BY SMT, <1>1, <1>2, <1>3
(* Bytes by name.                                                          *)
<1>10. \/ /\ i.name \in DOMAIN BlockPayload /\ all \in {5, 6, 7}
          /\ i.name = "ACHeader" => all = 7
       \/ i.name \in {"ClockSource", "ASEndpoint"} /\ all = 6
       \/ i.name = "ClockMultiplier" /\ all = 5
       \/ i.name = "InputTerminal" /\ all = 15
       \/ i.name = "OutputTerminal" /\ all = 10
       \/ i.name = "FormatType1" /\ all = 4
       \/ i.name = "ASInterface" /\ all = 14
       \/ i.name = "IfaceHeader" /\ all = 7
       \/ i.name \in {"ClockSelector", "SelectorUnit"} /\ all = 5 + n
  <2>1. ASSUME NEW k \in {5, 6, 7}, p = <<Whole(k)>>, i.name = "ACHeader" => k = 7
        PROVE  all \in {5, 6, 7} /\ (i.name = "ACHeader" => all = 7)
    BY Zenon, <1>4, <2>1
  <2>2. i.name # "ProcessingUnit" /\ i.name # "ExtensionUnit"
    BY DEF Sized
  <2>. QED
    BY ZenonT(40), <1>5, <1>6, <1>7, <1>8, <1>9, <2>1, <2>2, Payloads DEF p, n
<1>11. /\ n <= 248
       /\ i.name \notin {"ClockSelector", "SelectorUnit"} => n = 0
  BY SMT, <1>2 DEF Sized, n
<1>12. CASE i.name \in DOMAIN BlockPayload
  <2>1. all \in {5, 6, 7} /\ (i.name \in Headers => all = 7)
    BY <1>10, <1>12, NamesAre DEF Headers
  <2>. QED  BY SMT, <1>3, <1>12, <2>1 DEF all, p
<1>13. CASE i.name \notin DOMAIN BlockPayload
  <2>1. /\ BaseSize["ClockSource"] = 2 + 6 /\ BaseSize["ASEndpoint"] = 2 + 6
        /\ BaseSize["ClockMultiplier"] = 2 + 5 /\ BaseSize["InputTerminal"] = 2 + 15
        /\ BaseSize["OutputTerminal"] = 2 + 10 /\ BaseSize["FormatType1"] = 2 + 4
        /\ BaseSize["ASInterface"] = 2 + 14 /\ BaseSize["IfaceHeader"] = 2 + 7
        /\ BaseSize["ClockSelector"] = 7 /\ BaseSize["SelectorUnit"] = 7
    BY SMT DEF BaseSize
  <2>2. BaseSize[i.name] + n = 2 + all /\ 2 + all <= 255
    <3>1. \/ BaseSize[i.name] = 2 + all /\ n = 0 /\ all \in {4, 5, 6, 7, 10, 14, 15}
          \/ BaseSize[i.name] = 7 /\ all = 5 + n
      BY Zenon, <1>10, <1>11, <1>13, <2>1
    <3>. QED  BY SMT, <1>2, <1>11, <3>1
  <2>3. size(i) = (2 + all) % 256
    BY <2>2 DEF size, n
  <2>4. size(i) = 2 + all
    BY SMT, <1>3, <2>2, <2>3
  <2>5. i.name \in Headers => all = 7
    BY SMT, <1>10, <1>13, NamesAre DEF Headers
  <2>. QED  BY SMT, <1>3, <2>2, <2>4, <2>5 DEF all, p
<1>. QED  BY <1>12, <1>13

(* bLength of a finished descriptor is what it occupies, for every job     *)
(* whose descriptors size() counts right (units: see the run that refutes  *)
(* it).                                                                    *)
THEOREM TrueLengths ==
  ASSUME AllSized
  PROVE  Spec => []LengthsTruthful
<1>1. IInv => LengthsTruthful
  <2>. SUFFICES ASSUME IInv, NEW k \in DOMAIN finished
       PROVE  finished[k].bLength = finished[k].bytes
    BY DEF LengthsTruthful
  <2>. DEFINE i == job.items[k]
  <2>1. k \in 1..item - 1
    BY SMT DEF IInv, History
  <2>2. finished[k] = Entry(i)
    BY <2>1 DEF IInv, History
  <2>3. k \in 1..Len(job.items) /\ job \in Jobs
    BY SMT, <2>1, JobFacts DEF IInv, Typed, Items1
  <2>4. i \in Written /\ Sized(i)
    BY <2>3, JobFacts DEF AllSized, Items1
  <2>. HIDE DEF i
  <2>. DEFINE all == 2 + BytesIn(Payload(i))
  <2>5. all \in Nat /\ all <= 255 /\ (i.name \notin DOMAIN BlockPayload => size(i) = all)
    BY SMT, <2>4, Measured
  <2>6. /\ finished[k].bytes = all
        /\ finished[k].bLength
             = IF job.via = "writer" \/ i.name \in DOMAIN BlockPayload THEN all % 256 ELSE size(i)
    BY <2>2 DEF Entry
  <2>. HIDE DEF all
  <2>7. all % 256 = all
    BY SMT, <2>5
  <2>. QED  BY <2>5, <2>6, <2>7
<1>. QED  BY <1>1, Invariance, PTL

(* A job has at most one header: get_configuration_descriptors and         *)
(* AudioClassInterfaceDescriptor write one each.                           *)
OneHeader(items) ==
  \A h, k \in 1..Len(items) :
    items[h].name \in Headers /\ items[k].name \in Headers => h = k

(* The buffer is no larger than wTotalLength, a u16, can say.              *)
Addressable == \A r \in Rooms : r < 65536

NeededBy(i) == IF Counted(i) THEN 2 + BytesIn(Payload(i)) ELSE 0
CountedIn(items) == [k \in 1..Len(items) |-> NeededBy(items[k])]

LEMMA Totals ==
  ASSUME NEW items \in Seq(Written), \A k \in 1..Len(items) : Sized(items[k]),
         OneHeader(items), NEW h \in 1..Len(items), items[h].name \in Headers
  PROVE  /\ Sum(CountedIn(items)) = 9 + Sum(Sizes(items))
         /\ Sum(CountedIn(items)) \in Nat /\ Sum(CountedIn(items)) <= Sum(Needs(items))
<1>. DEFINE N == Len(items)
            c == CountedIn(items)
            z == Sizes(items)
            uc == UpTo(c)
            uz == UpTo(z)
            un == ItemsUpTo(items)
            needs(k) == 2 + BytesIn(Payload(items[k]))
            S == {m \in Nat : m <= N =>
                    /\ uc[m] = uz[m] + (IF h <= m THEN 9 ELSE 0)
                    /\ uc[m] <= un[m]}
<1>1. N \in Nat /\ \A k \in 1..N : items[k] \in Written /\ Sized(items[k])
  BY SMT
<1>2. ASSUME NEW k \in 1..N
      PROVE  /\ needs(k) \in Nat
             /\ c[k] \in Nat /\ z[k] \in Nat /\ c[k] <= needs(k)
             /\ c[k] = z[k] + (IF h = k THEN 9 ELSE 0)
  <2>. DEFINE i == items[k]
              all == 2 + BytesIn(Payload(i))
  <2>1. /\ all \in Nat
        /\ i.name \notin DOMAIN BlockPayload => size(i) = all
        /\ i.name \in Headers => all = 9
    BY SMT, <1>1, Measured
  <2>2. c[k] = (IF Counted(i) THEN all ELSE 0) /\ z[k] = (IF AfterHeader(i) THEN size(i) ELSE 0)
    BY DEF CountedIn, NeededBy, Sizes
  <2>3. i.name \in Headers <=> h = k
    BY DEF OneHeader
  <2>4. /\ AfterHeader(i) => i.name \notin DOMAIN BlockPayload /\ i.name \notin Headers
        /\ Counted(i) <=> AfterHeader(i) \/ i.name \in Headers
    BY NamesAre DEF AfterHeader, Counted, Headers
  <2>5. needs(k) = all
    OBVIOUS
  <2>. HIDE DEF i, all, c, z, needs
  <2>6. CASE i.name \in Headers
    BY SMT, <2>1, <2>2, <2>3, <2>4, <2>5, <2>6
  <2>7. CASE i.name \notin Headers
    BY SMT, <2>1, <2>2, <2>3, <2>4, <2>5, <2>7
  <2>. QED  BY <2>6, <2>7
<1>3. /\ uc[0] = 0 /\ \A k \in 1..N : uc[k] = uc[k - 1] + c[k]
      /\ uz[0] = 0 /\ \A k \in 1..N : uz[k] = uz[k - 1] + z[k]
      /\ uc \in [0..N -> Nat] /\ uz \in [0..N -> Nat]
      /\ Sum(c) = uc[N] /\ Sum(z) = uz[N]
  <2>1. c \in Seq(Nat) /\ Len(c) = N /\ z \in Seq(Nat) /\ Len(z) = N
    <3>. DEFINE toC(k) == NeededBy(items[k])
                toZ(k) == IF AfterHeader(items[k]) THEN size(items[k]) ELSE 0
    <3>1. c = [k \in 1..N |-> toC(k)] /\ z = [k \in 1..N |-> toZ(k)]
      BY DEF CountedIn, Sizes
    <3>2. \A k \in 1..N : toC(k) \in Nat /\ toZ(k) \in Nat
      <4>1. ASSUME NEW k \in 1..N PROVE toC(k) \in Nat /\ toZ(k) \in Nat
        <5>1. c[k] = toC(k) /\ z[k] = toZ(k)
          BY DEF CountedIn, Sizes
        <5>. HIDE DEF toC, toZ, c, z
        <5>. QED  BY <1>2, <5>1
      <4>. QED  BY <4>1
    <3>. HIDE DEF toC, toZ, c, z, N
    <3>. QED  BY SMT, <1>1, <3>1, <3>2
  <2>. HIDE DEF c, z, N
  <2>. QED  BY <2>1, UpToSums DEF Sum
<1>4. /\ un[0] = 0 /\ un \in [0..N -> Nat] /\ un[N] = Sum(Needs(items))
      /\ \A k \in 1..N : un[k] = un[k - 1] + needs(k)
  <2>1. /\ un[0] = 0 /\ un \in [0..N -> Nat] /\ un[N] = Sum(Needs(items))
        /\ \A k \in 1..N : un[k] = un[k - 1] + 2 + BytesIn(Payload(items[k]))
    BY ItemSums
  <2>2. ASSUME NEW k \in 1..N PROVE un[k] = un[k - 1] + needs(k)
    <3>1. un[k - 1] \in Nat /\ BytesIn(Payload(items[k])) \in Nat
      <4>1. BytesIn(Payload(items[k])) \in Nat
        BY <1>1, FieldSums
      <4>. HIDE DEF un, N
      <4>2. k - 1 \in 0..N
        BY SMT, <1>1
      <4>. QED  BY <2>1, <4>1, <4>2
    <3>2. un[k] = un[k - 1] + 2 + BytesIn(Payload(items[k]))
      BY <2>1
    <3>. DEFINE before == un[k - 1]
                bytes == BytesIn(Payload(items[k]))
    <3>. HIDE DEF before, bytes
    <3>4. before \in Nat /\ bytes \in Nat
      BY <3>1 DEF before, bytes
    <3>3. before + 2 + bytes = before + (2 + bytes)
      <4>. HIDE DEF needs
      <4>. QED  BY SMT, <3>4
    <3>. QED  BY <3>2, <3>3 DEF before, bytes
  <2>. QED  BY <2>1, <2>2
<1>. HIDE DEF uc, uz, un, c, z, N, needs
<1>5. 0 \in S
  BY SMT, <1>3, <1>4, <1>1
<1>6. ASSUME NEW m \in Nat, m \in S PROVE m + 1 \in S
  <2>. SUFFICES ASSUME m + 1 <= N
       PROVE  /\ uc[m + 1] = uz[m + 1] + (IF h <= m + 1 THEN 9 ELSE 0)
              /\ uc[m + 1] <= un[m + 1]
    BY SMT
  <2>. DEFINE k == m + 1
  <2>1. k \in 1..N /\ k - 1 = m /\ m <= N /\ m \in 0..N /\ h \in Nat
    BY SMT, <1>1 DEF N
  <2>2. /\ uc[m] = uz[m] + (IF h <= m THEN 9 ELSE 0) /\ uc[m] <= un[m]
        /\ uc[m] \in Nat /\ uz[m] \in Nat /\ un[m] \in Nat
    BY SMT, <1>3, <1>4, <1>6, <2>1
  <2>. HIDE DEF k, S
  <2>3. /\ uc[k] = uc[m] + c[k] /\ uz[k] = uz[m] + z[k] /\ un[k] = un[m] + needs(k)
    BY <1>3, <1>4, <2>1
  <2>4. /\ needs(k) \in Nat
        /\ c[k] \in Nat /\ z[k] \in Nat /\ c[k] <= needs(k)
        /\ c[k] = z[k] + (IF h = k THEN 9 ELSE 0)
    BY <1>2, <2>1
  <2>. DEFINE added(j) == IF h <= j THEN 9 ELSE 0
              now == IF h = k THEN 9 ELSE 0
  <2>5. added(k) = added(m) + now /\ added(m) \in Nat /\ now \in Nat
    BY SMT, <2>1 DEF k
  <2>6. uc[m] = uz[m] + added(m) /\ c[k] = z[k] + now
    BY <2>2, <2>4
  <2>. HIDE DEF added, now
  <2>7. uc[k] = uz[k] + added(k)
    <3>. DEFINE p == uz[m]
                q == added(m)
                r == z[k]
    <3>1. p \in Nat /\ q \in Nat /\ r \in Nat /\ now \in Nat
      BY <2>2, <2>4, <2>5
    <3>. HIDE DEF p, q, r
    <3>3. (p + q) + (r + now) = (p + r) + (q + now)
      BY SMT, <3>1
    <3>2. (uz[m] + added(m)) + (z[k] + now) = (uz[m] + z[k]) + (added(m) + now)
      BY <3>3 DEF p, q, r
    <3>. QED  BY Zenon, <2>3, <2>5, <2>6, <3>2
  <2>8. uc[k] <= un[k]
    <3>. HIDE DEF needs
    <3>. QED  BY SMT, <2>2, <2>3, <2>4
  <2>9. uc[k] = uz[k] + (IF h <= k THEN 9 ELSE 0) /\ uc[k] <= un[k]
    BY <2>7, <2>8 DEF added
  <2>. QED  BY <2>9 DEF k
<1>. HIDE DEF S
<1>7. Nat \subseteq S
  BY <1>5, <1>6, Induction
<1>8. /\ uc[N] = uz[N] + 9 /\ uc[N] <= un[N]
  BY SMT, <1>1, <1>7 DEF S, N
<1>9. uc[N] \in Nat /\ uz[N] \in Nat
  BY SMT, <1>1, <1>3
<1>10. Sum(c) = 9 + Sum(z) /\ Sum(c) \in Nat /\ Sum(c) <= Sum(Needs(items))
  BY SMT, <1>3, <1>4, <1>8, <1>9
<1>. QED  BY <1>10 DEF c, z

(* wTotalLength is what the header and the descriptors it counts occupy,   *)
(* whatever ids, streams and additional descriptors a configuration has.   *)
THEOREM TrueTotals ==
  ASSUME AllSized, \A j \in Jobs : OneHeader(j.items), Addressable
  PROVE  Spec => []TotalTruthful
<1>1. IInv => TotalTruthful
  <2>. SUFFICES ASSUME IInv, status = "ok",
                       NEW d \in Range(finished), d.item.name \in Headers
       PROVE  total_length(job.items) = Sum(CountedBytes)
    BY DEF TotalTruthful
  <2>. DEFINE items == job.items
              N == Len(items)
  <2>1. /\ job \in Jobs /\ items \in Seq(Written) /\ N \in Nat
        /\ item = N + 1 /\ Len(finished) = item - 1
        /\ \A k \in 1..item - 1 : finished[k] = Entry(items[k])
    BY JobFacts DEF IInv, Typed, History, Items1
  <2>2. item - 1 = N
    BY SMT, <2>1
  <2>3. ASSUME NEW k \in 1..N
        PROVE  finished[k].item = items[k] /\ finished[k].bytes = 2 + BytesIn(Payload(items[k]))
    <3>1. finished[k] = Entry(items[k])
      BY <2>1, <2>2
    <3>. QED  BY <3>1 DEF Entry
  <2>4. DOMAIN finished = 1..N
    BY SMT, <2>1, <2>2 DEF IInv, History
  <2>5. PICK h \in 1..N : items[h].name \in Headers
    BY <2>3, <2>4 DEF Range
  <2>6. CountedBytes = CountedIn(items)
    BY <2>1, <2>2, <2>3 DEF CountedBytes, CountedIn, NeededBy
  <2>7. pos = Needed /\ pos \in Nat /\ pos <= room /\ room \in Nat /\ room \in Rooms
    <3>1. pos = Needed
      BY Honest DEF OverflowIsHonest
    <3>2. pos \in 0..room /\ room \in Nat
      BY DEF IInv, Typed
    <3>3. pos \in Nat /\ pos <= room
      BY SMT, <3>2
    <3>. QED  BY <3>1, <3>3 DEF IInv, Typed
  <2>. DEFINE c == Sum(CountedIn(items))
              z == Sum(Sizes(items))
  <2>8. c = 9 + z /\ c \in Nat /\ c <= Needed
    BY <2>1, <2>5, Totals DEF AllSized, Needed
  <2>9. total_length(items) = (9 + z) % 65536
    BY SMT DEF total_length
  <2>. HIDE DEF c, z
  <2>10. c % 65536 = c
    <3>1. c < 65536 /\ c \in Nat
      BY SMT, <2>7, <2>8 DEF Addressable
    <3>. QED  BY SMT, <3>1
  <2>11. total_length(items) = c
    BY SMT, <2>8, <2>9, <2>10
  <2>. QED  BY <2>6, <2>11 DEF c
<1>. QED  BY <1>1, Invariance, PTL

-----------------------------------------------------------------------------
(* Ids.                                                                    *)

Lists(s, S) == s \in Seq(S) /\ Range(s) = S

LEMMA ListsConcat ==
  ASSUME NEW s, NEW S, NEW t, NEW T, Lists(s, S), Lists(t, T)
  PROVE  Lists(s \o t, S \cup T)
<1>. DEFINE U == S \cup T
            st == s \o t
<1>1. s \in Seq(U) /\ t \in Seq(U)
  BY SMT DEF Lists
<1>2. st \in Seq(U) /\ Len(st) = Len(s) + Len(t) /\ Len(s) \in Nat /\ Len(t) \in Nat
  BY SMT, <1>1
<1>3. /\ \A k \in 1..Len(s) : k \in 1..Len(st) /\ st[k] = s[k]
      /\ \A k \in 1..Len(t) : k + Len(s) \in 1..Len(st) /\ st[k + Len(s)] = t[k]
  BY SMT, <1>1
<1>4. DOMAIN st = 1..Len(st)
  BY <1>2
<1>. HIDE DEF st
<1>5. \A k \in 1..Len(st) : st[k] \in Range(st)
  BY <1>4 DEF Range
<1>6. S \subseteq Range(st)
  <2>1. ASSUME NEW x \in S PROVE x \in Range(st)
    <3>1. PICK k \in 1..Len(s) : x = s[k]
      BY SMT, <1>1 DEF Lists, Range
    <3>2. k \in 1..Len(st) /\ st[k] = x
      BY <1>3, <3>1
    <3>. QED  BY Zenon, <1>5, <3>2
  <2>. QED  BY <2>1
<1>7. T \subseteq Range(st)
  <2>1. ASSUME NEW x \in T PROVE x \in Range(st)
    <3>1. PICK k \in 1..Len(t) : x = t[k]
      BY SMT, <1>1 DEF Lists, Range
    <3>2. k + Len(s) \in 1..Len(st) /\ st[k + Len(s)] = x
      BY <1>3, <3>1
    <3>. QED  BY Zenon, <1>5, <3>2
  <2>. QED  BY <2>1
<1>8. Range(st) \subseteq U
  <2>. HIDE DEF U
  <2>. QED  BY SMT, <1>2 DEF Range
<1>. QED  BY <1>2, <1>6, <1>7, <1>8 DEF Lists, st

LEMMA ListsOf ==
  /\ Lists(<<>>, {})
  /\ \A x : Lists(<<x>>, {x})
  /\ \A x, y : Lists(<<x, y>>, {x, y})
  /\ \A x, y, z : Lists(<<x, y, z>>, {x, y, z})
  /\ \A u, v, w, x, y, z : Lists(<<u, v, w, x, y, z>>, {u, v, w, x, y, z})
<1>1. Lists(<<>>, {})
  BY SMT DEF Lists, Range
<1>2. ASSUME NEW x PROVE Lists(<<x>>, {x})
  BY SMT DEF Lists, Range
<1>3. ASSUME NEW x, NEW y PROVE Lists(<<x, y>>, {x, y})
  BY SMT DEF Lists, Range
<1>4. ASSUME NEW x, NEW y, NEW z PROVE Lists(<<x, y, z>>, {x, y, z})
  BY SMT DEF Lists, Range
<1>5. ASSUME NEW u, NEW v, NEW w, NEW x, NEW y, NEW z
      PROVE  Lists(<<u, v, w, x, y, z>>, {u, v, w, x, y, z})
  BY SMT DEF Lists, Range
<1>. QED  BY <1>1, <1>2, <1>3, <1>4, <1>5

(* The items of a configuration, as a set.                                 *)
SetIf(built, items) == IF built THEN items ELSE {}
OutSet(c) ==
  {Side("InputTerminal", c.base_id, TRUE, None, c),
   Side("OutputTerminal", NextId(c), FALSE, c.base_id, c)}
InSet(c) ==
  {Side("InputTerminal", NextId(c), FALSE, None, c),
   Side("OutputTerminal", c.base_id, TRUE, NextId(c), c)}
StreamSet(c) ==
  {Fixed("Interface"), [Fixed("ASInterface") EXCEPT !.link = c.base_id],
   Fixed("FormatType1"), Fixed("Endpoint"), Fixed("ASEndpoint")}

ItemSet(g, i, o, A) ==
  SetIf(g, {Fixed("InterfaceAssociation")})
    \cup {Fixed("Interface"), Fixed("ACHeader"), clock_configuration_descriptor(1)}
    \cup SetIf(o # Absent, OutSet(o)) \cup SetIf(i # Absent, InSet(i))
    \cup A
    \cup SetIf(i # Absent, StreamSet(i))
    \cup SetIf(o # Absent, StreamSet(o) \cup {Fixed("Endpoint")})

LEMMA ListsIf ==
  ASSUME NEW built, NEW s, NEW S, Lists(s, S)
  PROVE  Lists(If(built, s), SetIf(built, S))
BY ListsOf DEF If, SetIf

LEMMA ConfigurationItems ==
  ASSUME NEW g, NEW i, NEW o, NEW a, NEW A, Lists(a, A)
  PROVE  Range(get_configuration_descriptors(g, i, o, a)) = ItemSet(g, i, o, A)
<1>. DEFINE s1 == If(g, <<Fixed("InterfaceAssociation")>>)
            S1 == SetIf(g, {Fixed("InterfaceAssociation")})
            s2 == <<Fixed("Interface"), Fixed("ACHeader"), clock_configuration_descriptor(1)>>
            S2 == {Fixed("Interface"), Fixed("ACHeader"), clock_configuration_descriptor(1)}
            s3 == If(o # Absent, OutTerminals(o))
            S3 == SetIf(o # Absent, OutSet(o))
            s4 == If(i # Absent, InTerminals(i))
            S4 == SetIf(i # Absent, InSet(i))
            s6 == If(i # Absent, Stream(i))
            S6 == SetIf(i # Absent, StreamSet(i))
            s7 == If(o # Absent, Stream(o) \o <<Fixed("Endpoint")>>)
            S7 == SetIf(o # Absent, StreamSet(o) \cup {Fixed("Endpoint")})
<1>1. Lists(s1, S1)
  BY ListsOf, ListsIf
<1>2. Lists(s2, S2)
  BY ListsOf
<1>3. Lists(s3, S3)
  <2>1. Lists(OutTerminals(o), OutSet(o))
    BY ListsOf DEF OutTerminals, OutSet
  <2>. QED  BY <2>1, ListsIf
<1>4. Lists(s4, S4)
  <2>1. Lists(InTerminals(i), InSet(i))
    BY ListsOf DEF InTerminals, InSet
  <2>. QED  BY <2>1, ListsIf
<1>5. ASSUME NEW c PROVE Lists(Stream(c), StreamSet(c))
  <2>1. Lists(Stream(c), {Fixed("Interface"), Fixed("Interface"),
          [Fixed("ASInterface") EXCEPT !.link = c.base_id],
          Fixed("FormatType1"), Fixed("Endpoint"), Fixed("ASEndpoint")})
    BY Zenon, ListsOf DEF Stream
  <2>2. \A u, v, w, x, y : {u, u, v, w, x, y} = {u, v, w, x, y}
    OBVIOUS
  <2>. QED  BY Zenon, <2>1, <2>2 DEF StreamSet
<1>6. Lists(s6, S6)
  BY <1>5, ListsIf
<1>7. Lists(s7, S7)
  <2>1. Lists(<<Fixed("Endpoint")>>, {Fixed("Endpoint")})
    BY ListsOf
  <2>2. Lists(Stream(o) \o <<Fixed("Endpoint")>>, StreamSet(o) \cup {Fixed("Endpoint")})
    BY <1>5, <2>1, ListsConcat
  <2>. QED  BY <2>2, ListsIf
<1>8. get_configuration_descriptors(g, i, o, a) = s1 \o s2 \o s3 \o s4 \o a \o s6 \o s7
  BY DEF get_configuration_descriptors
<1>. HIDE DEF s1, s2, s3, s4, s6, s7, S1, S2, S3, S4, S6, S7
<1>. DEFINE c2 == s1 \o s2
            c3 == c2 \o s3
            c4 == c3 \o s4
            c5 == c4 \o a
            c6 == c5 \o s6
            c7 == c6 \o s7
<1>9. Lists(c2, S1 \cup S2)
  BY <1>1, <1>2, ListsConcat
<1>. HIDE DEF c2
<1>10. Lists(c3, (S1 \cup S2) \cup S3)
  BY <1>3, <1>9, ListsConcat
<1>. HIDE DEF c3
<1>11. Lists(c4, ((S1 \cup S2) \cup S3) \cup S4)
  BY <1>4, <1>10, ListsConcat
<1>. HIDE DEF c4
<1>12. Lists(c5, (((S1 \cup S2) \cup S3) \cup S4) \cup A)
  BY <1>11, ListsConcat
<1>. HIDE DEF c5
<1>13. Lists(c6, ((((S1 \cup S2) \cup S3) \cup S4) \cup A) \cup S6)
  BY <1>6, <1>12, ListsConcat
<1>. HIDE DEF c6
<1>14. Lists(c7, (((((S1 \cup S2) \cup S3) \cup S4) \cup A) \cup S6) \cup S7)
  BY <1>7, <1>13, ListsConcat
<1>. HIDE DEF c7
<1>15. get_configuration_descriptors(g, i, o, a) = c7
  BY <1>8 DEF c2, c3, c4, c5, c6, c7
<1>. QED  BY <1>14, <1>15 DEF Lists, ItemSet, S1, S2, S3, S4, S6, S7

(* Ids as the crate's documentation asks of its caller ("id 1 is always    *)
(* taken by the clock source, and each stream builds 2 entities"), and     *)
(* below 255, so that base_id + 1 fits; additional descriptors take what   *)
(* is left, and refer to what is there.                                    *)
IdsOf(c) == IF c = Absent THEN {} ELSE {c.base_id, c.base_id + 1}
Numbered(c) ==
  c # Absent => /\ c.base_id \in Nat /\ 2 <= c.base_id /\ c.base_id < 255
                /\ c.clock_source_id = 1
Extras(A, ids) ==
  \A d \in A :
    /\ d.link = None
    /\ d.source \in {None} \cup ids \cup {e.id : e \in A}
    /\ d.clock \in {None} \cup ids \cup {e.id : e \in A}
    /\ d.id \notin ids
    /\ d.id # None => \A e \in A : e.id = d.id => e = d
OwnIds(i, o, a) ==
  /\ Numbered(i) /\ Numbered(o)
  /\ IdsOf(i) \cap IdsOf(o) = {}
  /\ a \in Seq(Range(a)) /\ Extras(Range(a), {1} \cup IdsOf(i) \cup IdsOf(o))

Joined(R) ==
  LET ids == {None} \cup {e.id : e \in R}
  IN  /\ \A d, e \in R : d.id # None /\ d.id = e.id => d = e
      /\ \A d \in R : d.source \in ids /\ d.clock \in ids
      /\ \A d \in R : d.link # None => \E e \in R : e.id = d.link /\ e.usb

(* Refers(d, n): d is nobody, refers to nobody, or links to n.             *)
Refers(d, n) == /\ d.id = None /\ d.source = None /\ d.clock = None
                /\ d.link = n

LEMMA FixedFields ==
  ASSUME NEW name
  PROVE  Refers(Fixed(name), None)
BY DEF Fixed, Item, Refers

LEMMA LinkFields ==
  ASSUME NEW n
  PROVE  Refers([Fixed("ASInterface") EXCEPT !.link = n], n)
BY DEF Fixed, Item, Refers

(* The entities of a stream: one of them the USB side, with the base id.   *)
LEMMA Terminals ==
  ASSUME NEW c, Numbered(c), c # Absent, NEW T \in {OutSet(c), InSet(c)}
  PROVE  /\ \A d \in T : /\ d.id \in IdsOf(c) /\ d.link = None /\ d.clock = 1
                         /\ d.source \in {None} \cup IdsOf(c)
         /\ \A d, e \in T : d.id = e.id => d = e
         /\ \A n \in IdsOf(c) : \E d \in T : d.id = n
         /\ \E d \in T : d.id = c.base_id /\ d.usb
<1>. DEFINE b == c.base_id
<1>1. c.clock_source_id = 1 /\ IdsOf(c) = {b, b + 1}
  BY SMT DEF Numbered, IdsOf
<1>2. NextId(c) = b + 1
  BY SMT DEF NextId, Numbered
<1>3. b # b + 1
  BY SMT DEF Numbered
<1>4. CASE T = OutSet(c)
  <2>. DEFINE x == Side("InputTerminal", b, TRUE, None, c)
              y == Side("OutputTerminal", b + 1, FALSE, b, c)
  <2>1. T = {x, y}
    BY <1>2, <1>4 DEF OutSet
  <2>2. x.id = b /\ x.usb /\ x.source = None /\ x.clock = 1 /\ x.link = None
    BY <1>1 DEF Side, Fixed, Item
  <2>3. y.id = b + 1 /\ y.source = b /\ y.clock = 1 /\ y.link = None
    BY <1>1 DEF Side, Fixed, Item
  <2>. HIDE DEF x, y, b
  <2>. QED  BY <1>1, <1>3, <2>1, <2>2, <2>3 DEF b
<1>5. CASE T = InSet(c)
  <2>. DEFINE x == Side("InputTerminal", b + 1, FALSE, None, c)
              y == Side("OutputTerminal", b, TRUE, b + 1, c)
  <2>1. T = {x, y}
    BY <1>2, <1>5 DEF InSet
  <2>2. x.id = b + 1 /\ x.source = None /\ x.clock = 1 /\ x.link = None
    BY <1>1 DEF Side, Fixed, Item
  <2>3. y.id = b /\ y.usb /\ y.source = b + 1 /\ y.clock = 1 /\ y.link = None
    BY <1>1 DEF Side, Fixed, Item
  <2>. HIDE DEF x, y, b
  <2>. QED  BY <1>1, <1>3, <2>1, <2>2, <2>3 DEF b
<1>. QED  BY <1>4, <1>5

LEMMA ConfigurationJoined ==
  ASSUME NEW g, NEW i, NEW o, NEW a, OwnIds(i, o, a)
  PROVE  Joined(Range(get_configuration_descriptors(g, i, o, a)))
<1>. DEFINE R == Range(get_configuration_descriptors(g, i, o, a))
            A == Range(a)
            clock == clock_configuration_descriptor(1)
            out == SetIf(o # Absent, OutSet(o))
            in == SetIf(i # Absent, InSet(i))
            outIds == IdsOf(o)
            inIds == IdsOf(i)
<1>1. Lists(a, A)
  BY DEF OwnIds, Lists
<1>. DEFINE first == SetIf(g, {Fixed("InterfaceAssociation")})
            second == {Fixed("Interface"), Fixed("ACHeader"), clock}
            inStream == SetIf(i # Absent, StreamSet(i))
            outStream == SetIf(o # Absent, StreamSet(o) \cup {Fixed("Endpoint")})
<1>2. R = first \cup second \cup out \cup in \cup A \cup inStream \cup outStream
  <2>1. R = ItemSet(g, i, o, A)
    <3>. HIDE DEF A
    <3>. QED  BY Zenon, <1>1, ConfigurationItems
  <2>. QED  BY Zenon, <2>1 DEF ItemSet
<1>16. /\ clock \in second
       /\ \A d \in first : Refers(d, None)
       /\ \A d \in second : d = clock \/ Refers(d, None)
  <2>1. \A d \in first : Refers(d, None)
    BY Zenon, FixedFields DEF SetIf
  <2>. HIDE DEF clock
  <2>2. clock \in second /\ \A d \in second : d = clock \/ Refers(d, None)
    BY Zenon, FixedFields
  <2>. QED  BY <2>1, <2>2
<1>17. \A d \in inStream : Refers(d, None) \/ (i # Absent /\ Refers(d, i.base_id))
  BY Zenon, FixedFields, LinkFields DEF SetIf, StreamSet
<1>18. \A d \in outStream : Refers(d, None) \/ (o # Absent /\ Refers(d, o.base_id))
  BY Zenon, FixedFields, LinkFields DEF SetIf, StreamSet
<1>3. clock.id = 1 /\ clock.source = None /\ clock.clock = None /\ clock.link = None
  BY DEF clock_configuration_descriptor, Fixed, Item
<1>4. /\ \A d \in out : /\ d.id \in outIds /\ d.link = None /\ d.clock = 1
                        /\ d.source \in {None} \cup outIds
      /\ \A d, e \in out : d.id = e.id => d = e
      /\ \A n \in outIds : \E d \in out : d.id = n
      /\ o # Absent => \E d \in out : d.id = o.base_id /\ d.usb
  <2>1. CASE o = Absent
    BY Zenon, <2>1 DEF SetIf, IdsOf
  <2>2. CASE o # Absent
    <3>1. out = OutSet(o) /\ Numbered(o)
      BY Zenon, <2>2 DEF SetIf, OwnIds
    <3>. HIDE DEF out
    <3>. QED  BY ZenonT(40), <2>2, <3>1, Terminals
  <2>. QED  BY Zenon, <2>1, <2>2
<1>5. /\ \A d \in in : /\ d.id \in inIds /\ d.link = None /\ d.clock = 1
                       /\ d.source \in {None} \cup inIds
      /\ \A d, e \in in : d.id = e.id => d = e
      /\ \A n \in inIds : \E d \in in : d.id = n
      /\ i # Absent => \E d \in in : d.id = i.base_id /\ d.usb
  <2>1. CASE i = Absent
    BY Zenon, <2>1 DEF SetIf, IdsOf
  <2>2. CASE i # Absent
    <3>1. in = InSet(i) /\ Numbered(i)
      BY Zenon, <2>2 DEF SetIf, OwnIds
    <3>. HIDE DEF in
    <3>. QED  BY ZenonT(40), <2>2, <3>1, Terminals
  <2>. QED  BY Zenon, <2>1, <2>2
<1>6. /\ 1 \notin outIds /\ 1 \notin inIds /\ outIds \cap inIds = {}
      /\ Extras(A, {1} \cup inIds \cup outIds)
  <2>1. ASSUME NEW c, Numbered(c) PROVE 1 \notin IdsOf(c)
    BY SMT, <2>1 DEF Numbered, IdsOf
  <2>. QED  BY <2>1 DEF OwnIds
<1>. HIDE DEF R, A, clock, out, in, outIds, inIds, first, second, inStream, outStream
<1>7. clock \in R /\ out \subseteq R /\ in \subseteq R /\ A \subseteq R
  BY Zenon, <1>2, <1>16
<1>8. ASSUME NEW d \in R
      PROVE  \/ d = clock \/ d \in out \/ d \in in \/ d \in A
             \/ Refers(d, None)
             \/ (o # Absent /\ Refers(d, o.base_id))
             \/ (i # Absent /\ Refers(d, i.base_id))
  BY Zenon, <1>2, <1>16, <1>17, <1>18
<1>. DEFINE ids == {None} \cup {e.id : e \in R}
<1>9. {None, 1} \cup outIds \cup inIds \cup {e.id : e \in A} \subseteq ids
  BY <1>3, <1>4, <1>5, <1>7
<1>10. ASSUME NEW d \in R, NEW e \in R, d.id # None, d.id = e.id PROVE d = e
  <2>1. d = clock \/ d \in out \/ d \in in \/ d \in A
    BY Zenon, <1>8, <1>10 DEF Refers
  <2>2. e = clock \/ e \in out \/ e \in in \/ e \in A
    BY Zenon, <1>8, <1>10 DEF Refers
  <2>. QED
    BY SMT, <1>3, <1>4, <1>5, <1>6, <1>10, <2>1, <2>2 DEF Extras
<1>11. ASSUME NEW d \in R PROVE d.source \in ids /\ d.clock \in ids
  <2>. HIDE DEF ids
  <2>1. CASE d = clock
    BY Zenon, <1>3, <1>9, <2>1
  <2>2. CASE d \in out
    BY Zenon, <1>4, <1>9, <2>2
  <2>3. CASE d \in in
    BY Zenon, <1>5, <1>9, <2>3
  <2>4. CASE d \in A
    BY SMT, <1>6, <1>9, <2>4 DEF Extras
  <2>5. CASE \E n : Refers(d, n)
    BY Zenon, <1>9, <2>5 DEF Refers
  <2>. QED  BY Zenon, <1>8, <2>1, <2>2, <2>3, <2>4, <2>5
<1>12. ASSUME NEW d \in R, d.link # None PROVE \E e \in R : e.id = d.link /\ e.usb
  <2>1. ~(d = clock \/ d \in out \/ d \in in \/ d \in A)
    BY Zenon, <1>3, <1>4, <1>5, <1>6, <1>12 DEF Extras
  <2>2. (o # Absent /\ d.link = o.base_id) \/ (i # Absent /\ d.link = i.base_id)
    BY Zenon, <1>8, <1>12, <2>1 DEF Refers
  <2>. QED  BY Zenon, <1>4, <1>5, <1>7, <2>2
<1>. HIDE DEF ids
<1>13. Joined(R)
  BY Zenon, <1>10, <1>11, <1>12 DEF Joined, ids
<1>. QED  BY Zenon, <1>13 DEF R

(* Jobs with an AC header are configurations whose caller kept the ids     *)
(* apart: nothing else writes this header.                                 *)
Configured(items) ==
  \E g \in BOOLEAN : \E i, o, a :
    items = get_configuration_descriptors(g, i, o, a) /\ OwnIds(i, o, a)

(* In a configuration written in full every reference is to an entity of   *)
(* it, and no id is taken twice, for any choice of base ids, streams and   *)
(* additional descriptors that the documentation of the builder allows.    *)
THEOREM WellConnected ==
  ASSUME \A j \in Jobs : Fixed("ACHeader") \in Range(j.items) => Configured(j.items)
  PROVE  Spec => []TopologyConnected
<1>1. IInv => TopologyConnected
  <2>. DEFINE F == {d.item : d \in Range(finished)}
              R == Range(job.items)
  <2>. SUFFICES ASSUME IInv, status = "ok", Fixed("ACHeader") \in F
       PROVE  /\ \A d, e \in Entities : d.id = e.id => d = e
              /\ \A d \in Entities : d.source \in NoIds /\ d.clock \in NoIds
              /\ \A d \in F : d.link # None => \E e \in Entities : e.id = d.link /\ e.usb
    BY DEF TopologyConnected
  <2>. DEFINE N == Len(job.items)
  <2>1. /\ job \in Jobs /\ job.items \in Seq(Written) /\ N \in Nat
        /\ item = N + 1 /\ Len(finished) = item - 1
        /\ \A k \in 1..item - 1 : finished[k] = Entry(job.items[k])
    BY JobFacts DEF IInv, Typed, History, Items1
  <2>2. item - 1 = N
    BY SMT, <2>1
  <2>3. DOMAIN finished = 1..N /\ DOMAIN job.items = 1..N
    BY SMT, <2>1, <2>2 DEF IInv, History
  <2>4. \A k \in 1..N : finished[k].item = job.items[k]
    <3>. SUFFICES ASSUME NEW k \in 1..N
         PROVE  finished[k].item = job.items[k]
      OBVIOUS
    <3>1. finished[k] = Entry(job.items[k])
      BY <2>1, <2>2
    <3>. QED  BY <3>1 DEF Entry
  <2>5. F = R
    BY ZenonT(40), <2>3, <2>4 DEF Range
  <2>6. Joined(R)
    <3>1. PICK g \in BOOLEAN : \E i, o, a :
            job.items = get_configuration_descriptors(g, i, o, a) /\ OwnIds(i, o, a)
      BY Zenon, <2>1, <2>5 DEF Configured
    <3>2. PICK i, o, a :
            job.items = get_configuration_descriptors(g, i, o, a) /\ OwnIds(i, o, a)
      BY Zenon, <3>1
    <3>3. Joined(Range(get_configuration_descriptors(g, i, o, a)))
      BY Zenon, <3>2, ConfigurationJoined
    <3>. QED  BY Zenon, <3>2, <3>3
  <2>7. /\ \A d \in Entities : d \in F /\ d.id # None
        /\ \A d \in F : d.id # None => d \in Entities
    BY Zenon DEF Entities
  <2>. HIDE DEF F, R, N
  <2>. DEFINE ids == {None} \cup {e.id : e \in R}
  <2>8. ids \subseteq NoIds
    BY Zenon, <2>5, <2>7 DEF NoIds, Ids
  <2>9. /\ \A d, e \in R : d.id # None /\ d.id = e.id => d = e
        /\ \A d \in R : d.source \in ids /\ d.clock \in ids
        /\ \A d \in R : d.link # None => \E e \in R : e.id = d.link /\ e.usb
    BY Zenon, <2>6 DEF Joined
  <2>. HIDE DEF ids
  <2>10. ASSUME NEW d \in F, d.link # None
         PROVE  \E e \in Entities : e.id = d.link /\ e.usb
    BY Zenon, <2>5, <2>7, <2>9, <2>10
  <2>. QED  BY Zenon, <2>5, <2>7, <2>8, <2>9, <2>10
<1>. QED  BY <1>1, Invariance, PTL

=============================================================================
