---------------------- MODULE InterruptRegistrationsProofs ----------------------
(***************************************************************************)
(* Proofs about InterruptRegistrations, for tables of any size, any calls  *)
(* of user code and any nesting of interrupts: what bluenet interrupts for *)
(* finds its registration, and what bluenet refused leaves none.           *)
(***************************************************************************)
EXTENDS InterruptRegistrations, FiniteSetTheorems, WellFoundedInduction, TLAPS

(* Registrations made for calls that wait and that bluenet refused: each   *)
(* will be taken back.                                                     *)
RefusedIn(s, k) ==
    {i \in DOMAIN s : s[i].request = "registerBle" /\ s[i].arg = k /\ s[i].ack = "ERROR"}

(* A key holds more slots than will be taken back if bluenet interrupts    *)
(* for it, and a BLE type exactly as many if bluenet does not.             *)
CountedIn(s, t, registered) ==
    /\ \A k \in registered : Cardinality(RefusedIn(s, k)) < Cardinality(Holding(t, k))
    /\ \A k \in BleTypes \ registered :
           Cardinality(RefusedIn(s, k)) = Cardinality(Holding(t, k))
    /\ \A i \in DOMAIN s : s[i].request = "registerBle" =>
           /\ s[i].arg \in BleTypes
           /\ s[i].ack = "SUCCESS" => s[i].arg \in registered

Counted == CountedIn(calls, table, bluenet.registered)
------------------------------------------------------------------------------
(* Sets of places, and how many they are.                                  *)

LEMMA LeastOf ==
    ASSUME NEW T \in SUBSET Nat, T # {}
    PROVE  \E x \in T : \A y \in T : x <= y
<1> DEFINE R == OpToRel(<, Nat)
<1>1. IsWellFoundedOn(R, Nat)
    BY NatLessThanWellFounded
<1>2. \A x, y \in Nat : <<y, x>> \in R <=> y < x
    BY DEF OpToRel
<1> HIDE DEF R
<1>3. PICK x \in T : \A y \in T : <<y, x>> \notin R
    BY <1>1, WFMin
<1>4. \A y \in T : ~(y < x)
    BY <1>2, <1>3
<1> QED
    BY <1>4

LEMMA FirstIsIn ==
    ASSUME NEW T \in SUBSET Nat, T # {}
    PROVE  First(T) \in T
<1>1. \E i \in T : \A j \in T : i <= j
    BY LeastOf
<1> QED
    BY <1>1 DEF First

LEMMA OneMore ==
    ASSUME NEW S, IsFiniteSet(S), NEW x, x \notin S
    PROVE  /\ IsFiniteSet(S \cup {x})
           /\ Cardinality(S) \in Nat
           /\ Cardinality(S \cup {x}) = Cardinality(S) + 1
BY FS_AddElement, FS_CardinalityType

LEMMA OneLess ==
    ASSUME NEW S, IsFiniteSet(S), NEW x \in S
    PROVE  /\ IsFiniteSet(S \ {x})
           /\ Cardinality(S) \in Nat /\ Cardinality(S \ {x}) \in Nat
           /\ Cardinality(S \ {x}) = Cardinality(S) - 1
BY FS_RemoveElement, FS_CardinalityType

LEMMA AtMostOne ==
    ASSUME NEW S, IsFiniteSet(S)
    PROVE  Cardinality(S) <= 1 <=> \A x, y \in S : x = y
<1>1. CASE S = {}
    BY <1>1, FS_EmptySet
<1>2. ASSUME NEW x \in S
      PROVE  Cardinality(S) <= 1 <=> \A u, v \in S : u = v
    <2>1. /\ IsFiniteSet(S \ {x})
          /\ Cardinality(S) \in Nat /\ Cardinality(S \ {x}) \in Nat
          /\ Cardinality(S \ {x}) = Cardinality(S) - 1
        BY OneLess
    <2>2. Cardinality(S \ {x}) = 0 <=> S \ {x} = {}
        BY <2>1, FS_EmptySet
    <2> QED
        BY <2>1, <2>2
<1> QED
    BY <1>1, <1>2
------------------------------------------------------------------------------
(* Tables.                                                                 *)

(* A table of slots 1 to n, and where it holds what.                       *)
Table(t, n) == n \in Nat /\ DOMAIN t = 1 .. n

LEMMA HoldingFinite ==
    ASSUME NEW t, NEW n, Table(t, n), NEW k
    PROVE  /\ IsFiniteSet(Holding(t, k))
           /\ Cardinality(Holding(t, k)) \in Nat
           /\ Cardinality(Holding(t, k)) > 0 <=> Holding(t, k) # {}
           /\ Holding(t, k) \in SUBSET Nat
<1>1. IsFiniteSet(1 .. n) /\ Holding(t, k) \in SUBSET (1 .. n) /\ 1 .. n \subseteq Nat
    BY FS_Interval DEF Table, Holding
<1>2. IsFiniteSet(Holding(t, k))
    BY <1>1, FS_Subset
<1>3. Cardinality(Holding(t, k)) \in Nat
    BY <1>2, FS_CardinalityType
<1> QED
    BY <1>1, <1>2, <1>3, FS_EmptySet

(* Registering takes one empty slot.                                       *)
LEMMA Registering ==
    ASSUME NEW t, NEW n, Table(t, n), Holding(t, None) # {}, NEW k, k # None
    PROVE  LET u == [t EXCEPT ![First(Holding(t, None))] = k] IN
           /\ Table(u, n)
           /\ Cardinality(Holding(u, k)) = Cardinality(Holding(t, k)) + 1
           /\ \A j : j # k /\ j # None => Holding(u, j) = Holding(t, j)
           /\ \E i : Holding(u, k) = Holding(t, k) \cup {i}
<1> DEFINE i == First(Holding(t, None))
           u == [t EXCEPT ![i] = k]
<1>1. i \in Holding(t, None)
    BY FirstIsIn, HoldingFinite
<1> HIDE DEF i
<1>2. i \in DOMAIN t /\ t[i] = None
    BY <1>1 DEF Holding
<1>3. DOMAIN u = DOMAIN t /\ u[i] = k /\ \A j \in DOMAIN t : j # i => u[j] = t[j]
    BY <1>2
<1> HIDE DEF u
<1>4. Holding(u, k) = Holding(t, k) \cup {i} /\ i \notin Holding(t, k)
    BY <1>2, <1>3 DEF Holding
<1>5. \A j : j # k /\ j # None => Holding(u, j) = Holding(t, j)
    BY <1>2, <1>3 DEF Holding
<1>6. Cardinality(Holding(u, k)) = Cardinality(Holding(t, k)) + 1
    BY <1>4, HoldingFinite, OneMore
<1>7. Table(u, n)
    BY <1>3 DEF Table
<1> QED
    BY <1>4, <1>5, <1>6, <1>7 DEF u, i

(* Removing empties one slot of those that hold the key.                   *)
LEMMA Removing ==
    ASSUME NEW t, NEW n, Table(t, n), NEW k, k # None, Holding(t, k) # {}
    PROVE  LET u == removeInterruptRegistration(t, k) IN
           /\ Table(u, n)
           /\ Cardinality(Holding(u, k)) = Cardinality(Holding(t, k)) - 1
           /\ \A j : j # k /\ j # None => Holding(u, j) = Holding(t, j)
           /\ \E i \in Holding(t, k) : Holding(u, k) = Holding(t, k) \ {i}
<1> DEFINE i == First(Holding(t, k))
           u == removeInterruptRegistration(t, k)
<1>1. i \in Holding(t, k)
    BY FirstIsIn, HoldingFinite
<1>2. u = [t EXCEPT ![i] = None]
    BY DEF removeInterruptRegistration
<1> HIDE DEF i, u
<1>3. i \in DOMAIN t /\ t[i] = k
    BY <1>1 DEF Holding
<1>4. DOMAIN u = DOMAIN t /\ u[i] = None /\ \A j \in DOMAIN t : j # i => u[j] = t[j]
    BY <1>2, <1>3
<1>5. Holding(u, k) = Holding(t, k) \ {i}
    BY <1>3, <1>4 DEF Holding
<1>6. \A j : j # k /\ j # None => Holding(u, j) = Holding(t, j)
    BY <1>3, <1>4 DEF Holding
<1>7. Cardinality(Holding(u, k)) = Cardinality(Holding(t, k)) - 1
    BY <1>1, <1>5, HoldingFinite, OneLess
<1>8. Table(u, n)
    BY <1>4 DEF Table
<1> QED
    BY <1>1, <1>5, <1>6, <1>7, <1>8 DEF u
------------------------------------------------------------------------------
(* Calls that wait.                                                        *)

LEMMA AppendTo ==
    ASSUME NEW s \in Seq(Pending), NEW c \in Pending
    PROVE  /\ Append(s, c) \in Seq(Pending)
           /\ Len(s) \in Nat
           /\ DOMAIN s = 1 .. Len(s)
           /\ DOMAIN Append(s, c) = 1 .. Len(s) + 1
           /\ \A i \in 1 .. Len(s) : Append(s, c)[i] = s[i]
           /\ Append(s, c)[Len(s) + 1] = c
OBVIOUS

LEMMA OuterOf ==
    ASSUME NEW s \in Seq(Pending), s # <<>>
    PROVE  /\ Len(s) \in Nat \ {0}
           /\ DOMAIN s = 1 .. Len(s)
           /\ s[Len(s)] \in Pending
           /\ SubSeq(s, 1, Len(s) - 1) \in Seq(Pending)
           /\ DOMAIN SubSeq(s, 1, Len(s) - 1) = 1 .. Len(s) - 1
           /\ \A i \in 1 .. Len(s) - 1 : SubSeq(s, 1, Len(s) - 1)[i] = s[i]
<1>1. Len(s) \in Nat \ {0} /\ s[Len(s)] \in Pending /\ DOMAIN s = 1 .. Len(s)
    OBVIOUS
<1>2. /\ SubSeq(s, 1, Len(s) - 1) \in Seq(Pending)
      /\ Len(SubSeq(s, 1, Len(s) - 1)) = Len(s) - 1
      /\ \A i \in 1 .. Len(s) - 1 : SubSeq(s, 1, Len(s) - 1)[i] = s[i]
    BY <1>1
<1> QED
    BY <1>1, <1>2

LEMMA RefusedFinite ==
    ASSUME NEW s \in Seq(Pending), NEW k
    PROVE  IsFiniteSet(RefusedIn(s, k)) /\ Cardinality(RefusedIn(s, k)) \in Nat
<1>1. Len(s) \in Nat /\ DOMAIN s = 1 .. Len(s)
    OBVIOUS
<1>2. RefusedIn(s, k) \in SUBSET (1 .. Len(s)) /\ IsFiniteSet(1 .. Len(s))
    BY <1>1, FS_Interval DEF RefusedIn
<1> QED
    BY <1>2, FS_Subset, FS_CardinalityType

LEMMA RefusedAppend ==
    ASSUME NEW s \in Seq(Pending), NEW c \in Pending, NEW k
    PROVE  Cardinality(RefusedIn(Append(s, c), k)) =
              Cardinality(RefusedIn(s, k))
              + (IF c.request = "registerBle" /\ c.arg = k /\ c.ack = "ERROR" THEN 1 ELSE 0)
<1> DEFINE refused == c.request = "registerBle" /\ c.arg = k /\ c.ack = "ERROR"
           u == Append(s, c)
<1>1. /\ Len(s) \in Nat /\ DOMAIN s = 1 .. Len(s) /\ DOMAIN u = 1 .. Len(s) + 1
      /\ \A i \in 1 .. Len(s) : u[i] = s[i]
      /\ u[Len(s) + 1] = c
    BY AppendTo
<1> HIDE DEF u
<1>2. CASE refused
    <2>1. RefusedIn(u, k) = RefusedIn(s, k) \cup {Len(s) + 1} /\ Len(s) + 1 \notin RefusedIn(s, k)
        BY <1>1, <1>2 DEF RefusedIn
    <2> QED
        BY <1>2, <2>1, RefusedFinite, OneMore DEF u
<1>3. CASE ~refused
    <2>1. RefusedIn(u, k) = RefusedIn(s, k)
        BY <1>1, <1>3 DEF RefusedIn
    <2> QED
        BY <1>3, <2>1, RefusedFinite DEF u
<1> QED
    BY <1>2, <1>3

LEMMA RefusedOuter ==
    ASSUME NEW s \in Seq(Pending), s # <<>>, NEW k
    PROVE  LET c == s[Len(s)] IN
           Cardinality(RefusedIn(SubSeq(s, 1, Len(s) - 1), k)) =
              Cardinality(RefusedIn(s, k))
              - (IF c.request = "registerBle" /\ c.arg = k /\ c.ack = "ERROR" THEN 1 ELSE 0)
<1> DEFINE c == s[Len(s)]
           refused == c.request = "registerBle" /\ c.arg = k /\ c.ack = "ERROR"
           u == SubSeq(s, 1, Len(s) - 1)
<1>1. /\ Len(s) \in Nat \ {0} /\ DOMAIN s = 1 .. Len(s) /\ DOMAIN u = 1 .. Len(s) - 1
      /\ \A i \in 1 .. Len(s) - 1 : u[i] = s[i]
    BY OuterOf
<1> HIDE DEF u
<1>2. CASE refused
    <2>1. RefusedIn(u, k) = RefusedIn(s, k) \ {Len(s)} /\ Len(s) \in RefusedIn(s, k)
        BY <1>1, <1>2 DEF RefusedIn
    <2> QED
        BY <1>2, <2>1, RefusedFinite, OneLess DEF u
<1>3. CASE ~refused
    <2>1. RefusedIn(u, k) = RefusedIn(s, k)
        BY <1>1, <1>3 DEF RefusedIn
    <2> QED
        BY <1>3, <2>1, RefusedFinite DEF u
<1> QED
    BY <1>2, <1>3
------------------------------------------------------------------------------
(* What the parts of a call do to the counts.                              *)

(* A request of another kind is sent.                                      *)
LEMMA CountedSend ==
    ASSUME NEW s \in Seq(Pending), NEW t, NEW registered, CountedIn(s, t, registered),
           NEW c \in Pending, c.request # "registerBle"
    PROVE  CountedIn(Append(s, c), t, registered)
<1>1. \A k : Cardinality(RefusedIn(Append(s, c), k)) = Cardinality(RefusedIn(s, k))
    BY RefusedAppend, RefusedFinite
<1>2. \A i \in DOMAIN Append(s, c) : Append(s, c)[i].request = "registerBle" =>
          i \in DOMAIN s /\ Append(s, c)[i] = s[i]
    BY AppendTo
<1> QED
    BY <1>1, <1>2 DEF CountedIn

(* A call returns that takes nothing back.                                 *)
LEMMA CountedReturn ==
    ASSUME NEW s \in Seq(Pending), s # <<>>, NEW t, NEW registered, CountedIn(s, t, registered),
           ~(s[Len(s)].request = "registerBle" /\ s[Len(s)].ack = "ERROR")
    PROVE  CountedIn(SubSeq(s, 1, Len(s) - 1), t, registered)
<1> DEFINE u == SubSeq(s, 1, Len(s) - 1)
<1>1. \A k : Cardinality(RefusedIn(u, k)) = Cardinality(RefusedIn(s, k))
    BY RefusedOuter, RefusedFinite
<1>2. \A i \in DOMAIN u : i \in DOMAIN s /\ u[i] = s[i]
    BY OuterOf
<1> HIDE DEF u
<1>3. CountedIn(u, t, registered)
    BY <1>1, <1>2 DEF CountedIn
<1> QED
    BY <1>3 DEF u

(* A key of another kind is registered, and bluenet may agree.             *)
LEMMA CountedRegister ==
    ASSUME NEW s \in Seq(Pending), NEW t, NEW n, Table(t, n), NEW registered,
           CountedIn(s, t, registered), Holding(t, None) # {},
           NEW k, k # None, k \notin BleTypes, None \notin registered \cup BleTypes,
           NEW agreed, agreed \in {registered, registered \cup {k}}
    PROVE  CountedIn(s, [t EXCEPT ![First(Holding(t, None))] = k], agreed)
<1> DEFINE u == [t EXCEPT ![First(Holding(t, None))] = k]
<1>1. /\ Cardinality(Holding(u, k)) = Cardinality(Holding(t, k)) + 1
      /\ \A j : j # k /\ j # None => Holding(u, j) = Holding(t, j)
    BY Registering
<1> HIDE DEF u
<1>2. RefusedIn(s, k) = {}
    BY DEF CountedIn, RefusedIn
<1>3. Cardinality(RefusedIn(s, k)) = 0 /\ Cardinality(Holding(t, k)) \in Nat
    BY <1>2, FS_EmptySet, HoldingFinite
<1>4. \A j \in agreed : Cardinality(RefusedIn(s, j)) < Cardinality(Holding(u, j))
    BY <1>1, <1>3 DEF CountedIn
<1>5. \A j \in BleTypes \ agreed : Cardinality(RefusedIn(s, j)) = Cardinality(Holding(u, j))
    BY <1>1 DEF CountedIn
<1>6. \A i \in DOMAIN s : s[i].request = "registerBle" =>
          s[i].arg \in BleTypes /\ (s[i].ack = "SUCCESS" => s[i].arg \in agreed)
    BY DEF CountedIn
<1>7. CountedIn(s, u, agreed)
    BY <1>4, <1>5, <1>6 DEF CountedIn
<1> QED
    BY <1>7 DEF u

(* A BLE type is registered, and bluenet answers.                          *)
LEMMA CountedRegisterBle ==
    ASSUME NEW s \in Seq(Pending), NEW t, NEW n, Table(t, n), NEW registered,
           CountedIn(s, t, registered), Holding(t, None) # {}, None \notin registered \cup BleTypes,
           NEW c \in Pending, c.request = "registerBle", c.arg \in BleTypes
    PROVE  CountedIn(Append(s, c), [t EXCEPT ![First(Holding(t, None))] = c.arg],
                     IF c.ack = "SUCCESS" THEN registered \cup {c.arg} ELSE registered)
<1> DEFINE u == [t EXCEPT ![First(Holding(t, None))] = c.arg]
           v == Append(s, c)
           k == c.arg
           agreed == IF c.ack = "SUCCESS" THEN registered \cup {k} ELSE registered
<1>1. /\ Cardinality(Holding(u, k)) = Cardinality(Holding(t, k)) + 1
      /\ \A j : j # k /\ j # None => Holding(u, j) = Holding(t, j)
    BY Registering
<1>2. /\ Cardinality(Holding(t, k)) \in Nat /\ Cardinality(RefusedIn(s, k)) \in Nat
      /\ Cardinality(RefusedIn(s, k)) <= Cardinality(Holding(t, k))
    BY HoldingFinite, RefusedFinite DEF CountedIn
<1>3. c.ack \in {"SUCCESS", "ERROR"}
    BY DEF Pending
<1>4. \A j : j # k => Cardinality(RefusedIn(v, j)) = Cardinality(RefusedIn(s, j))
    BY RefusedAppend, RefusedFinite
<1>5. /\ c.ack = "ERROR" => Cardinality(RefusedIn(v, k)) = Cardinality(RefusedIn(s, k)) + 1
      /\ c.ack = "SUCCESS" => Cardinality(RefusedIn(v, k)) = Cardinality(RefusedIn(s, k))
    BY RefusedAppend, RefusedFinite
<1>6. /\ DOMAIN v = 1 .. Len(s) + 1 /\ DOMAIN s = 1 .. Len(s) /\ Len(s) \in Nat
      /\ \A i \in 1 .. Len(s) : v[i] = s[i]
      /\ v[Len(s) + 1] = c
    BY AppendTo
<1> HIDE DEF u, v
<1>7. \A j \in agreed : Cardinality(RefusedIn(v, j)) < Cardinality(Holding(u, j))
    <2> SUFFICES ASSUME NEW j \in agreed
                 PROVE  Cardinality(RefusedIn(v, j)) < Cardinality(Holding(u, j))
        OBVIOUS
    <2>1. CASE j # k
        BY <1>1, <1>4, <2>1 DEF CountedIn
    <2>2. CASE j = k
        BY <1>1, <1>2, <1>3, <1>5, <2>2 DEF CountedIn
    <2> QED
        BY <2>1, <2>2
<1>8. \A j \in BleTypes \ agreed : Cardinality(RefusedIn(v, j)) = Cardinality(Holding(u, j))
    <2> SUFFICES ASSUME NEW j \in BleTypes \ agreed
                 PROVE  Cardinality(RefusedIn(v, j)) = Cardinality(Holding(u, j))
        OBVIOUS
    <2>1. CASE j # k
        BY <1>1, <1>4, <2>1 DEF CountedIn
    <2>2. CASE j = k
        BY <1>1, <1>2, <1>3, <1>5, <2>2 DEF CountedIn
    <2> QED
        BY <2>1, <2>2
<1>9. \A i \in DOMAIN v : v[i].request = "registerBle" =>
          v[i].arg \in BleTypes /\ (v[i].ack = "SUCCESS" => v[i].arg \in agreed)
    BY <1>6 DEF CountedIn
<1>10. CountedIn(v, u, agreed)
    BY <1>7, <1>8, <1>9 DEF CountedIn
<1> QED
    BY <1>10 DEF u, v

(* A refused BLE registration is taken back.                               *)
LEMMA CountedTakeBack ==
    ASSUME NEW s \in Seq(Pending), s # <<>>, NEW t, NEW n, Table(t, n), NEW registered,
           CountedIn(s, t, registered), None \notin registered \cup BleTypes,
           s[Len(s)].request = "registerBle", s[Len(s)].ack = "ERROR"
    PROVE  CountedIn(SubSeq(s, 1, Len(s) - 1),
                     removeInterruptRegistration(t, s[Len(s)].arg), registered)
<1> DEFINE k == s[Len(s)].arg
           u == removeInterruptRegistration(t, k)
           v == SubSeq(s, 1, Len(s) - 1)
<1>1. /\ Len(s) \in Nat \ {0} /\ DOMAIN s = 1 .. Len(s) /\ DOMAIN v = 1 .. Len(s) - 1
      /\ \A i \in 1 .. Len(s) - 1 : v[i] = s[i]
    BY OuterOf
<1>2. k \in BleTypes /\ k # None
    BY <1>1 DEF CountedIn
<1>3. \A j : j # k => Cardinality(RefusedIn(v, j)) = Cardinality(RefusedIn(s, j))
    BY RefusedOuter, RefusedFinite
<1>4. /\ Cardinality(RefusedIn(v, k)) = Cardinality(RefusedIn(s, k)) - 1
      /\ Cardinality(RefusedIn(v, k)) \in Nat /\ Cardinality(RefusedIn(s, k)) \in Nat
    BY <1>1, RefusedOuter, RefusedFinite, OuterOf
<1>5. Cardinality(Holding(t, k)) \in Nat /\ Cardinality(Holding(t, k)) > 0
    BY <1>2, <1>4, HoldingFinite DEF CountedIn
<1>6. /\ Cardinality(Holding(u, k)) = Cardinality(Holding(t, k)) - 1
      /\ \A j : j # k /\ j # None => Holding(u, j) = Holding(t, j)
    BY <1>2, <1>5, HoldingFinite, Removing
<1> HIDE DEF u, v
<1>7. \A j \in registered : Cardinality(RefusedIn(v, j)) < Cardinality(Holding(u, j))
    BY <1>3, <1>4, <1>5, <1>6 DEF CountedIn
<1>8. \A j \in BleTypes \ registered : Cardinality(RefusedIn(v, j)) = Cardinality(Holding(u, j))
    BY <1>3, <1>4, <1>5, <1>6 DEF CountedIn
<1>9. CountedIn(v, u, registered)
    BY <1>1, <1>7, <1>8 DEF CountedIn
<1> QED
    BY <1>9 DEF u, v

(* What is registered and removed at once leaves the counts as they are.   *)
LEMMA CountedUndo ==
    ASSUME NEW s, NEW t, NEW n, Table(t, n), NEW registered, CountedIn(s, t, registered),
           Holding(t, None) # {}, NEW k, k # None, None \notin registered \cup BleTypes
    PROVE  LET u == [t EXCEPT ![First(Holding(t, None))] = k] IN
           /\ CountedIn(s, removeInterruptRegistration(u, k), registered)
           /\ Table(removeInterruptRegistration(u, k), n)
<1> DEFINE u == [t EXCEPT ![First(Holding(t, None))] = k]
           v == removeInterruptRegistration(u, k)
<1>1. /\ Table(u, n)
      /\ Cardinality(Holding(u, k)) = Cardinality(Holding(t, k)) + 1
      /\ \A j : j # k /\ j # None => Holding(u, j) = Holding(t, j)
    BY Registering
<1>2. Cardinality(Holding(t, k)) \in Nat
    BY HoldingFinite
<1> HIDE DEF u
<1>3. Holding(u, k) # {}
    BY <1>1, <1>2, HoldingFinite
<1>4. /\ Table(v, n)
      /\ Cardinality(Holding(v, k)) = Cardinality(Holding(u, k)) - 1
      /\ \A j : j # k /\ j # None => Holding(v, j) = Holding(u, j)
    BY <1>1, <1>3, Removing
<1> HIDE DEF v
<1>5. \A j : j # None => Cardinality(Holding(v, j)) = Cardinality(Holding(t, j))
    BY <1>1, <1>2, <1>4
<1>6. CountedIn(s, v, registered)
    BY <1>5 DEF CountedIn
<1> QED
    BY <1>4, <1>6 DEF u, v
------------------------------------------------------------------------------
(* Types.                                                                  *)

Agreements == [registered : SUBSET Keys, subscribed : SUBSET BluenetTypes, scanning : BOOLEAN]

(* What bluenet agrees to with a request it answers with success.          *)
RegisteringRequests == {"attachInterrupt", "listen", "Message.begin", "registerBle"}

Registered(request, arg, ack) ==
    IF ack = "SUCCESS" /\ request \in RegisteringRequests
    THEN bluenet.registered \cup {arg} ELSE bluenet.registered

Subscribed(request, arg, ack) ==
    IF ack = "SUCCESS" /\ request = "subscribe"
    THEN bluenet.subscribed \cup {arg} ELSE bluenet.subscribed

Scanning(request, ack) ==
    IF ack = "SUCCESS" /\ request \in {"start", "stop"}
    THEN request = "start" ELSE bluenet.scanning

LEMMA NoneIsNoKey ==
    None \notin Keys \cup BluenetTypes \cup EventTypes
BY NamesAssumption DEF Keys, OtherTypes, BleTypes, DeviceEvents, LocalEvents, RemoteEvents, None

(* What Send comes down to.                                                *)
Sent(outer, request, arg, event, slot) ==
    \E c \in Pending :
       /\ calls' = Append(outer, c)
       /\ c.request = request /\ c.arg = arg /\ c.event = event /\ c.slot = slot
       /\ bluenet'.registered = Registered(request, arg, c.ack)
       /\ bluenet'.subscribed = Subscribed(request, arg, c.ack)
       /\ bluenet'.scanning = Scanning(request, c.ack)

LEMMA Sending ==
    ASSUME TypeOK,
           NEW outer \in Seq(Pending), NEW request \in Requests, NEW arg, NEW event, NEW slot,
           arg \in Keys \cup BluenetTypes \cup {None},
           request \in RegisteringRequests => arg \in Keys,
           request = "subscribe" => arg \in BluenetTypes,
           event \in EventTypes \cup {None}, slot \in 0 .. MAX_SUBSCRIPTIONS,
           Send(outer, request, arg, event, slot)
    PROVE  /\ running' = FALSE
           /\ calls' \in Seq(Pending)
           /\ bluenet' \in Agreements
           /\ Sent(outer, request, arg, event, slot)
<1>1. PICK ack \in {"SUCCESS", "ERROR"} :
          /\ calls' = Append(outer, [request |-> request, arg |-> arg, event |-> event,
                                     slot |-> slot, ack |-> ack])
          /\ bluenet' = IF ack = "SUCCESS" THEN Agreed(request, arg) ELSE bluenet
    BY DEF Send
<1> DEFINE c == [request |-> request, arg |-> arg, event |-> event, slot |-> slot, ack |-> ack]
<1>2. c \in Pending
    BY DEF Pending
<1>3. /\ c.request = request /\ c.arg = arg /\ c.event = event /\ c.slot = slot
      /\ c.ack = ack
    OBVIOUS
<1>4. calls' = Append(outer, c)
    BY <1>1
<1> HIDE DEF c
<1>5. calls' \in Seq(Pending)
    BY <1>2, <1>4
<1>6. bluenet \in Agreements
    BY DEF TypeOK, Agreements
<1>7. /\ Agreed(request, arg) \in Agreements
      /\ Agreed(request, arg).registered = Registered(request, arg, "SUCCESS")
      /\ Agreed(request, arg).subscribed = Subscribed(request, arg, "SUCCESS")
      /\ Agreed(request, arg).scanning = Scanning(request, "SUCCESS")
    <2>1. CASE request \in RegisteringRequests
        <3>1. Agreed(request, arg) = [bluenet EXCEPT !.registered = @ \cup {arg}]
            BY <2>1 DEF Agreed, RegisteringRequests
        <3> QED
            BY <1>6, <2>1, <3>1
            DEF RegisteringRequests, Registered, Subscribed, Scanning, Agreements
    <2>2. CASE request = "subscribe"
        <3>1. Agreed(request, arg) = [bluenet EXCEPT !.subscribed = @ \cup {arg}]
            BY <2>2 DEF Agreed
        <3> QED
            BY <1>6, <2>2, <3>1
            DEF RegisteringRequests, Registered, Subscribed, Scanning, Agreements
    <2>3. CASE request = "start"
        <3>1. Agreed(request, arg) = [bluenet EXCEPT !.scanning = TRUE]
            BY <2>3 DEF Agreed
        <3> QED
            BY <1>6, <2>3, <3>1
            DEF RegisteringRequests, Registered, Subscribed, Scanning, Agreements
    <2>4. CASE request = "stop"
        <3>1. Agreed(request, arg) = [bluenet EXCEPT !.scanning = FALSE]
            BY <2>4 DEF Agreed
        <3> QED
            BY <1>6, <2>4, <3>1
            DEF RegisteringRequests, Registered, Subscribed, Scanning, Agreements
    <2>5. CASE request \notin RegisteringRequests \cup {"subscribe", "start", "stop"}
        <3>1. Agreed(request, arg) = bluenet
            BY <2>5 DEF Agreed, RegisteringRequests
        <3> QED
            BY <1>6, <2>5, <3>1 DEF Registered, Subscribed, Scanning
    <2> QED
        BY <2>1, <2>2, <2>3, <2>4, <2>5
<1>8. /\ bluenet' \in Agreements
      /\ bluenet'.registered = Registered(request, arg, ack)
      /\ bluenet'.subscribed = Subscribed(request, arg, ack)
      /\ bluenet'.scanning = Scanning(request, ack)
    BY <1>1, <1>6, <1>7 DEF Registered, Subscribed, Scanning
<1>9. running' = FALSE
    BY DEF Send
<1>10. Sent(outer, request, arg, event, slot)
    BY <1>2, <1>3, <1>4, <1>8 DEF Sent
<1> QED
    BY <1>5, <1>8, <1>9, <1>10

(* Calls that wait, each for a key or an event type of the right kind.     *)
Fits(c) ==
    /\ c.request = "subscribe" => c.arg \in BluenetTypes
    /\ c.request = "registerBle" => c.arg \in BleTypes

Waits == {s \in Seq(Pending) : \A i \in DOMAIN s : Fits(s[i])}

Typed == TypeOK /\ calls \in Waits

(* A call of a kind that registers nothing with bluenet.                   *)
PlainRequests == {"BLE.begin", "filter", "start", "stop", "other"}

LEMMA InnermostHolds ==
    ASSUME Typed, NEW request, Resumes(request)
    PROVE  /\ calls \in Waits /\ calls # <<>>
           /\ Innermost = calls[Len(calls)]
           /\ Innermost \in Pending /\ Innermost.request = request
           /\ Fits(Innermost)
           /\ Outer \in Waits
           /\ running = FALSE
<1>1. calls \in Waits /\ calls \in Seq(Pending) /\ calls # <<>> /\ running = FALSE
    BY DEF Typed, Waits, TypeOK, Resumes
<1>2. Innermost \in Pending /\ Innermost.request = request
    BY <1>1, OuterOf DEF Resumes, Innermost
<1>3. Len(calls) \in DOMAIN calls /\ Fits(Innermost)
    BY <1>1, OuterOf DEF Waits, Innermost
<1>4. Outer \in Seq(Pending) /\ \A i \in DOMAIN Outer : i \in DOMAIN calls /\ Outer[i] = calls[i]
    BY <1>1, OuterOf DEF Outer
<1>5. \A i \in DOMAIN calls : Fits(calls[i])
    BY <1>1 DEF Waits
<1>6. Outer \in Waits
    BY <1>4, <1>5 DEF Waits
<1> QED
    BY <1>1, <1>2, <1>3, <1>6 DEF Innermost

LEMMA TablesHold ==
    ASSUME Typed
    PROVE  /\ Table(table, MAX_INTERRUPT_REGISTRATIONS)
           /\ Table(handlers, MAX_BLE_EVENT_HANDLER_REGISTRATIONS)
           /\ Table(subscribed, MAX_SUBSCRIPTIONS)
BY SizesAssumption DEF Typed, TypeOK, Table, Slots

LEMMA Registration ==
    ASSUME Typed, HasRoom, NEW k \in Keys
    PROVE  registerInterrupt(k) \in [Slots -> Keys \cup {None}]
BY DEF Typed, TypeOK, registerInterrupt

LEMMA Removal ==
    ASSUME NEW I, NEW S, NEW t \in [I -> S \cup {None}], NEW k
    PROVE  removeInterruptRegistration(t, k) \in [I -> S \cup {None}]
<1>1. CASE k = None \/ Holding(t, k) = {}
    BY <1>1 DEF removeInterruptRegistration
<1>2. CASE ~(k = None \/ Holding(t, k) = {})
    <2>1. removeInterruptRegistration(t, k) = [t EXCEPT ![First(Holding(t, k))] = None]
        BY <1>2 DEF removeInterruptRegistration
    <2> QED
        BY <2>1
<1> QED
    BY <1>1, <1>2

HandlerTables == [1 .. MAX_BLE_EVENT_HANDLER_REGISTRATIONS -> EventTypes \cup {None}]

(* What a step that registers BLE types keeps: see registerBleInterrupt.   *)
KeepsTypes ==
    /\ running' \in BOOLEAN
    /\ calls' \in Waits
    /\ bluenet' \in Agreements
    /\ table' \in [Slots -> Keys \cup {None}]
    /\ handlers' \in HandlerTables

(* Calls that wait fit, and one more that fits.                            *)
LEMMA OneMoreWaits ==
    ASSUME NEW s \in Waits, NEW c \in Pending, Fits(c)
    PROVE  Append(s, c) \in Waits
<1>1. s \in Seq(Pending) /\ \A i \in DOMAIN s : Fits(s[i])
    BY DEF Waits
<1>2. \A i \in DOMAIN Append(s, c) :
          (i \in DOMAIN s /\ Append(s, c)[i] = s[i]) \/ Append(s, c)[i] = c
    BY <1>1, AppendTo
<1>3. \A i \in DOMAIN Append(s, c) : Fits(Append(s, c)[i])
    BY <1>1, <1>2
<1>4. Append(s, c) \in Seq(Pending)
    BY <1>1, AppendTo
<1> QED
    BY <1>3, <1>4 DEF Waits

LEMMA TypesReturn ==
    ASSUME Typed, NEW outer \in Waits, Returns(outer)
    PROVE  running' \in BOOLEAN /\ calls' \in Waits /\ bluenet' \in Agreements
BY DEF Typed, TypeOK, Returns, Agreements

LEMMA TypesSendFails ==
    ASSUME Typed, NEW outer \in Waits, SendFails(outer)
    PROVE  running' \in BOOLEAN /\ calls' \in Waits /\ bluenet' \in Agreements
BY DEF Typed, TypeOK, SendFails, Agreements

LEMMA TypesSend ==
    ASSUME Typed,
           NEW outer \in Waits, NEW request \in Requests, NEW arg, NEW event, NEW slot,
           arg \in Keys \cup BluenetTypes \cup {None},
           request \in RegisteringRequests => arg \in Keys,
           request = "subscribe" => arg \in BluenetTypes,
           request = "registerBle" => arg \in BleTypes,
           event \in EventTypes \cup {None}, slot \in 0 .. MAX_SUBSCRIPTIONS,
           Send(outer, request, arg, event, slot)
    PROVE  running' \in BOOLEAN /\ calls' \in Waits /\ bluenet' \in Agreements
<1>1. TypeOK /\ outer \in Seq(Pending)
    BY DEF Typed, Waits
<1>0. /\ running' = FALSE /\ bluenet' \in Agreements
      /\ Sent(outer, request, arg, event, slot)
    BY <1>1, Sending
<1>2. PICK c \in Pending : calls' = Append(outer, c) /\ c.request = request /\ c.arg = arg
    BY <1>0 DEF Sent
<1>3. Fits(c)
    BY <1>2 DEF Fits
<1> QED
    BY <1>0, <1>2, <1>3, OneMoreWaits

LEMMA TypesPlain ==
    ASSUME Typed, NEW outer \in Waits, NEW request \in PlainRequests,
           Send(outer, request, None, None, 0)
    PROVE  running' \in BOOLEAN /\ calls' \in Waits /\ bluenet' \in Agreements
<1>1. 0 \in 0 .. MAX_SUBSCRIPTIONS
    BY SizesAssumption
<1>2. /\ request \in Requests /\ request \notin RegisteringRequests
      /\ request # "subscribe" /\ request # "registerBle"
    BY DEF PlainRequests, Requests, RegisteringRequests
<1> QED
    BY <1>1, <1>2, TypesSend

LEMMA TypesRegisterBle ==
    ASSUME Typed, NEW outer \in Waits, NEW type \in BleTypes,
           NEW event \in EventTypes \cup {None}, NEW h \in HandlerTables,
           registerBleInterrupt(outer, type, event, h)
    PROVE  KeepsTypes
<1>1. type \in Keys /\ 0 \in 0 .. MAX_SUBSCRIPTIONS
    BY SizesAssumption DEF Keys
<1>2. HasRoom => registerInterrupt(type) \in [Slots -> Keys \cup {None}]
    BY <1>1, Registration
<1>3. CASE HasRoom /\ Send(outer, "registerBle", type, event, 0)
           /\ table' = registerInterrupt(type) /\ handlers' = h
    <2>1. running' \in BOOLEAN /\ calls' \in Waits /\ bluenet' \in Agreements
        BY <1>1, <1>3, TypesSend DEF Requests
    <2> QED
        BY <1>2, <1>3, <2>1 DEF KeepsTypes
<1>4. CASE HasRoom /\ SendFails(outer)
           /\ table' = removeInterruptRegistration(registerInterrupt(type), type)
           /\ handlers' = removeBleEventHandlerRegistration(h, event)
    BY <1>2, <1>4, TypesSendFails, Removal
    DEF KeepsTypes, HandlerTables, removeBleEventHandlerRegistration
<1>5. CASE ~HasRoom /\ Returns(outer) /\ UNCHANGED table
           /\ handlers' = removeBleEventHandlerRegistration(h, event)
    BY <1>5, TypesReturn, Removal
    DEF Typed, TypeOK, KeepsTypes, HandlerTables, removeBleEventHandlerRegistration
<1> QED
    BY <1>3, <1>4, <1>5 DEF registerBleInterrupt

(* The types an event asks for, in turn.                                   *)
TypeLists == {<<>>, <<"BLE_SCAN">>, <<"BLE_CENTRAL">>, <<"BLE_PERIPHERAL">>,
              <<"BLE_CENTRAL", "BLE_PERIPHERAL">>}

LEMMA ListsOfTypes ==
    /\ \A e \in EventTypes : BleTypesFor(e) \in TypeLists
    /\ \A type, e : TypesAfter(type, e) \in TypeLists
<1>1. \A e \in EventTypes : BleTypesFor(e) \in TypeLists
    BY NamesAssumption DEF BleTypesFor, TypeLists, DeviceEvents, LocalEvents, RemoteEvents
<1>2. \A type, e : TypesAfter(type, e) \in TypeLists
    BY DEF TypesAfter, TypeLists
<1> QED
    BY <1>1, <1>2

(* A call that goes on sends one more request, which registers nothing.    *)
LEMMA GoingOn ==
    ASSUME NEW type, GoesOn(type)
    PROVE  \E request \in {"start", "other"} :
              Send(Outer, request, None, None, 0) /\ UNCHANGED <<table, handlers>>
BY DEF GoesOn

LEMMA Connecting ==
    ASSUME connect \/ addService
    PROVE  /\ UNCHANGED linked
           /\ \E type \in {"BLE_CENTRAL", "BLE_PERIPHERAL"} : RegisterAndGoOn(type)
BY DEF connect, addService, UserCall

LEMMA Adding ==
    ASSUME NEW e \in EventTypes, setEventHandler(e) \/ setCharacteristicEventHandler(e)
    PROVE  UNCHANGED linked /\ AddEventHandler(e)
BY DEF setEventHandler, setCharacteristicEventHandler, UserCall

LEMMA MissingType ==
    ASSUME NEW types, types \in TypeLists
    PROVE  LET missing == {i \in DOMAIN types : types[i] \notin flags} IN
           missing # {} =>
              /\ First(missing) \in DOMAIN types
              /\ types[First(missing)] \in BleTypes
              /\ types[First(missing)] \notin flags
              /\ \A i \in DOMAIN types : i < First(missing) => types[i] \in flags
<1> DEFINE missing == {i \in DOMAIN types : types[i] \notin flags}
<1>1. /\ missing \in SUBSET Nat
      /\ \A i \in DOMAIN types : types[i] \in BleTypes
    BY DEF BleTypes, TypeLists
<1>2. missing # {} => First(missing) \in missing /\ \A j \in missing : First(missing) <= j
    BY <1>1, LeastOf DEF First
<1>3. \A i \in DOMAIN types : i \in Nat
    BY DEF TypeLists
<1>4. missing # {} => \A i \in DOMAIN types : i < First(missing) => types[i] \in flags
    BY <1>1, <1>2, <1>3
<1> QED
    BY <1>1, <1>2, <1>4

LEMMA TypesRegisterMissing ==
    ASSUME Typed, NEW outer \in Waits, NEW types,
           types \in TypeLists,
           NEW event \in EventTypes \cup {None}, NEW h \in HandlerTables,
           RegisterMissing(outer, types, event, h)
    PROVE  KeepsTypes
<1> DEFINE missing == {i \in DOMAIN types : types[i] \notin flags}
<1>1. CASE missing = {}
    <2>1. Returns(outer) /\ handlers' = h /\ UNCHANGED table
        BY <1>1 DEF RegisterMissing
    <2> QED
        BY <2>1, TypesReturn DEF KeepsTypes, Typed, TypeOK
<1>2. CASE missing # {}
    <2>1. types[First(missing)] \in BleTypes
        BY <1>2, MissingType
    <2>2. registerBleInterrupt(outer, types[First(missing)], event, h)
        BY <1>2 DEF RegisterMissing
    <2> QED
        BY <2>1, <2>2, TypesRegisterBle
<1> QED
    BY <1>1, <1>2

LEMMA TypesScan ==
    ASSUME Typed, NEW outer \in Waits, Scan(outer)
    PROVE  KeepsTypes
<1>0. TypeOK /\ handlers \in HandlerTables /\ table \in [Slots -> Keys \cup {None}]
    BY DEF Typed, TypeOK, HandlerTables
<1>1. CASE Returns(outer) /\ UNCHANGED <<table, handlers>>
    BY <1>0, <1>1, TypesReturn DEF KeepsTypes
<1>2. CASE Send(outer, "start", None, None, 0) /\ UNCHANGED <<table, handlers>>
    BY <1>0, <1>2, TypesPlain DEF KeepsTypes, PlainRequests
<1>3. CASE registerBleInterrupt(outer, "BLE_SCAN", None, handlers)
    BY <1>0, <1>3, TypesRegisterBle DEF BleTypes
<1> QED
    BY <1>1, <1>2, <1>3 DEF Scan

LEMMA TypesInit ==
    Init => Typed
<1> SUFFICES ASSUME Init PROVE Typed
    OBVIOUS
<1>1. calls \in Seq(Pending) /\ calls \in Waits
    BY DEF Init, Waits
<1>2. bluenet \in Agreements
    BY DEF Init, Agreements
<1> QED
    BY <1>1, <1>2 DEF Init, Typed, TypeOK, Agreements

LEMMA TypesStep ==
    Typed /\ [Next]_vars => Typed'
<1> SUFFICES ASSUME Typed, [Next]_vars PROVE Typed'
    OBVIOUS
<1> USE DEF Agreements, HandlerTables, UserCall, Typed
<1>00. \A s \in Waits : s \in Seq(Pending)
    BY DEF Waits
<1>0. /\ calls \in Waits /\ bluenet \in Agreements /\ linked \in BOOLEAN
      /\ handlers \in HandlerTables /\ table \in [Slots -> Keys \cup {None}]
      /\ 0 \in 0 .. MAX_SUBSCRIPTIONS
    BY SizesAssumption, <1>00 DEF TypeOK
<1>1. ASSUME NEW p \in Pins, attachInterrupt(p)
      PROVE  Typed'
    <2>1. p \in Keys /\ HasRoom
        BY <1>1 DEF attachInterrupt, Keys
    <2>2. registerInterrupt(p) \in [Slots -> Keys \cup {None}]
        BY <2>1, Registration
    <2>3. removeInterruptRegistration(registerInterrupt(p), p) \in [Slots -> Keys \cup {None}]
        BY <2>2, Removal
    <2>4. running' \in BOOLEAN /\ calls' \in Waits /\ bluenet' \in Agreements
        <3>1. CASE Send(calls, "attachInterrupt", p, None, 0)
            BY <1>0, <2>1, <3>1, TypesSend DEF Requests
        <3>2. CASE SendFails(calls)
            BY <1>0, <3>2, TypesSendFails
        <3> QED
            BY <1>1, <3>1, <3>2 DEF attachInterrupt
    <2>5. table' \in [Slots -> Keys \cup {None}]
        BY <1>1, <2>2, <2>3 DEF attachInterrupt
    <2> QED
        BY <1>1, <2>4, <2>5, <1>00 DEF attachInterrupt, TypeOK
<1>2. ASSUME listen
      PROVE  Typed'
    <2>1. "MESH_READ" \in Keys /\ HasRoom
        BY <1>2 DEF listen, Keys, OtherTypes
    <2>2. table' \in [Slots -> Keys \cup {None}]
        BY <1>2, <2>1, Registration DEF listen
    <2>3. running' \in BOOLEAN /\ calls' \in Waits /\ bluenet' \in Agreements
        BY <1>0, <1>2, <2>1, TypesSend, TypesSendFails DEF listen, Requests
    <2> QED
        BY <1>2, <2>2, <2>3, <1>00 DEF listen, TypeOK
<1>3. ASSUME MessageBegin
      PROVE  Typed'
    <2>1. "MSG_EVENT" \in Keys /\ HasRoom
        BY <1>3 DEF MessageBegin, Keys, OtherTypes
    <2>2. table' \in [Slots -> Keys \cup {None}]
        BY <1>3, <2>1, Registration DEF MessageBegin
    <2>3. running' \in BOOLEAN /\ calls' \in Waits /\ bluenet' \in Agreements
        BY <1>0, <1>3, <2>1, TypesSend, TypesSendFails DEF MessageBegin, Requests
    <2> QED
        BY <1>3, <2>2, <2>3, <1>00 DEF MessageBegin, TypeOK
<1>4. ASSUME setBluenetEventHandler
      PROVE  Typed'
    <2>1. "BLUENET_EVENT" \in Keys /\ HasRoom
        BY <1>4 DEF setBluenetEventHandler, Keys, OtherTypes
    <2>2. table' \in [Slots -> Keys \cup {None}]
        BY <1>4, <2>1, Registration DEF setBluenetEventHandler
    <2>3. running' \in BOOLEAN /\ calls' \in Waits /\ bluenet' \in Agreements
        BY <1>0, <1>4, TypesReturn DEF setBluenetEventHandler
    <2> QED
        BY <1>4, <2>1, <2>2, <2>3, <1>00 DEF setBluenetEventHandler, TypeOK
<1>5. ASSUME NEW type \in BluenetTypes, subscribe(type)
      PROVE  Typed'
    <2> DEFINE slot == First(Holding(subscribed, None))
    <2>1. slot \in Holding(subscribed, None)
        BY <1>5, FirstIsIn, TablesHold, HoldingFinite DEF subscribe
    <2>2. slot \in 0 .. MAX_SUBSCRIPTIONS
        BY <2>1, SizesAssumption, <1>00 DEF Holding, TypeOK
    <2> HIDE DEF slot
    <2>3. Send(calls, "subscribe", type, None, slot) \/ SendFails(calls)
        BY <1>5 DEF subscribe, slot
    <2>4. running' \in BOOLEAN /\ calls' \in Waits /\ bluenet' \in Agreements
        BY <1>0, <2>2, <2>3, TypesSend, TypesSendFails DEF Requests, RegisteringRequests
    <2> QED
        BY <1>5, <2>4, <1>00 DEF subscribe, local, TypeOK
<1>6. ASSUME BleBegin \/ scanFor \/ stopScan \/ yield
      PROVE  Typed'
    <2>1. \/ \E request \in PlainRequests : Send(calls, request, None, None, 0)
          \/ SendFails(calls)
        BY <1>6 DEF BleBegin, scanFor, stopScan, yield, PlainRequests
    <2>2. running' \in BOOLEAN /\ calls' \in Waits /\ bluenet' \in Agreements
        BY <1>0, <2>1, TypesPlain, TypesSendFails
    <2>3. UNCHANGED <<linked, table, flags, handlers, subscribed, initialized, isScanning>>
        BY <1>6 DEF BleBegin, scanFor, stopScan, yield, local
    <2> QED
        BY <2>2, <2>3, <1>00 DEF TypeOK
<1>7. ASSUME BleEnd
      PROVE  Typed'
    <2>1. running' \in BOOLEAN /\ calls' \in Waits /\ bluenet' \in Agreements
        BY <1>0, <1>7, TypesReturn DEF BleEnd
    <2> QED
        BY <1>7, <2>1, <1>00 DEF BleEnd, TypeOK
<1>8. ASSUME NEW e \in EventTypes, setEventHandler(e) \/ setCharacteristicEventHandler(e)
      PROVE  Typed'
    <2>1. registerBleEventHandler(e) \in HandlerTables
        BY <1>0 DEF registerBleEventHandler
    <2>2. RegisterMissing(calls, BleTypesFor(e), e, registerBleEventHandler(e))
        BY <1>8, Adding DEF AddEventHandler
    <2>3. UNCHANGED <<linked, flags, subscribed, initialized, isScanning>>
        BY <1>8, Adding DEF AddEventHandler
    <2>4. KeepsTypes
        BY <1>0, <2>1, <2>2, ListsOfTypes, TypesRegisterMissing
    <2> QED
        BY <2>3, <2>4, <1>00 DEF TypeOK, KeepsTypes
<1>8a. ASSUME connect \/ addService
       PROVE  Typed'
    <2>1. PICK type \in {"BLE_CENTRAL", "BLE_PERIPHERAL"} : RegisterAndGoOn(type)
        BY <1>8a, Connecting
    <2>2. UNCHANGED <<linked, flags, subscribed, initialized, isScanning>>
        BY <1>8a, <2>1, Connecting DEF RegisterAndGoOn
    <2>3. CASE Send(calls, "other", None, None, 0) /\ UNCHANGED <<table, handlers>>
        <3>1. running' \in BOOLEAN /\ calls' \in Waits /\ bluenet' \in Agreements
            BY <1>0, <2>3, TypesPlain DEF PlainRequests
        <3> QED
            BY <1>0, <2>2, <2>3, <3>1, <1>00 DEF TypeOK
    <2>4. CASE registerBleInterrupt(calls, type, None, handlers)
        <3>1. KeepsTypes
            BY <1>0, <2>4, TypesRegisterBle DEF BleTypes
        <3> QED
            BY <2>2, <3>1, <1>00 DEF TypeOK, KeepsTypes
    <2> QED
        BY <2>1, <2>3, <2>4 DEF RegisterAndGoOn
<1>9. ASSUME scan
      PROVE  Typed'
    <2>1. KeepsTypes
        BY <1>0, <1>9, TypesScan DEF scan
    <2> QED
        BY <1>9, <2>1, <1>00 DEF scan, TypeOK, KeepsTypes
<1>10. ASSUME attachInterruptResumes \/ listenResumes \/ otherResumes
       PROVE  Typed'
    <2>1. /\ Outer \in Waits /\ Returns(Outer) /\ UNCHANGED linked
          /\ UNCHANGED <<table, flags, handlers, subscribed, initialized, isScanning>>
        BY <1>10, InnermostHolds
        DEF attachInterruptResumes, listenResumes, otherResumes, local, Resumes
    <2>2. running' \in BOOLEAN /\ calls' \in Waits /\ bluenet' \in Agreements
        BY <2>1, TypesReturn
    <2> QED
        BY <2>1, <2>2, <1>00 DEF TypeOK
<1>11. ASSUME \/ MessageBeginResumes \/ subscribeResumes \/ BleBeginResumes
              \/ startResumes \/ stopResumes
       PROVE  Typed'
    <2>1. Outer \in Waits /\ Returns(Outer) /\ UNCHANGED linked
        BY <1>11, InnermostHolds
        DEF MessageBeginResumes, subscribeResumes, BleBeginResumes, startResumes, stopResumes,
            Resumes
    <2>2. running' \in BOOLEAN /\ calls' \in Waits /\ bluenet' \in Agreements
        BY <2>1, TypesReturn
    <2>3. flags' \subseteq Keys /\ initialized' \in BOOLEAN /\ isScanning' \in BOOLEAN
        BY <1>11
        DEF MessageBeginResumes, subscribeResumes, BleBeginResumes, startResumes, stopResumes,
            TypeOK, Keys, OtherTypes
    <2>4. UNCHANGED <<table, handlers>>
        BY <1>11
        DEF MessageBeginResumes, subscribeResumes, BleBeginResumes, startResumes, stopResumes
    <2>5. subscribed' \in [1 .. MAX_SUBSCRIPTIONS -> BluenetTypes \cup {None}]
        <3>1. CASE subscribeResumes
            <4>1. Innermost.arg \in BluenetTypes
                BY <3>1, InnermostHolds DEF subscribeResumes, Fits
            <4> QED
                BY <3>1, <4>1 DEF subscribeResumes, TypeOK
        <3>2. CASE UNCHANGED subscribed
            BY <3>2, <1>00 DEF TypeOK
        <3> QED
            BY <1>11, <3>1, <3>2
            DEF MessageBeginResumes, BleBeginResumes, startResumes, stopResumes
    <2> QED
        BY <2>1, <2>2, <2>3, <2>4, <2>5, <1>00 DEF TypeOK
<1>12. ASSUME registerBleResumes
       PROVE  Typed'
    <2> DEFINE c == Innermost
    <2>1. /\ Outer \in Waits /\ c.arg \in BleTypes /\ c.event \in EventTypes \cup {None}
          /\ c.ack \in {"SUCCESS", "ERROR"}
        BY <1>12, InnermostHolds DEF registerBleResumes, Fits, Pending
    <2> HIDE DEF c
    <2>2. KeepsTypes
        <3>1. CASE c.ack = "ERROR"
            <4>1. /\ table' = removeInterruptRegistration(table, c.arg)
                  /\ handlers' = removeBleEventHandlerRegistration(handlers, c.event)
                  /\ Returns(Outer) /\ UNCHANGED flags
                BY <1>12, <3>1 DEF registerBleResumes, c
            <4> QED
                BY <1>0, <2>1, <4>1, TypesReturn, Removal
                DEF KeepsTypes, removeBleEventHandlerRegistration
        <3>2. CASE c.ack = "SUCCESS" /\ c.event = None
            <4>1. \E request \in {"start", "other"} :
                      Send(Outer, request, None, None, 0) /\ UNCHANGED <<table, handlers>>
                BY <1>12, <3>2, GoingOn DEF registerBleResumes, c
            <4> QED
                BY <1>0, <2>1, <4>1, TypesPlain DEF KeepsTypes, PlainRequests
        <3>3. CASE c.ack = "SUCCESS" /\ c.event # None
            <4>1. RegisterMissing(Outer, TypesAfter(c.arg, c.event), c.event, handlers)
                BY <1>12, <3>3 DEF registerBleResumes, c
            <4> QED
                BY <1>0, <2>1, <4>1, ListsOfTypes, TypesRegisterMissing
        <3> QED
            BY <2>1, <3>1, <3>2, <3>3
    <2>3. flags' \subseteq Keys
        BY <1>12, <2>1, <1>00 DEF registerBleResumes, c, TypeOK, Keys
    <2> QED
        BY <1>12, <2>2, <2>3, <1>00 DEF registerBleResumes, Resumes, TypeOK, KeepsTypes, Waits
<1>13. ASSUME filterResumes
       PROVE  Typed'
    <2>1. KeepsTypes
        BY <1>13, InnermostHolds, TypesScan DEF filterResumes
    <2> QED
        BY <1>13, <2>1, <1>00 DEF filterResumes, Resumes, TypeOK, KeepsTypes
<1>14. ASSUME Interrupt \/ HandlerReturns \/ UNCHANGED vars
       PROVE  Typed'
    <2>1. running' \in BOOLEAN
        BY <1>14, <1>00 DEF Interrupt, HandlerReturns, vars, TypeOK
    <2> QED
        BY <1>14, <2>1, <1>00 DEF Interrupt, HandlerReturns, vars, local, TypeOK
<1> QED
    BY <1>1, <1>2, <1>3, <1>4, <1>5, <1>6, <1>7, <1>8, <1>8a, <1>9, <1>10, <1>11, <1>12, <1>13, <1>14
    DEF Next, Calls, Resumptions
------------------------------------------------------------------------------
(* What each step does to the counts.                                      *)

LEMMA WhatIsThere ==
    ASSUME Typed
    PROVE  /\ calls \in Waits /\ Waits \subseteq Seq(Pending) /\ TypeOK
           /\ bluenet.registered \subseteq Keys
           /\ None \notin bluenet.registered \cup BleTypes
           /\ 0 \in 0 .. MAX_SUBSCRIPTIONS
<1>1. /\ calls \in Waits /\ TypeOK /\ Waits \subseteq Seq(Pending)
      /\ bluenet.registered \subseteq Keys
      /\ 0 \in 0 .. MAX_SUBSCRIPTIONS
    BY SizesAssumption DEF Typed, Waits, TypeOK
<1>2. None \notin BleTypes
    BY DEF None, BleTypes
<1> QED
    BY <1>1, <1>2, NoneIsNoKey

LEMMA CountedPlain ==
    ASSUME Typed, NEW outer \in Waits, CountedIn(outer, table, bluenet.registered),
           NEW request \in PlainRequests, Send(outer, request, None, None, 0), UNCHANGED table
    PROVE  Counted'
<1>1. request \in Requests \ (RegisteringRequests \cup {"subscribe", "registerBle"})
    BY DEF PlainRequests, Requests, RegisteringRequests
<1>2. outer \in Seq(Pending)
    BY WhatIsThere
<1>3. Sent(outer, request, None, None, 0)
    BY <1>1, <1>2, WhatIsThere, Sending
<1>4. PICK c \in Pending :
          /\ calls' = Append(outer, c) /\ c.request = request
          /\ bluenet'.registered = Registered(request, None, c.ack)
    BY <1>3 DEF Sent
<1>5. bluenet'.registered = bluenet.registered
    BY <1>1, <1>4 DEF Registered
<1> QED
    BY <1>1, <1>2, <1>4, <1>5, CountedSend DEF Counted

LEMMA CountedBle ==
    ASSUME Typed, NEW outer \in Waits, CountedIn(outer, table, bluenet.registered),
           NEW type \in BleTypes, NEW event \in EventTypes \cup {None}, NEW h,
           registerBleInterrupt(outer, type, event, h)
    PROVE  Counted'
<1>1. /\ outer \in Seq(Pending) /\ type \in Keys /\ type # None
      /\ Table(table, MAX_INTERRUPT_REGISTRATIONS)
    BY WhatIsThere, TablesHold DEF Keys
<1>2. CASE HasRoom /\ Send(outer, "registerBle", type, event, 0)
           /\ table' = registerInterrupt(type)
    <2>1. Sent(outer, "registerBle", type, event, 0)
        BY <1>1, <1>2, WhatIsThere, Sending DEF Requests
    <2>2. PICK c \in Pending :
              /\ calls' = Append(outer, c) /\ c.request = "registerBle" /\ c.arg = type
              /\ bluenet'.registered = Registered("registerBle", type, c.ack)
        BY <2>1 DEF Sent
    <2>3. bluenet'.registered =
              IF c.ack = "SUCCESS" THEN bluenet.registered \cup {c.arg} ELSE bluenet.registered
        BY <2>2 DEF Registered, RegisteringRequests
    <2>4. table' = [table EXCEPT ![First(Holding(table, None))] = c.arg]
        BY <1>2, <2>2 DEF registerInterrupt
    <2>5. CountedIn(Append(outer, c), [table EXCEPT ![First(Holding(table, None))] = c.arg],
                    IF c.ack = "SUCCESS" THEN bluenet.registered \cup {c.arg}
                    ELSE bluenet.registered)
        BY <1>1, <1>2, <2>2, WhatIsThere, CountedRegisterBle DEF HasRoom
    <2> QED
        BY <2>2, <2>3, <2>4, <2>5 DEF Counted
<1>3. CASE HasRoom /\ SendFails(outer)
           /\ table' = removeInterruptRegistration(registerInterrupt(type), type)
    BY <1>1, <1>3, WhatIsThere, CountedUndo
    DEF SendFails, Counted, HasRoom, registerInterrupt
<1>4. CASE Returns(outer) /\ UNCHANGED table
    BY <1>4 DEF Returns, Counted
<1> QED
    BY <1>2, <1>3, <1>4 DEF registerBleInterrupt

LEMMA CountedMissing ==
    ASSUME Typed, NEW outer \in Waits, CountedIn(outer, table, bluenet.registered),
           NEW types, types \in TypeLists,
           NEW event \in EventTypes \cup {None}, NEW h,
           RegisterMissing(outer, types, event, h)
    PROVE  Counted'
<1> DEFINE missing == {i \in DOMAIN types : types[i] \notin flags}
<1>1. CASE missing = {}
    <2>1. Returns(outer) /\ UNCHANGED table
        BY <1>1 DEF RegisterMissing
    <2> QED
        BY <2>1 DEF Returns, Counted
<1>2. CASE missing # {}
    <2>1. types[First(missing)] \in BleTypes
        BY <1>2, MissingType
    <2>2. registerBleInterrupt(outer, types[First(missing)], event, h)
        BY <1>2 DEF RegisterMissing
    <2> QED
        BY <2>1, <2>2, CountedBle
<1> QED
    BY <1>1, <1>2

LEMMA CountedScan ==
    ASSUME Typed, NEW outer \in Waits, CountedIn(outer, table, bluenet.registered), Scan(outer)
    PROVE  Counted'
<1>1. CASE Returns(outer) /\ UNCHANGED table
    BY <1>1 DEF Returns, Counted
<1>2. CASE Send(outer, "start", None, None, 0) /\ UNCHANGED table
    BY <1>2, CountedPlain DEF PlainRequests
<1>3. CASE registerBleInterrupt(outer, "BLE_SCAN", None, handlers)
    BY <1>3, CountedBle DEF BleTypes
<1> QED
    BY <1>1, <1>2, <1>3 DEF Scan

(* A key of another kind is registered for a request that is sent.         *)
LEMMA CountedOther ==
    ASSUME Typed, Counted, HasRoom,
           NEW k \in Keys \ BleTypes, table' = registerInterrupt(k),
           NEW request \in {"attachInterrupt", "listen", "Message.begin"},
           Send(calls, request, k, None, 0) \/ SendFails(calls)
    PROVE  Counted'
<1>1. /\ calls \in Seq(Pending) /\ k # None /\ Table(table, MAX_INTERRUPT_REGISTRATIONS)
      /\ request \in Requests \ {"subscribe", "registerBle"}
    BY WhatIsThere, TablesHold, NoneIsNoKey DEF Requests
<1>2. CASE Send(calls, request, k, None, 0)
    <2>1. Sent(calls, request, k, None, 0)
        BY <1>1, <1>2, WhatIsThere, Sending
    <2>2. PICK c \in Pending :
              /\ calls' = Append(calls, c) /\ c.request = request
              /\ bluenet'.registered = Registered(request, k, c.ack)
        BY <2>1 DEF Sent
    <2>3. bluenet'.registered \in {bluenet.registered, bluenet.registered \cup {k}}
        BY <2>2 DEF Registered
    <2>4. CountedIn(calls, table', bluenet'.registered)
        BY <1>1, <2>3, WhatIsThere, CountedRegister DEF HasRoom, Counted, registerInterrupt
    <2> QED
        BY <1>1, <2>2, <2>4, CountedSend DEF Counted
<1>3. CASE SendFails(calls)
    BY <1>1, <1>3, WhatIsThere, CountedRegister
    DEF SendFails, HasRoom, Counted, registerInterrupt
<1> QED
    BY <1>2, <1>3

LEMMA CountedInit ==
    Init => Counted
<1> SUFFICES ASSUME Init PROVE Counted
    OBVIOUS
<1>1. calls = <<>> /\ DOMAIN calls = {} /\ bluenet.registered = {}
    BY DEF Init
<1>2. \A k : RefusedIn(calls, k) = {}
    BY <1>1 DEF RefusedIn
<1>3. \A k : k # None => Holding(table, k) = {}
    BY DEF Init, Holding
<1>4. None \notin BleTypes
    BY DEF None, BleTypes
<1> QED
    BY <1>1, <1>2, <1>3, <1>4 DEF Counted, CountedIn

LEMMA CountedStep ==
    Typed /\ Counted /\ [Next]_vars => Counted'
<1> SUFFICES ASSUME Typed, Counted, [Next]_vars PROVE Counted'
    OBVIOUS
<1>0. /\ calls \in Waits /\ CountedIn(calls, table, bluenet.registered)
      /\ \A s \in Waits : s \in Seq(Pending)
    BY WhatIsThere DEF Counted
<1>00. /\ Table(table, MAX_INTERRUPT_REGISTRATIONS)
       /\ Table(handlers, MAX_BLE_EVENT_HANDLER_REGISTRATIONS)
       /\ None \notin bluenet.registered \cup BleTypes
    BY WhatIsThere, TablesHold
(* A call that resumes, and takes nothing back.                            *)
<1>a. ASSUME NEW request, Resumes(request),
             ~(Innermost.request = "registerBle" /\ Innermost.ack = "ERROR")
      PROVE  Outer \in Waits /\ CountedIn(Outer, table, bluenet.registered)
    <2>1. calls # <<>> /\ Innermost = calls[Len(calls)] /\ Outer \in Waits
        BY <1>a, InnermostHolds
    <2> QED
        BY <1>0, <1>a, <2>1, CountedReturn DEF Outer
<1>1. ASSUME NEW p \in Pins, attachInterrupt(p)
      PROVE  Counted'
    <2>1. p \in Keys \ BleTypes /\ HasRoom
        BY <1>1, NamesAssumption DEF attachInterrupt, Keys
    <2>2. CASE Send(calls, "attachInterrupt", p, None, 0) /\ table' = registerInterrupt(p)
        BY <2>1, <2>2, CountedOther
    <2>3. CASE SendFails(calls)
               /\ table' = removeInterruptRegistration(registerInterrupt(p), p)
        BY <1>0, <1>00, <2>1, <2>3, CountedUndo, NoneIsNoKey
        DEF SendFails, Counted, HasRoom, registerInterrupt
    <2> QED
        BY <1>1, <2>2, <2>3 DEF attachInterrupt
<1>2. ASSUME listen
      PROVE  Counted'
    <2>1. "MESH_READ" \in Keys \ BleTypes /\ HasRoom
        BY <1>2 DEF listen, Keys, OtherTypes, BleTypes
    <2> QED
        BY <1>2, <2>1, CountedOther DEF listen
<1>3. ASSUME MessageBegin
      PROVE  Counted'
    <2>1. "MSG_EVENT" \in Keys \ BleTypes /\ HasRoom
        BY <1>3 DEF MessageBegin, Keys, OtherTypes, BleTypes
    <2> QED
        BY <1>3, <2>1, CountedOther DEF MessageBegin
<1>4. ASSUME setBluenetEventHandler
      PROVE  Counted'
    <2>1. "BLUENET_EVENT" \in Keys \ BleTypes /\ HasRoom
        BY <1>4 DEF setBluenetEventHandler, Keys, OtherTypes, BleTypes
    <2>2. CountedIn(calls, table', bluenet.registered)
        BY <1>0, <1>00, <1>4, <2>1, CountedRegister, NoneIsNoKey
        DEF setBluenetEventHandler, HasRoom, registerInterrupt
    <2> QED
        BY <1>4, <2>2 DEF setBluenetEventHandler, Returns, Counted
<1>5. ASSUME NEW type \in BluenetTypes, subscribe(type)
      PROVE  Counted'
    <2> DEFINE slot == First(Holding(subscribed, None))
    <2>1. slot \in Holding(subscribed, None)
        BY <1>5, FirstIsIn, TablesHold, HoldingFinite DEF subscribe
    <2>2. slot \in 0 .. MAX_SUBSCRIPTIONS
        BY <2>1, SizesAssumption, TablesHold DEF Holding, Table
    <2> HIDE DEF slot
    <2>3. UNCHANGED table /\ (Send(calls, "subscribe", type, None, slot) \/ SendFails(calls))
        BY <1>5 DEF subscribe, slot, local
    <2>4. CASE Send(calls, "subscribe", type, None, slot)
        <3>1. Sent(calls, "subscribe", type, None, slot)
            BY <1>0, <2>2, <2>4, WhatIsThere, Sending DEF Requests, RegisteringRequests
        <3>2. PICK c \in Pending :
                  /\ calls' = Append(calls, c) /\ c.request = "subscribe"
                  /\ bluenet'.registered = Registered("subscribe", type, c.ack)
            BY <3>1 DEF Sent
        <3>3. bluenet'.registered = bluenet.registered
            BY <3>2 DEF Registered, RegisteringRequests
        <3> QED
            BY <1>0, <2>3, <3>2, <3>3, CountedSend DEF Counted
    <2>5. CASE SendFails(calls)
        BY <1>0, <2>3, <2>5 DEF SendFails, Counted
    <2> QED
        BY <2>3, <2>4, <2>5
<1>6. ASSUME BleBegin \/ scanFor \/ stopScan \/ yield
      PROVE  Counted'
    <2>1. UNCHANGED table
        BY <1>6 DEF BleBegin, scanFor, stopScan, yield, local
    <2>2. CASE \E request \in PlainRequests : Send(calls, request, None, None, 0)
        BY <1>0, <2>1, <2>2, CountedPlain
    <2>3. CASE SendFails(calls)
        BY <1>0, <2>1, <2>3 DEF SendFails, Counted
    <2> QED
        BY <1>6, <2>2, <2>3 DEF BleBegin, scanFor, stopScan, yield, PlainRequests
<1>7. ASSUME BleEnd
      PROVE  Counted'
    BY <1>0, <1>7 DEF BleEnd, Returns, Counted
<1>8. ASSUME NEW e \in EventTypes, setEventHandler(e) \/ setCharacteristicEventHandler(e)
      PROVE  Counted'
    <2>1. RegisterMissing(calls, BleTypesFor(e), e, registerBleEventHandler(e))
        BY <1>8, Adding DEF AddEventHandler
    <2> QED
        BY <1>0, <2>1, ListsOfTypes, CountedMissing
<1>8a. ASSUME connect \/ addService
       PROVE  Counted'
    <2>1. PICK type \in {"BLE_CENTRAL", "BLE_PERIPHERAL"} : RegisterAndGoOn(type)
        BY <1>8a, Connecting
    <2>2. CASE Send(calls, "other", None, None, 0) /\ UNCHANGED <<table, handlers>>
        BY <1>0, <2>2, CountedPlain DEF PlainRequests
    <2>3. CASE registerBleInterrupt(calls, type, None, handlers)
        BY <1>0, <2>3, CountedBle DEF BleTypes
    <2> QED
        BY <2>1, <2>2, <2>3 DEF RegisterAndGoOn
<1>9. ASSUME scan
      PROVE  Counted'
    BY <1>0, <1>9, CountedScan DEF scan
<1>10. ASSUME \/ attachInterruptResumes \/ listenResumes \/ otherResumes
              \/ MessageBeginResumes \/ subscribeResumes \/ BleBeginResumes
              \/ startResumes \/ stopResumes
       PROVE  Counted'
    <2>1. /\ Returns(Outer) /\ UNCHANGED table
          /\ \E request \in Requests : Resumes(request) /\ request # "registerBle"
        BY <1>10
        DEF attachInterruptResumes, listenResumes, otherResumes, local, MessageBeginResumes,
            subscribeResumes, BleBeginResumes, startResumes, stopResumes, Requests
    <2>2. PICK request \in Requests : Resumes(request) /\ request # "registerBle"
        BY <2>1
    <2>3. Innermost.request # "registerBle"
        BY <2>2, InnermostHolds
    <2>4. CountedIn(Outer, table, bluenet.registered)
        BY <1>a, <2>2, <2>3
    <2> QED
        BY <2>1, <2>4 DEF Returns, Counted
<1>12. ASSUME registerBleResumes
       PROVE  Counted'
    <2> DEFINE c == Innermost
    <2>1. /\ Outer \in Waits /\ c.arg \in BleTypes /\ c.event \in EventTypes \cup {None}
          /\ c.ack \in {"SUCCESS", "ERROR"} /\ c.request = "registerBle"
          /\ calls # <<>> /\ c = calls[Len(calls)]
        BY <1>12, InnermostHolds DEF registerBleResumes, Fits, Pending
    <2> HIDE DEF c
    <2>2. CASE c.ack = "ERROR"
        <3>1. table' = removeInterruptRegistration(table, c.arg) /\ Returns(Outer)
            BY <1>12, <2>2 DEF registerBleResumes, c
        <3>2. CountedIn(Outer, table', bluenet.registered)
            BY <1>0, <1>00, <2>1, <2>2, <3>1, CountedTakeBack DEF Outer
        <3> QED
            BY <3>1, <3>2 DEF Returns, Counted
    <2>3. CASE c.ack = "SUCCESS"
        <3>1. CountedIn(Outer, table, bluenet.registered)
            BY <1>12, <1>a, <2>3 DEF registerBleResumes, c
        <3>2. CASE c.event = None
            <4>1. \E request \in {"start", "other"} :
                      Send(Outer, request, None, None, 0) /\ UNCHANGED table
                BY <1>12, <2>3, <3>2, GoingOn DEF registerBleResumes, c
            <4> QED
                BY <2>1, <3>1, <4>1, CountedPlain DEF PlainRequests
        <3>3. CASE c.event # None
            <4>1. RegisterMissing(Outer, TypesAfter(c.arg, c.event), c.event, handlers)
                BY <1>12, <2>3, <3>3 DEF registerBleResumes, c
            <4> QED
                BY <2>1, <3>1, <4>1, ListsOfTypes, CountedMissing
        <3> QED
            BY <3>2, <3>3
    <2> QED
        BY <2>1, <2>2, <2>3
<1>13. ASSUME filterResumes
       PROVE  Counted'
    <2>1. Resumes("filter") /\ Innermost.request = "filter" /\ Scan(Outer)
        BY <1>13, InnermostHolds DEF filterResumes
    <2>2. Outer \in Waits /\ CountedIn(Outer, table, bluenet.registered)
        BY <1>a, <2>1
    <2> QED
        BY <2>1, <2>2, CountedScan
<1>14. ASSUME Interrupt \/ HandlerReturns \/ UNCHANGED vars
       PROVE  Counted'
    BY <1>14 DEF Interrupt, HandlerReturns, vars, local, Counted
<1> QED
    BY <1>1, <1>2, <1>3, <1>4, <1>5, <1>6, <1>7, <1>8, <1>8a, <1>9, <1>10, <1>12, <1>13, <1>14
    DEF Next, Calls, Resumptions
------------------------------------------------------------------------------
(* What bluenet interrupts for has a slot more than will be taken back.    *)
LEMMA CountedFindsHandler ==
    ASSUME Typed, Counted
    PROVE  InterruptsFindHandler
<1> SUFFICES ASSUME NEW k \in bluenet.registered
             PROVE  Holding(table, k) # {}
    BY DEF InterruptsFindHandler
<1>1. calls \in Seq(Pending) /\ Table(table, MAX_INTERRUPT_REGISTRATIONS)
    BY WhatIsThere, TablesHold
<1>2. /\ Cardinality(RefusedIn(calls, k)) \in Nat /\ Cardinality(Holding(table, k)) \in Nat
      /\ Cardinality(RefusedIn(calls, k)) < Cardinality(Holding(table, k))
    BY <1>1, RefusedFinite, HoldingFinite DEF Counted, CountedIn
<1> QED
    BY <1>1, <1>2, HoldingFinite

(* A type bluenet does not interrupt for has none but those.               *)
LEMMA CountedLeavesNothing ==
    ASSUME Typed, Counted
    PROVE  RefusedLeavesNothing
<1> SUFFICES ASSUME NEW t \in BleTypes, Holding(table, t) # {}, t \notin bluenet.registered
             PROVE  \E i \in Waiting("registerBle") : calls[i].arg = t
    BY DEF RefusedLeavesNothing
<1>1. calls \in Seq(Pending) /\ Table(table, MAX_INTERRUPT_REGISTRATIONS)
    BY WhatIsThere, TablesHold
<1>2. /\ Cardinality(RefusedIn(calls, t)) = Cardinality(Holding(table, t))
      /\ Cardinality(Holding(table, t)) \in Nat /\ Cardinality(Holding(table, t)) > 0
    BY <1>1, HoldingFinite DEF Counted, CountedIn
<1>3. RefusedIn(calls, t) # {}
    BY <1>2, FS_EmptySet
<1>4. DOMAIN calls = 1 .. Len(calls)
    BY <1>1
<1> QED
    BY <1>3, <1>4 DEF RefusedIn, Waiting

(* Tables hold keys, and calls that wait name a slot there is and a key of *)
(* the right kind, whatever user code calls and however interrupts nest.   *)
THEOREM TypesHold ==
    Spec => []TypeOK
<1>1. Typed => TypeOK
    BY DEF Typed
<1> QED
    BY <1>1, TypesInit, TypesStep, PTL DEF Spec

(* Whatever bluenet was asked to interrupt for finds a registration        *)
(* (microapp.c:270-281), also after a nested call for the same key was     *)
(* refused and removed one (ArduinoBLE.cpp:747-755): the slots a key holds *)
(* are more than those that refused calls will still take back.            *)
THEOREM FindsHandler ==
    Spec => []InterruptsFindHandler
<1>1. Init => Typed /\ Counted
    BY TypesInit, CountedInit
<1>2. Typed /\ Counted /\ [Next]_vars => (Typed /\ Counted)'
    BY TypesStep, CountedStep
<1>3. Typed /\ Counted => InterruptsFindHandler
    BY CountedFindsHandler
<1> QED
    BY <1>1, <1>2, <1>3, PTL DEF Spec

(* What bluenet refused takes no slot of the table once its call returned. *)
THEOREM LeavesNothing ==
    Spec => []RefusedLeavesNothing
<1>1. Init => Typed /\ Counted
    BY TypesInit, CountedInit
<1>2. Typed /\ Counted /\ [Next]_vars => (Typed /\ Counted)'
    BY TypesStep, CountedStep
<1>3. Typed /\ Counted => RefusedLeavesNothing
    BY CountedLeavesNothing
<1> QED
    BY <1>1, <1>2, <1>3, PTL DEF Spec
------------------------------------------------------------------------------
(* Event handlers.                                                         *)

(* The types an event needs, and the calls that wait to register one.      *)
Needs(e) == {t \in BleTypes : \E i \in DOMAIN BleTypesFor(e) : BleTypesFor(e)[i] = t}

MadeIn(s, e) == {i \in DOMAIN s : s[i].request = "registerBle" /\ s[i].event = e}

BackedFor(s, h, registered, e) ==
    /\ \A i, j \in MadeIn(s, e) : i = j
    /\ \A i, j \in Holding(h, e) : i = j
    /\ MadeIn(s, e) # {} => Holding(h, e) # {}
    /\ Holding(h, e) # {} /\ MadeIn(s, e) = {} => Needs(e) \subseteq registered

(* The handler is in its slot, and no call waits for it (yet).             *)
Busy(s, h, e) ==
    /\ MadeIn(s, e) = {}
    /\ Holding(h, e) # {}
    /\ \A i, j \in Holding(h, e) : i = j

(* A call registers one of the types its event needs, the peripheral type  *)
(* when bluenet has agreed to the central one.                             *)
InTurn(type, e, registered) ==
    /\ type \in Needs(e)
    /\ type = "BLE_PERIPHERAL" /\ "BLE_CENTRAL" \in Needs(e) => "BLE_CENTRAL" \in registered

LEMMA NeededTypes ==
    ASSUME NEW e \in EventTypes
    PROVE  /\ \A i \in DOMAIN BleTypesFor(e) : BleTypesFor(e)[i] \in Needs(e)
           /\ \A t \in Needs(e) : \E i \in DOMAIN BleTypesFor(e) : BleTypesFor(e)[i] = t
           /\ \A type \in Needs(e) :
                 /\ \A i \in DOMAIN TypesAfter(type, e) : TypesAfter(type, e)[i] \in Needs(e)
                 /\ \A t \in Needs(e) :
                       \/ t = type
                       \/ t = "BLE_CENTRAL" /\ type = "BLE_PERIPHERAL"
                       \/ \E i \in DOMAIN TypesAfter(type, e) : TypesAfter(type, e)[i] = t
<1>1. CASE e = "BLEDeviceScanned"
    <2>1. BleTypesFor(e) = <<"BLE_SCAN">>
        BY <1>1 DEF BleTypesFor, LocalEvents, RemoteEvents
    <2>2. Needs(e) = {"BLE_SCAN"} /\ \A type \in Needs(e) : TypesAfter(type, e) = <<>>
        BY <2>1 DEF Needs, BleTypes, TypesAfter
    <2> QED
        BY <2>1, <2>2
<1>2. CASE e \in {"BLEConnected", "BLEDisconnected"}
    <2>1. BleTypesFor(e) = <<"BLE_CENTRAL", "BLE_PERIPHERAL">>
        BY <1>2 DEF BleTypesFor, LocalEvents, RemoteEvents
    <2>2. /\ Needs(e) = {"BLE_CENTRAL", "BLE_PERIPHERAL"}
          /\ TypesAfter("BLE_CENTRAL", e) = <<"BLE_PERIPHERAL">>
          /\ TypesAfter("BLE_PERIPHERAL", e) = <<>>
        BY <1>2, <2>1 DEF Needs, BleTypes, TypesAfter, DeviceEvents
    <2> QED
        BY <2>1, <2>2
<1>3. CASE e \in LocalEvents
    <2>1. BleTypesFor(e) = <<"BLE_PERIPHERAL">>
        BY <1>3 DEF BleTypesFor, LocalEvents, RemoteEvents
    <2>2. Needs(e) = {"BLE_PERIPHERAL"} /\ \A type \in Needs(e) : TypesAfter(type, e) = <<>>
        BY <2>1 DEF Needs, BleTypes, TypesAfter
    <2> QED
        BY <2>1, <2>2
<1>4. CASE e \in RemoteEvents
    <2>1. BleTypesFor(e) = <<"BLE_CENTRAL">>
        BY <1>4 DEF BleTypesFor, LocalEvents, RemoteEvents
    <2>2. Needs(e) = {"BLE_CENTRAL"} /\ \A type \in Needs(e) : TypesAfter(type, e) = <<>>
        BY <1>4, <2>1 DEF Needs, BleTypes, TypesAfter, DeviceEvents, RemoteEvents
    <2> QED
        BY <2>1, <2>2
<1> QED
    BY <1>1, <1>2, <1>3, <1>4, NamesAssumption DEF DeviceEvents

(* The handlers are backed, but that of the event setEventHandler is busy  *)
(* with; None when it is with none.                                        *)
BackedBut(s, h, f, registered, event) ==
    /\ f \cap BleTypes \subseteq registered
    /\ \A i \in DOMAIN s : s[i].request = "registerBle" /\ s[i].event # None =>
           InTurn(s[i].arg, s[i].event, registered)
    /\ \A e \in EventTypes \ {event} : BackedFor(s, h, registered, e)
    /\ event # None => Busy(s, h, event)

Backed == BackedBut(calls, handlers, flags, bluenet.registered, None)

LEMMA NoneIsNoEvent ==
    None \notin EventTypes
BY NoneIsNoKey

LEMMA BackedDone ==
    ASSUME NEW s, NEW h, NEW f, NEW registered, NEW event \in EventTypes,
           BackedBut(s, h, f, registered, event), Needs(event) \subseteq registered
    PROVE  BackedBut(s, h, f, registered, None)
<1>1. BackedFor(s, h, registered, event)
    BY NoneIsNoEvent DEF BackedBut, Busy, BackedFor
<1> QED
    BY <1>1 DEF BackedBut

LEMMA BackedMore ==
    ASSUME NEW s, NEW h, NEW f, NEW registered, NEW event,
           BackedBut(s, h, f, registered, event),
           NEW g, NEW agreed, registered \subseteq agreed, g \cap BleTypes \subseteq agreed
    PROVE  BackedBut(s, h, g, agreed, event)
<1>1. \A e : BackedFor(s, h, registered, e) => BackedFor(s, h, agreed, e)
    BY DEF BackedFor
<1>2. \A t, e : InTurn(t, e, registered) => InTurn(t, e, agreed)
    BY DEF InTurn
<1> QED
    BY <1>1, <1>2 DEF BackedBut

(* The handler of the event is taken back.                                 *)
LEMMA BackedRemoved ==
    ASSUME NEW s, NEW h, NEW n, Table(h, n), NEW f, NEW registered,
           NEW event \in EventTypes \cup {None}, BackedBut(s, h, f, registered, event)
    PROVE  BackedBut(s, removeBleEventHandlerRegistration(h, event), f, registered, None)
<1> DEFINE u == removeBleEventHandlerRegistration(h, event)
<1>1. CASE event = None
    BY <1>1 DEF removeBleEventHandlerRegistration, removeInterruptRegistration
<1>2. CASE event \in EventTypes
    <2>1. event # None /\ Holding(h, event) # {}
        BY <1>2, NoneIsNoEvent DEF BackedBut, Busy
    <2>2. /\ \A j : j # event /\ j # None => Holding(u, j) = Holding(h, j)
          /\ \E i \in Holding(h, event) : Holding(u, event) = Holding(h, event) \ {i}
        BY <2>1, Removing DEF removeBleEventHandlerRegistration
    <2>3. Holding(u, event) = {}
        BY <2>1, <2>2 DEF BackedBut, Busy
    <2> HIDE DEF u
    <2>4. BackedFor(s, u, registered, event)
        BY <2>1, <2>3 DEF BackedBut, Busy, BackedFor
    <2>5. \A e \in EventTypes \ {event} : BackedFor(s, u, registered, e)
        BY <2>2, NoneIsNoEvent DEF BackedBut, BackedFor
    <2>6. BackedBut(s, u, f, registered, None)
        BY <2>4, <2>5 DEF BackedBut
    <2> QED
        BY <2>6 DEF u
<1> QED
    BY <1>1, <1>2

(* The call that registers a type for the event waits.                     *)
LEMMA BackedSend ==
    ASSUME NEW s \in Seq(Pending), NEW h, NEW f, NEW registered,
           NEW c \in Pending, c.request = "registerBle",
           BackedBut(s, h, f, registered, c.event),
           c.event # None => InTurn(c.arg, c.event, registered)
    PROVE  BackedBut(Append(s, c), h, f, registered, None)
<1> DEFINE v == Append(s, c)
<1>1. /\ DOMAIN v = 1 .. Len(s) + 1 /\ DOMAIN s = 1 .. Len(s) /\ Len(s) \in Nat
      /\ \A i \in 1 .. Len(s) : v[i] = s[i]
      /\ v[Len(s) + 1] = c
    BY AppendTo
<1> HIDE DEF v
<1>2. \A e : e # c.event => MadeIn(v, e) = MadeIn(s, e)
    BY <1>1 DEF MadeIn
<1>3. \A e \in EventTypes \ {c.event} : BackedFor(v, h, registered, e)
    BY <1>2 DEF BackedBut, BackedFor
<1>4. c.event # None => BackedFor(v, h, registered, c.event)
    <2> HAVE c.event # None
    <2>1. MadeIn(s, c.event) = {} /\ Busy(s, h, c.event)
        BY DEF BackedBut, Busy
    <2>2. MadeIn(v, c.event) = {Len(s) + 1}
        BY <1>1, <2>1 DEF MadeIn
    <2> QED
        BY <2>1, <2>2 DEF Busy, BackedFor
<1>5. \A i \in DOMAIN v : v[i].request = "registerBle" /\ v[i].event # None =>
          InTurn(v[i].arg, v[i].event, registered)
    BY <1>1 DEF BackedBut
<1>6. BackedBut(v, h, f, registered, None)
    BY <1>3, <1>4, <1>5, NoneIsNoEvent DEF BackedBut
<1> QED
    BY <1>6 DEF v

LEMMA BackedSendOther ==
    ASSUME NEW s \in Seq(Pending), NEW h, NEW f, NEW registered,
           NEW c \in Pending, c.request # "registerBle",
           BackedBut(s, h, f, registered, None)
    PROVE  BackedBut(Append(s, c), h, f, registered, None)
<1> DEFINE v == Append(s, c)
<1>1. /\ DOMAIN v = 1 .. Len(s) + 1 /\ DOMAIN s = 1 .. Len(s) /\ Len(s) \in Nat
      /\ \A i \in 1 .. Len(s) : v[i] = s[i]
      /\ v[Len(s) + 1] = c
    BY AppendTo
<1> HIDE DEF v
<1>2. \A e : MadeIn(v, e) = MadeIn(s, e)
    BY <1>1 DEF MadeIn
<1>3. \A e \in EventTypes : BackedFor(v, h, registered, e)
    BY <1>2, NoneIsNoEvent DEF BackedBut, BackedFor
<1>5. \A i \in DOMAIN v : v[i].request = "registerBle" /\ v[i].event # None =>
          InTurn(v[i].arg, v[i].event, registered)
    BY <1>1 DEF BackedBut
<1>6. BackedBut(v, h, f, registered, None)
    BY <1>3, <1>5 DEF BackedBut
<1> QED
    BY <1>6 DEF v

(* A call resumes: setEventHandler is busy with the event it waited for.   *)
LEMMA BackedOuter ==
    ASSUME NEW s \in Seq(Pending), s # <<>>, NEW h, NEW f, NEW registered,
           BackedBut(s, h, f, registered, None)
    PROVE  LET c == s[Len(s)] IN
           BackedBut(SubSeq(s, 1, Len(s) - 1), h, f, registered,
                     IF c.request = "registerBle" THEN c.event ELSE None)
<1> DEFINE c == s[Len(s)]
           v == SubSeq(s, 1, Len(s) - 1)
           event == IF c.request = "registerBle" THEN c.event ELSE None
<1>1. /\ Len(s) \in Nat \ {0} /\ DOMAIN s = 1 .. Len(s) /\ DOMAIN v = 1 .. Len(s) - 1
      /\ \A i \in 1 .. Len(s) - 1 : v[i] = s[i]
      /\ c \in Pending
    BY OuterOf
<1>2. event \in EventTypes \cup {None}
    BY <1>1 DEF Pending
<1> HIDE DEF v
<1>3. \A e \in EventTypes \ {event} : MadeIn(v, e) = MadeIn(s, e)
    <2> TAKE e \in EventTypes \ {event}
    <2>1. ~(c.request = "registerBle" /\ c.event = e)
        OBVIOUS
    <2> QED
        BY <1>1, <2>1 DEF MadeIn
<1>4. \A e \in EventTypes \ {event} : BackedFor(v, h, registered, e)
    BY <1>3, NoneIsNoEvent DEF BackedBut, BackedFor
<1>5. event # None => Busy(v, h, event)
    <2> HAVE event # None
    <2>1. Len(s) \in MadeIn(s, event) /\ event \in EventTypes
        BY <1>1, <1>2 DEF MadeIn
    <2>2. BackedFor(s, h, registered, event)
        BY <2>1, NoneIsNoEvent DEF BackedBut
    <2>3. MadeIn(v, event) \subseteq MadeIn(s, event) /\ Len(s) \notin MadeIn(v, event)
        BY <1>1 DEF MadeIn
    <2>4. MadeIn(v, event) = {}
        BY <2>1, <2>2, <2>3 DEF BackedFor
    <2> QED
        BY <2>1, <2>2, <2>4 DEF BackedFor, Busy
<1>6. \A i \in DOMAIN v : v[i].request = "registerBle" /\ v[i].event # None =>
          InTurn(v[i].arg, v[i].event, registered)
    BY <1>1 DEF BackedBut
<1>7. BackedBut(v, h, f, registered, event)
    BY <1>4, <1>5, <1>6 DEF BackedBut
<1> QED
    BY <1>7 DEF v

(* The same of the steps: f is what the flags become.                      *)
LEMMA BackedPlain ==
    ASSUME Typed, NEW outer \in Waits, NEW f,
           BackedBut(outer, handlers, f, bluenet.registered, None),
           NEW request \in PlainRequests, Send(outer, request, None, None, 0),
           UNCHANGED handlers
    PROVE  BackedBut(calls', handlers', f, bluenet'.registered, None)
<1>1. request \in Requests \ (RegisteringRequests \cup {"subscribe", "registerBle"})
    BY DEF PlainRequests, Requests, RegisteringRequests
<1>2. outer \in Seq(Pending)
    BY WhatIsThere
<1>3. Sent(outer, request, None, None, 0)
    BY <1>1, <1>2, WhatIsThere, Sending
<1>4. PICK c \in Pending :
          /\ calls' = Append(outer, c) /\ c.request = request
          /\ bluenet'.registered = Registered(request, None, c.ack)
    BY <1>3 DEF Sent
<1>5. bluenet'.registered = bluenet.registered
    BY <1>1, <1>4 DEF Registered
<1> QED
    BY <1>1, <1>2, <1>4, <1>5, BackedSendOther

LEMMA BackedBle ==
    ASSUME Typed, NEW outer \in Waits, NEW type \in BleTypes,
           NEW event \in EventTypes \cup {None}, NEW h \in HandlerTables, NEW f,
           BackedBut(outer, h, f, bluenet.registered, event),
           event # None => InTurn(type, event, bluenet.registered),
           registerBleInterrupt(outer, type, event, h)
    PROVE  BackedBut(calls', handlers', f, bluenet'.registered, None)
<1>1. /\ outer \in Seq(Pending) /\ type \in Keys
      /\ Table(h, MAX_BLE_EVENT_HANDLER_REGISTRATIONS)
    BY WhatIsThere, SizesAssumption DEF Keys, HandlerTables, Table
<1>2. CASE Send(outer, "registerBle", type, event, 0) /\ handlers' = h
    <2>1. Sent(outer, "registerBle", type, event, 0)
        BY <1>1, <1>2, WhatIsThere, Sending DEF Requests
    <2>2. PICK c \in Pending :
              /\ calls' = Append(outer, c) /\ c.request = "registerBle" /\ c.arg = type
              /\ c.event = event
              /\ bluenet'.registered = Registered("registerBle", type, c.ack)
        BY <2>1 DEF Sent
    <2>3. bluenet.registered \subseteq bluenet'.registered
        BY <2>2 DEF Registered
    <2>4. BackedBut(calls', h, f, bluenet.registered, None)
        BY <1>1, <2>2, BackedSend
    <2>5. f \cap BleTypes \subseteq bluenet'.registered
        BY <2>3 DEF BackedBut
    <2> QED
        BY <1>2, <2>3, <2>4, <2>5, BackedMore
<1>3. CASE /\ SendFails(outer) \/ Returns(outer)
           /\ handlers' = removeBleEventHandlerRegistration(h, event)
    <2>1. calls' = outer /\ bluenet' = bluenet
        BY <1>3 DEF SendFails, Returns
    <2> QED
        BY <1>1, <1>3, <2>1, BackedRemoved
<1> QED
    BY <1>2, <1>3 DEF registerBleInterrupt

LEMMA BackedMissing ==
    ASSUME Typed, NEW outer \in Waits, NEW types,
           types \in TypeLists,
           NEW event \in EventTypes, NEW h \in HandlerTables, NEW f,
           BackedBut(outer, h, f, bluenet.registered, event), flags \subseteq f,
           \A i \in DOMAIN types : types[i] \in Needs(event),
           \A t \in Needs(event) :
               t \in bluenet.registered \/ \E i \in DOMAIN types : types[i] = t,
           RegisterMissing(outer, types, event, h)
    PROVE  BackedBut(calls', handlers', f, bluenet'.registered, None)
<1> DEFINE missing == {i \in DOMAIN types : types[i] \notin flags}
<1>1. flags \cap BleTypes \subseteq bluenet.registered /\ Needs(event) \subseteq BleTypes
    BY DEF BackedBut, Needs, BleTypes
<1>2. CASE missing = {}
    <2>1. Returns(outer) /\ handlers' = h
        BY <1>2 DEF RegisterMissing
    <2>2. Needs(event) \subseteq bluenet.registered
        BY <1>1, <1>2
    <2> QED
        BY <2>1, <2>2, BackedDone DEF Returns
<1>3. CASE missing # {}
    <2> DEFINE i == First(missing)
    <2>1. /\ i \in DOMAIN types /\ types[i] \in BleTypes
          /\ \A j \in DOMAIN types : j < i => types[j] \in flags
        BY <1>3, MissingType
    <2>2. registerBleInterrupt(outer, types[i], event, h)
        BY <1>3 DEF RegisterMissing
    <2> HIDE DEF i
    <2>3. types[i] = "BLE_PERIPHERAL" /\ "BLE_CENTRAL" \in Needs(event) =>
              "BLE_CENTRAL" \in bluenet.registered
        <3> SUFFICES ASSUME types[i] = "BLE_PERIPHERAL", "BLE_CENTRAL" \in Needs(event),
                            "BLE_CENTRAL" \notin bluenet.registered
                     PROVE  FALSE
            OBVIOUS
        <3>2. PICK j \in DOMAIN types : types[j] = "BLE_CENTRAL"
            OBVIOUS
        <3>3. types = <<"BLE_CENTRAL", "BLE_PERIPHERAL">>
            BY <2>1, <3>2 DEF TypeLists
        <3>4. j < i
            BY <2>1, <3>2, <3>3
        <3> QED
            BY <1>1, <2>1, <3>2, <3>4 DEF BleTypes
    <2>4. InTurn(types[i], event, bluenet.registered)
        BY <2>1, <2>3 DEF InTurn
    <2> QED
        BY <2>1, <2>2, <2>4, BackedBle
<1> QED
    BY <1>2, <1>3

LEMMA BackedScan ==
    ASSUME Typed, NEW outer \in Waits,
           BackedBut(outer, handlers, flags, bluenet.registered, None), Scan(outer)
    PROVE  BackedBut(calls', handlers', flags, bluenet'.registered, None)
<1>1. CASE Returns(outer) /\ UNCHANGED handlers
    BY <1>1 DEF Returns
<1>2. CASE Send(outer, "start", None, None, 0) /\ UNCHANGED handlers
    BY <1>2, BackedPlain DEF PlainRequests
<1>3. CASE registerBleInterrupt(outer, "BLE_SCAN", None, handlers)
    <2>1. handlers \in HandlerTables
        BY DEF Typed, TypeOK, HandlerTables
    <2> QED
        BY <1>3, <2>1, BackedBle DEF BleTypes
<1> QED
    BY <1>1, <1>2, <1>3 DEF Scan

(* A request that registers no BLE type.                                   *)
LEMMA BackedOther ==
    ASSUME Typed, Backed,
           NEW request \in {"attachInterrupt", "listen", "Message.begin", "subscribe"},
           NEW arg \in Keys \cup BluenetTypes, NEW slot \in 0 .. MAX_SUBSCRIPTIONS,
           request # "subscribe" => arg \in Keys,
           request = "subscribe" => arg \in BluenetTypes,
           Send(calls, request, arg, None, slot) \/ SendFails(calls),
           UNCHANGED <<handlers, flags>>
    PROVE  Backed'
<1>1. /\ calls \in Seq(Pending) /\ request \in Requests \ {"registerBle"}
      /\ request \in RegisteringRequests => arg \in Keys
    BY WhatIsThere DEF Requests, RegisteringRequests
<1>2. CASE Send(calls, request, arg, None, slot)
    <2>1. Sent(calls, request, arg, None, slot)
        BY <1>1, <1>2, WhatIsThere, Sending
    <2>2. PICK c \in Pending :
              /\ calls' = Append(calls, c) /\ c.request = request
              /\ bluenet'.registered = Registered(request, arg, c.ack)
        BY <2>1 DEF Sent
    <2>3. bluenet.registered \subseteq bluenet'.registered
        BY <2>2 DEF Registered
    <2>4. flags \cap BleTypes \subseteq bluenet'.registered
        BY <2>3 DEF Backed, BackedBut
    <2>5. BackedBut(calls, handlers, flags, bluenet'.registered, None)
        BY <2>3, <2>4, BackedMore DEF Backed
    <2>6. BackedBut(calls', handlers, flags, bluenet'.registered, None)
        BY <1>1, <2>2, <2>5, BackedSendOther
    <2> QED
        BY <2>6 DEF Backed
<1>3. CASE SendFails(calls)
    BY <1>3 DEF SendFails, Backed
<1> QED
    BY <1>2, <1>3

LEMMA BackedInit ==
    Init => Backed
<1> SUFFICES ASSUME Init PROVE Backed
    OBVIOUS
<1>1. calls = <<>> /\ DOMAIN calls = {} /\ flags = {}
    BY DEF Init
<1>2. \A e : MadeIn(calls, e) = {}
    BY <1>1 DEF MadeIn
<1>3. \A e \in EventTypes : Holding(handlers, e) = {}
    BY NoneIsNoEvent DEF Init, Holding
<1> QED
    BY <1>1, <1>2, <1>3 DEF Backed, BackedBut, BackedFor

LEMMA BackedStep ==
    Typed /\ Counted /\ Backed /\ [Next]_vars => Backed'
<1> SUFFICES ASSUME Typed, Counted, Backed, [Next]_vars PROVE Backed'
    OBVIOUS
<1>0. /\ calls \in Waits /\ BackedBut(calls, handlers, flags, bluenet.registered, None)
      /\ \A s \in Waits : s \in Seq(Pending)
      /\ 0 \in 0 .. MAX_SUBSCRIPTIONS
      /\ handlers \in HandlerTables
    BY WhatIsThere DEF Backed, Typed, TypeOK, HandlerTables
(* A call that resumes.                                                    *)
<1>a. ASSUME NEW request, Resumes(request)
      PROVE  /\ Outer \in Waits
             /\ BackedBut(Outer, handlers, flags, bluenet.registered,
                          IF request = "registerBle" THEN Innermost.event ELSE None)
    <2>1. calls # <<>> /\ Innermost = calls[Len(calls)] /\ Outer \in Waits
          /\ Innermost.request = request
        BY <1>a, InnermostHolds
    <2> QED
        BY <1>0, <2>1, BackedOuter DEF Outer
<1>1. ASSUME NEW p \in Pins, attachInterrupt(p)
      PROVE  Backed'
    <2>1. p \in Keys
        BY DEF Keys
    <2>2. Send(calls, "attachInterrupt", p, None, 0) \/ SendFails(calls)
        BY <1>1 DEF attachInterrupt
    <2>3. UNCHANGED <<handlers, flags>>
        BY <1>1 DEF attachInterrupt
    <2> QED
        BY <1>0, <2>1, <2>2, <2>3, BackedOther
<1>2. ASSUME listen
      PROVE  Backed'
    <2>1. "MESH_READ" \in Keys
        BY DEF Keys, OtherTypes
    <2> QED
        BY <1>0, <1>2, <2>1, BackedOther DEF listen
<1>3. ASSUME MessageBegin
      PROVE  Backed'
    <2>1. "MSG_EVENT" \in Keys
        BY DEF Keys, OtherTypes
    <2> QED
        BY <1>0, <1>3, <2>1, BackedOther DEF MessageBegin
<1>4. ASSUME setBluenetEventHandler
      PROVE  Backed'
    <2>1. flags' \cap BleTypes \subseteq bluenet.registered
        BY <1>0, <1>4 DEF setBluenetEventHandler, BackedBut, BleTypes
    <2>2. BackedBut(calls, handlers, flags', bluenet.registered, None)
        BY <1>0, <2>1, BackedMore
    <2> QED
        BY <1>4, <2>2 DEF setBluenetEventHandler, Returns, Backed
<1>5. ASSUME NEW type \in BluenetTypes, subscribe(type)
      PROVE  Backed'
    <2> DEFINE slot == First(Holding(subscribed, None))
    <2>1. slot \in Holding(subscribed, None)
        BY <1>5, FirstIsIn, TablesHold, HoldingFinite DEF subscribe
    <2>2. slot \in 0 .. MAX_SUBSCRIPTIONS
        BY <2>1, SizesAssumption, TablesHold DEF Holding, Table
    <2> HIDE DEF slot
    <2>3. /\ UNCHANGED <<handlers, flags>>
          /\ Send(calls, "subscribe", type, None, slot) \/ SendFails(calls)
        BY <1>5 DEF subscribe, slot, local
    <2> QED
        BY <2>2, <2>3, BackedOther
<1>6. ASSUME BleBegin \/ scanFor \/ stopScan \/ yield
      PROVE  Backed'
    <2>1. UNCHANGED <<handlers, flags>>
        BY <1>6 DEF BleBegin, scanFor, stopScan, yield, local
    <2>2. CASE \E request \in PlainRequests : Send(calls, request, None, None, 0)
        BY <1>0, <2>1, <2>2, BackedPlain DEF Backed
    <2>3. CASE SendFails(calls)
        BY <1>0, <2>1, <2>3 DEF SendFails, Backed
    <2> QED
        BY <1>6, <2>2, <2>3 DEF BleBegin, scanFor, stopScan, yield, PlainRequests
<1>7. ASSUME BleEnd
      PROVE  Backed'
    <2>1. flags' \cap BleTypes \subseteq bluenet.registered
        BY <1>7 DEF BleEnd
    <2>2. BackedBut(calls, handlers, flags', bluenet.registered, None)
        BY <1>0, <2>1, BackedMore
    <2> QED
        BY <1>7, <2>2 DEF BleEnd, Returns, Backed
<1>8. ASSUME NEW e \in EventTypes, setEventHandler(e) \/ setCharacteristicEventHandler(e)
      PROVE  Backed'
    <2> DEFINE h == registerBleEventHandler(e)
               types == BleTypesFor(e)
    <2>1. /\ RegisterMissing(calls, types, e, h)
          /\ Holding(handlers, e) = {} /\ Holding(handlers, None) # {}
          /\ UNCHANGED flags
        BY <1>8, Adding DEF AddEventHandler
    <2>2. /\ types \in TypeLists
          /\ \A i \in DOMAIN types : types[i] \in Needs(e)
          /\ \A t \in Needs(e) : \E i \in DOMAIN types : types[i] = t
        BY ListsOfTypes, NeededTypes
    <2>3. h \in HandlerTables
        BY <1>0 DEF registerBleEventHandler, HandlerTables
    <2>4. /\ \A j : j # e /\ j # None => Holding(h, j) = Holding(handlers, j)
          /\ \E i : Holding(h, e) = Holding(handlers, e) \cup {i}
        BY <2>1, Registering, TablesHold, NoneIsNoEvent DEF registerBleEventHandler
    <2>5. MadeIn(calls, e) = {}
        BY <1>0, <2>1, NoneIsNoEvent DEF BackedBut, BackedFor
    <2> HIDE DEF h, types
    <2>6. Busy(calls, h, e)
        BY <2>1, <2>4, <2>5 DEF Busy
    <2>7. \A j \in EventTypes \ {e} : BackedFor(calls, h, bluenet.registered, j)
        BY <1>0, <2>4, NoneIsNoEvent DEF BackedBut, BackedFor
    <2>8. BackedBut(calls, h, flags, bluenet.registered, e)
        BY <1>0, <2>6, <2>7 DEF BackedBut
    <2>9. BackedBut(calls', handlers', flags, bluenet'.registered, None)
        BY <1>0, <2>1, <2>2, <2>3, <2>8, BackedMissing
    <2> QED
        BY <2>1, <2>9 DEF Backed
<1>8a. ASSUME connect \/ addService
       PROVE  Backed'
    <2>1. PICK type \in {"BLE_CENTRAL", "BLE_PERIPHERAL"} : RegisterAndGoOn(type)
        BY <1>8a, Connecting
    <2>2. UNCHANGED flags
        BY <2>1 DEF RegisterAndGoOn
    <2>3. CASE Send(calls, "other", None, None, 0) /\ UNCHANGED <<table, handlers>>
        BY <1>0, <2>2, <2>3, BackedPlain DEF Backed, PlainRequests
    <2>4. CASE registerBleInterrupt(calls, type, None, handlers)
        BY <1>0, <2>2, <2>4, BackedBle DEF Backed, BleTypes
    <2> QED
        BY <2>1, <2>3, <2>4 DEF RegisterAndGoOn
<1>9. ASSUME scan
      PROVE  Backed'
    BY <1>0, <1>9, BackedScan DEF scan, Backed
<1>10. ASSUME \/ attachInterruptResumes \/ listenResumes \/ otherResumes
              \/ MessageBeginResumes \/ subscribeResumes \/ BleBeginResumes
              \/ startResumes \/ stopResumes
       PROVE  Backed'
    <2>1. /\ Returns(Outer) /\ UNCHANGED handlers /\ flags' \cap BleTypes = flags \cap BleTypes
          /\ \E request \in Requests : Resumes(request) /\ request # "registerBle"
        BY <1>10
        DEF attachInterruptResumes, listenResumes, otherResumes, local, MessageBeginResumes,
            subscribeResumes, BleBeginResumes, startResumes, stopResumes, Requests, BleTypes
    <2>2. PICK request \in Requests : Resumes(request) /\ request # "registerBle"
        BY <2>1
    <2>3. BackedBut(Outer, handlers, flags, bluenet.registered, None)
        BY <1>a, <2>2
    <2>4. flags' \cap BleTypes \subseteq bluenet.registered
        BY <1>0, <2>1 DEF BackedBut
    <2>5. BackedBut(Outer, handlers, flags', bluenet.registered, None)
        BY <2>3, <2>4, BackedMore
    <2> QED
        BY <2>1, <2>5 DEF Returns, Backed
<1>11. ASSUME registerBleResumes
       PROVE  Backed'
    <2> DEFINE c == Innermost
    <2>0. /\ Outer \in Waits /\ c.arg \in BleTypes /\ c.event \in EventTypes \cup {None}
          /\ c.ack \in {"SUCCESS", "ERROR"} /\ c.request = "registerBle"
          /\ calls # <<>> /\ c = calls[Len(calls)]
        BY <1>11, InnermostHolds DEF registerBleResumes, Fits, Pending
    <2>1. /\ Outer \in Waits /\ c.arg \in BleTypes /\ c.event \in EventTypes \cup {None}
          /\ c.ack \in {"SUCCESS", "ERROR"} /\ c.request = "registerBle"
          /\ Len(calls) \in DOMAIN calls /\ c = calls[Len(calls)]
        BY <1>0, <2>0, OuterOf
    <2>2. BackedBut(Outer, handlers, flags, bluenet.registered, c.event)
        BY <1>11, <1>a DEF registerBleResumes
    <2>3. c.ack = "SUCCESS" => c.arg \in bluenet.registered
        BY <2>1 DEF Counted, CountedIn
    <2>4. c.event # None => InTurn(c.arg, c.event, bluenet.registered)
        BY <1>0, <2>1 DEF BackedBut
    <2> HIDE DEF c
    <2>5. CASE c.ack = "ERROR"
        <3>1. /\ handlers' = removeBleEventHandlerRegistration(handlers, c.event)
              /\ Returns(Outer) /\ UNCHANGED flags
            BY <1>11, <2>5 DEF registerBleResumes, c
        <3>2. BackedBut(Outer, handlers', flags, bluenet.registered, None)
            BY <2>1, <2>2, <3>1, TablesHold, BackedRemoved
        <3> QED
            BY <3>1, <3>2 DEF Returns, Backed
    <2>6. CASE c.ack = "SUCCESS"
        <3>1. flags' = flags \cup {c.arg}
            BY <1>11, <2>6 DEF registerBleResumes, c
        <3>2. flags' \cap BleTypes \subseteq bluenet.registered
            BY <1>0, <2>3, <2>6, <3>1 DEF BackedBut
        <3>3. BackedBut(Outer, handlers, flags', bluenet.registered, c.event)
            BY <2>2, <3>2, BackedMore
        <3>4. CASE c.event = None
            <4>1. \E request \in {"start", "other"} :
                      Send(Outer, request, None, None, 0) /\ UNCHANGED handlers
                BY <1>11, <2>6, <3>4, GoingOn DEF registerBleResumes, c
            <4>2. BackedBut(calls', handlers', flags', bluenet'.registered, None)
                BY <2>1, <3>3, <3>4, <4>1, BackedPlain DEF PlainRequests
            <4> QED
                BY <4>2 DEF Backed
        <3>5. CASE c.event # None
            <4> DEFINE types == TypesAfter(c.arg, c.event)
            <4>1. RegisterMissing(Outer, types, c.event, handlers)
                BY <1>11, <2>6, <3>5 DEF registerBleResumes, c
            <4>2. /\ c.arg \in Needs(c.event) /\ c.arg \in bluenet.registered
                  /\ c.arg = "BLE_PERIPHERAL" /\ "BLE_CENTRAL" \in Needs(c.event) =>
                         "BLE_CENTRAL" \in bluenet.registered
                  /\ c.event \in EventTypes
                BY <2>1, <2>3, <2>4, <2>6, <3>5 DEF InTurn
            <4>3. \A i \in DOMAIN types : types[i] \in Needs(c.event)
                BY <4>2, NeededTypes
            <4>4. \A t \in Needs(c.event) :
                      t \in bluenet.registered \/ \E i \in DOMAIN types : types[i] = t
                BY <4>2, NeededTypes
            <4>5. types \in TypeLists /\ c.event \in EventTypes
                BY <4>2, ListsOfTypes
            <4> HIDE DEF types
            <4>6. BackedBut(calls', handlers', flags', bluenet'.registered, None)
                BY <1>0, <2>1, <3>1, <3>3, <4>1, <4>3, <4>4, <4>5, BackedMissing
            <4> QED
                BY <4>6 DEF Backed
        <3> QED
            BY <3>4, <3>5
    <2> QED
        BY <2>1, <2>5, <2>6
<1>12. ASSUME filterResumes
       PROVE  Backed'
    <2>1. Resumes("filter") /\ Scan(Outer) /\ UNCHANGED flags
        BY <1>12 DEF filterResumes
    <2>2. Outer \in Waits /\ BackedBut(Outer, handlers, flags, bluenet.registered, None)
        BY <1>a, <2>1
    <2> QED
        BY <2>1, <2>2, BackedScan DEF Backed
<1>13. ASSUME Interrupt \/ HandlerReturns \/ UNCHANGED vars
       PROVE  Backed'
    BY <1>13 DEF Interrupt, HandlerReturns, vars, local, Backed
<1> QED
    BY <1>1, <1>2, <1>3, <1>4, <1>5, <1>6, <1>7, <1>8, <1>8a, <1>9, <1>10, <1>11, <1>12, <1>13
    DEF Next, Calls, Resumptions

LEMMA BackedHandlers ==
    ASSUME Typed, Backed
    PROVE  EventHandlersBacked
<1> SUFFICES ASSUME NEW e \in EventTypes
             PROVE  LET made == {i \in Waiting("registerBle") : calls[i].event = e} IN
                    /\ Cardinality(made) <= Cardinality(Holding(handlers, e))
                    /\ Cardinality(Holding(handlers, e)) <= 1
                    /\ Holding(handlers, e) # {} /\ made = {} =>
                           \A i \in DOMAIN BleTypesFor(e) :
                               BleTypesFor(e)[i] \in bluenet.registered
    BY DEF EventHandlersBacked
<1> DEFINE made == {i \in Waiting("registerBle") : calls[i].event = e}
           held == Holding(handlers, e)
<1>1. /\ calls \in Seq(Pending) /\ DOMAIN calls = 1 .. Len(calls) /\ Len(calls) \in Nat
      /\ Table(handlers, MAX_BLE_EVENT_HANDLER_REGISTRATIONS)
    BY WhatIsThere, TablesHold
<1>2. made = MadeIn(calls, e)
    BY <1>1 DEF Waiting, MadeIn
<1>3. BackedFor(calls, handlers, bluenet.registered, e)
    BY NoneIsNoEvent DEF Backed, BackedBut
<1>4. IsFiniteSet(1 .. Len(calls)) /\ made \in SUBSET (1 .. Len(calls))
    BY <1>1, FS_Interval DEF Waiting
<1>5. /\ IsFiniteSet(made) /\ Cardinality(made) \in Nat
      /\ IsFiniteSet(held) /\ Cardinality(held) \in Nat
      /\ Cardinality(held) > 0 <=> held # {}
      /\ Cardinality(made) = 0 <=> made = {}
    BY <1>1, <1>4, HoldingFinite, FS_Subset, FS_CardinalityType, FS_EmptySet
<1>6. Cardinality(made) <= 1 /\ Cardinality(held) <= 1
    BY <1>2, <1>3, <1>5, AtMostOne DEF BackedFor
<1>7. made # {} => held # {}
    BY <1>2, <1>3 DEF BackedFor
<1>8. held # {} /\ made = {} =>
          \A i \in DOMAIN BleTypesFor(e) : BleTypesFor(e)[i] \in bluenet.registered
    <2>1. \A i \in DOMAIN BleTypesFor(e) : BleTypesFor(e)[i] \in Needs(e)
        BY NeededTypes
    <2> QED
        BY <1>2, <1>3, <2>1 DEF BackedFor
<1> HIDE DEF made, held
<1>9. Cardinality(made) <= Cardinality(held)
    BY <1>5, <1>6, <1>7
<1> QED
    BY <1>6, <1>8, <1>9 DEF made, held

(* A BLE event has one handler at most ("no event is registered more than  *)
(* once", ArduinoBLE.cpp:692), and one only if bluenet interrupts for all  *)
(* the types it needs, or while the one setEventHandler that made it still *)
(* waits, however interrupts nest: setEventHandler asks for the peripheral *)
(* type when bluenet has agreed to the central one, and what it finds      *)
(* flagged bluenet has agreed to.                                          *)
THEOREM HandlersBacked ==
    Spec => []EventHandlersBacked
<1>1. Init => Typed /\ Counted /\ Backed
    BY TypesInit, CountedInit, BackedInit
<1>2. Typed /\ Counted /\ Backed /\ [Next]_vars => (Typed /\ Counted /\ Backed)'
    BY TypesStep, CountedStep, BackedStep
<1>3. Typed /\ Counted /\ Backed => EventHandlersBacked
    BY BackedHandlers
<1> QED
    BY <1>1, <1>2, <1>3, PTL DEF Spec
------------------------------------------------------------------------------
(* What a step is, as far as subscriptions and scanning go.                *)

(* A call that has asked bluenet to scan, or will when it resumes; a step  *)
(* may make one when the flag is down or when it resumes such a call.      *)
Asks(c) ==
    c.request = "start" \/ (c.request = "registerBle" /\ c.arg = "BLE_SCAN" /\ c.event = None)

MayAsk == isScanning => ~running /\ Asks(Innermost)

(* Control goes back to user code, or a request is sent that subscribes to *)
(* nothing and stops nothing, and its call waits.                          *)
Moved(outer) ==
    \/ running' = TRUE /\ calls' = outer /\ bluenet' = bluenet
    \/ /\ running' = FALSE
       /\ \E c \in Pending :
             /\ calls' = Append(outer, c)
             /\ c.request \notin {"subscribe", "stop"}
             /\ Asks(c) => MayAsk
             /\ bluenet'.subscribed = bluenet.subscribed
             /\ bluenet'.scanning = Scanning(c.request, c.ack)

LEMMA MovedReturn ==
    ASSUME NEW outer, Returns(outer) \/ SendFails(outer)
    PROVE  Moved(outer)
BY DEF Returns, SendFails, Moved

LEMMA MovedSend ==
    ASSUME Typed, NEW outer \in Waits, NEW request \in Requests \ {"subscribe", "stop"},
           NEW arg, NEW event, NEW slot,
           arg \in Keys \cup BluenetTypes \cup {None},
           request \in RegisteringRequests => arg \in Keys,
           event \in EventTypes \cup {None}, slot \in 0 .. MAX_SUBSCRIPTIONS,
           \/ MayAsk
           \/ request # "start" /\ ~(request = "registerBle" /\ arg = "BLE_SCAN" /\ event = None),
           Send(outer, request, arg, event, slot)
    PROVE  Moved(outer)
<1>1. Sent(outer, request, arg, event, slot) /\ running' = FALSE
    BY WhatIsThere, Sending
<1>2. PICK c \in Pending :
          /\ calls' = Append(outer, c)
          /\ c.request = request /\ c.arg = arg /\ c.event = event
          /\ bluenet'.subscribed = Subscribed(request, arg, c.ack)
          /\ bluenet'.scanning = Scanning(request, c.ack)
    BY <1>1 DEF Sent
<1>3. bluenet'.subscribed = bluenet.subscribed
    BY <1>2 DEF Subscribed
<1>4. Asks(c) => MayAsk
    BY <1>2 DEF Asks
<1> QED
    BY <1>1, <1>2, <1>3, <1>4 DEF Moved

LEMMA MovedPlain ==
    ASSUME Typed, NEW outer \in Waits, NEW request \in PlainRequests \ {"stop"},
           request = "start" => MayAsk,
           Send(outer, request, None, None, 0)
    PROVE  Moved(outer)
<1>1. /\ request \in Requests \ {"subscribe", "stop"}
      /\ request \notin RegisteringRequests /\ request # "registerBle"
      /\ 0 \in 0 .. MAX_SUBSCRIPTIONS
    BY WhatIsThere DEF PlainRequests, RegisteringRequests, Requests
<1> QED
    BY <1>1, MovedSend

LEMMA MovedBle ==
    ASSUME Typed, NEW outer \in Waits, NEW type \in BleTypes,
           NEW event \in EventTypes \cup {None}, NEW h,
           type = "BLE_SCAN" /\ event = None => MayAsk,
           registerBleInterrupt(outer, type, event, h)
    PROVE  Moved(outer)
<1>1. type \in Keys /\ 0 \in 0 .. MAX_SUBSCRIPTIONS /\ "registerBle" \in Requests
    BY WhatIsThere DEF Keys, Requests
<1>2. CASE Send(outer, "registerBle", type, event, 0)
    BY <1>1, <1>2, MovedSend
<1>3. CASE Returns(outer) \/ SendFails(outer)
    BY <1>3, MovedReturn
<1> QED
    BY <1>2, <1>3 DEF registerBleInterrupt

LEMMA MovedMissing ==
    ASSUME Typed, NEW outer \in Waits, NEW types, types \in TypeLists,
           NEW event \in EventTypes, NEW h,
           RegisterMissing(outer, types, event, h)
    PROVE  Moved(outer)
<1> DEFINE missing == {i \in DOMAIN types : types[i] \notin flags}
<1>1. CASE missing = {}
    BY <1>1, MovedReturn DEF RegisterMissing
<1>2. CASE missing # {}
    <2>1. types[First(missing)] \in BleTypes
        BY <1>2, MissingType
    <2>2. registerBleInterrupt(outer, types[First(missing)], event, h)
        BY <1>2 DEF RegisterMissing
    <2> QED
        BY <2>1, <2>2, MovedBle, NoneIsNoEvent
<1> QED
    BY <1>1, <1>2

LEMMA MovedScan ==
    ASSUME Typed, NEW outer \in Waits, Scan(outer)
    PROVE  Moved(outer)
<1>1. CASE Returns(outer)
    BY <1>1, MovedReturn
<1>2. CASE ~isScanning /\ Send(outer, "start", None, None, 0)
    BY <1>2, MovedPlain DEF PlainRequests, MayAsk
<1>3. CASE ~isScanning /\ registerBleInterrupt(outer, "BLE_SCAN", None, handlers)
    BY <1>3, MovedBle DEF BleTypes, MayAsk
<1> QED
    BY <1>1, <1>2, <1>3 DEF Scan

(* What such a step leaves of the calls that wait: all of them, or all but *)
(* the innermost, which has not subscribed, started or stopped anything.   *)
Left(outer) ==
    /\ outer \in Waits
    /\ IF running
       THEN outer = calls
       ELSE /\ calls # <<>> /\ outer = Outer
            /\ Innermost.request \notin {"subscribe", "start", "stop"}

LEMMA Leaving ==
    ASSUME Typed, NEW request, Resumes(request), request \notin {"subscribe", "start", "stop"}
    PROVE  Left(Outer)
BY InnermostHolds DEF Left

LEMMA Staying ==
    ASSUME Typed, running
    PROVE  Left(calls)
BY DEF Left, Typed

(* A step of another kind than those listed here.                          *)
Other == UNCHANGED <<subscribed, isScanning>> /\ \E outer : Left(outer) /\ Moved(outer)

LEMMA StepKinds ==
    ASSUME Typed, Next
    PROVE  \/ \E type \in BluenetTypes : subscribe(type)
           \/ subscribeResumes
           \/ startResumes
           \/ stopScan
           \/ stopResumes
           \/ BleEnd
           \/ Interrupt \/ HandlerReturns
           \/ Other
<1> USE DEF UserCall
<1>0. /\ calls \in Waits /\ 0 \in 0 .. MAX_SUBSCRIPTIONS
      /\ {"attachInterrupt", "listen", "Message.begin"} \subseteq Requests
      /\ None \in EventTypes \cup {None} /\ None \in Keys \cup BluenetTypes \cup {None}
    BY WhatIsThere DEF Requests
<1>1. ASSUME NEW p \in Pins, attachInterrupt(p)
      PROVE  Other
    <2>1. p \in Keys /\ running /\ UNCHANGED <<subscribed, isScanning>>
        BY <1>1 DEF attachInterrupt, Keys
    <2>2. Send(calls, "attachInterrupt", p, None, 0) \/ SendFails(calls)
        BY <1>1 DEF attachInterrupt
    <2>3. Moved(calls)
        BY <1>0, <2>1, <2>2, MovedSend, MovedReturn
    <2> QED
        BY <2>1, <2>3, Staying DEF Other
<1>2. ASSUME listen
      PROVE  Other
    <2>1. "MESH_READ" \in Keys /\ running /\ UNCHANGED <<subscribed, isScanning>>
        BY <1>2 DEF listen, Keys, OtherTypes
    <2>2. Send(calls, "listen", "MESH_READ", None, 0) \/ SendFails(calls)
        BY <1>2 DEF listen
    <2>3. Moved(calls)
        BY <1>0, <2>1, <2>2, MovedSend, MovedReturn
    <2> QED
        BY <2>1, <2>3, Staying DEF Other
<1>3. ASSUME MessageBegin
      PROVE  Other
    <2>1. "MSG_EVENT" \in Keys /\ running /\ UNCHANGED <<subscribed, isScanning>>
        BY <1>3 DEF MessageBegin, Keys, OtherTypes
    <2>2. Send(calls, "Message.begin", "MSG_EVENT", None, 0) \/ SendFails(calls)
        BY <1>3 DEF MessageBegin
    <2>3. Moved(calls)
        BY <1>0, <2>1, <2>2, MovedSend, MovedReturn
    <2> QED
        BY <2>1, <2>3, Staying DEF Other
<1>4. ASSUME setBluenetEventHandler
      PROVE  Other
    BY <1>4, MovedReturn, Staying DEF setBluenetEventHandler, Other
<1>5. ASSUME BleBegin \/ scanFor \/ yield
      PROVE  Other
    <2>1. running /\ UNCHANGED <<subscribed, isScanning>>
        BY <1>5 DEF BleBegin, scanFor, yield, local
    <2>2. \/ \E request \in PlainRequests \ {"start", "stop"} :
                 Send(calls, request, None, None, 0)
          \/ SendFails(calls)
        BY <1>5 DEF BleBegin, scanFor, yield, PlainRequests
    <2>3. Moved(calls)
        BY <1>0, <2>2, MovedPlain, MovedReturn
    <2> QED
        BY <2>1, <2>3, Staying DEF Other
<1>6. ASSUME NEW e \in EventTypes, setEventHandler(e) \/ setCharacteristicEventHandler(e)
      PROVE  Other
    <2>1. /\ running /\ UNCHANGED <<subscribed, isScanning>>
          /\ RegisterMissing(calls, BleTypesFor(e), e, registerBleEventHandler(e))
        BY <1>6 DEF setEventHandler, setCharacteristicEventHandler, AddEventHandler
    <2>2. Moved(calls)
        BY <1>0, <2>1, ListsOfTypes, MovedMissing
    <2> QED
        BY <2>1, <2>2, Staying DEF Other
<1>7. ASSUME connect \/ addService
      PROVE  Other
    <2>1. PICK type \in {"BLE_CENTRAL", "BLE_PERIPHERAL"} : RegisterAndGoOn(type)
        BY <1>7, Connecting
    <2>2. running /\ UNCHANGED <<subscribed, isScanning>>
        BY <1>7, <2>1 DEF connect, addService, RegisterAndGoOn
    <2>3. CASE Send(calls, "other", None, None, 0)
        <3>1. Moved(calls)
            BY <1>0, <2>3, MovedPlain DEF PlainRequests
        <3> QED
            BY <2>2, <3>1, Staying DEF Other
    <2>4. CASE registerBleInterrupt(calls, type, None, handlers)
        <3>1. Moved(calls)
            BY <1>0, <2>4, MovedBle DEF BleTypes
        <3> QED
            BY <2>2, <3>1, Staying DEF Other
    <2> QED
        BY <2>1, <2>3, <2>4 DEF RegisterAndGoOn
<1>8. ASSUME scan
      PROVE  Other
    BY <1>0, <1>8, MovedScan, Staying DEF scan, Other
<1>9. ASSUME attachInterruptResumes \/ listenResumes \/ otherResumes
             \/ MessageBeginResumes \/ BleBeginResumes
      PROVE  Other
    <2>1. /\ Returns(Outer) /\ UNCHANGED <<subscribed, isScanning>>
          /\ \E request \in Requests : Resumes(request)
                                       /\ request \notin {"subscribe", "start", "stop"}
        BY <1>9
        DEF attachInterruptResumes, listenResumes, otherResumes, local, MessageBeginResumes,
            BleBeginResumes, Requests
    <2> QED
        BY <2>1, Leaving, MovedReturn DEF Other
<1>10. ASSUME registerBleResumes
       PROVE  Other
    <2> DEFINE c == Innermost
    <2>1. /\ c.arg \in BleTypes /\ c.event \in EventTypes \cup {None} /\ Outer \in Waits
          /\ c.ack \in {"SUCCESS", "ERROR"} /\ c.request = "registerBle" /\ ~running
        BY <1>10, InnermostHolds DEF registerBleResumes, Fits, Pending
    <2>2. Left(Outer) /\ UNCHANGED <<subscribed, isScanning>>
        BY <1>10, Leaving DEF registerBleResumes
    <2>3. c.arg = "BLE_SCAN" /\ c.event = None => MayAsk
        BY <2>1 DEF MayAsk, Asks
    <2> HIDE DEF c
    <2>4. CASE c.ack = "ERROR"
        BY <1>10, <2>2, <2>4, MovedReturn DEF registerBleResumes, c, Other
    <2>5. CASE c.ack = "SUCCESS" /\ c.event = None
        <3>1. GoesOn(c.arg)
            BY <1>10, <2>5 DEF registerBleResumes, c
        <3>2. CASE c.arg = "BLE_SCAN"
            <4>1. Send(Outer, "start", None, None, 0)
                BY <3>1, <3>2 DEF GoesOn
            <4>2. Moved(Outer)
                BY <2>1, <2>3, <2>5, <3>2, <4>1, MovedPlain DEF PlainRequests
            <4> QED
                BY <2>2, <4>2 DEF Other
        <3>3. CASE c.arg # "BLE_SCAN"
            <4>1. Send(Outer, "other", None, None, 0)
                BY <3>1, <3>3 DEF GoesOn
            <4>2. Moved(Outer)
                BY <2>1, <4>1, MovedPlain DEF PlainRequests
            <4> QED
                BY <2>2, <4>2 DEF Other
        <3> QED
            BY <3>2, <3>3
    <2>6. CASE c.ack = "SUCCESS" /\ c.event # None
        <3>1. RegisterMissing(Outer, TypesAfter(c.arg, c.event), c.event, handlers)
            BY <1>10, <2>6 DEF registerBleResumes, c
        <3>2. Moved(Outer)
            BY <2>1, <2>6, <3>1, ListsOfTypes, MovedMissing
        <3> QED
            BY <2>2, <3>2 DEF Other
    <2> QED
        BY <2>1, <2>4, <2>5, <2>6
<1>11. ASSUME filterResumes
       PROVE  Other
    <2>1. /\ Resumes("filter") /\ Scan(Outer) /\ UNCHANGED <<subscribed, isScanning>>
          /\ Outer \in Waits
        BY <1>11, InnermostHolds DEF filterResumes
    <2>2. Left(Outer) /\ Moved(Outer)
        BY <2>1, Leaving, MovedScan
    <2> QED
        BY <2>1, <2>2 DEF Other
<1> HIDE DEF UserCall
<1> QED
    BY <1>1, <1>2, <1>3, <1>4, <1>5, <1>6, <1>7, <1>8, <1>9, <1>10, <1>11
    DEF Next, Calls, Resumptions

(* Calls that wait, with one more on top.                                  *)
LEMMA OneMoreCall ==
    ASSUME NEW s \in Seq(Pending), NEW c
    PROVE  /\ DOMAIN Append(s, c) = DOMAIN s \cup {Len(s) + 1}
           /\ Len(s) + 1 \notin DOMAIN s
           /\ \A i \in DOMAIN s : Append(s, c)[i] = s[i] /\ i < Len(s) + 1 /\ i \in Nat
           /\ Append(s, c)[Len(s) + 1] = c
<1>1. DOMAIN s = 1 .. Len(s) /\ Len(s) \in Nat
    OBVIOUS
<1>2. /\ DOMAIN Append(s, c) = 1 .. Len(s) + 1
      /\ \A i \in 1 .. Len(s) : Append(s, c)[i] = s[i]
      /\ Append(s, c)[Len(s) + 1] = c
    OBVIOUS
<1> QED
    BY <1>1, <1>2

LEMMA LeftOver ==
    ASSUME Typed, NEW outer, Left(outer)
    PROVE  /\ outer \in Seq(Pending)
           /\ \A i \in DOMAIN outer : i \in DOMAIN calls /\ outer[i] = calls[i]
           /\ \A i \in DOMAIN calls :
                 calls[i].request \in {"subscribe", "start", "stop"} => i \in DOMAIN outer
           /\ ~running => /\ Innermost = calls[Len(calls)] /\ Len(calls) \in DOMAIN calls
                          /\ \A i \in DOMAIN outer : i < Len(calls)
<1>1. calls \in Seq(Pending) /\ outer \in Seq(Pending)
    BY WhatIsThere DEF Left
<1>2. CASE running
    BY <1>1, <1>2 DEF Left
<1>3. CASE ~running
    <2>1. /\ Len(calls) \in Nat \ {0} /\ DOMAIN calls = 1 .. Len(calls)
          /\ DOMAIN outer = 1 .. Len(calls) - 1
          /\ \A i \in 1 .. Len(calls) - 1 : outer[i] = calls[i]
          /\ calls[Len(calls)].request \notin {"subscribe", "start", "stop"}
          /\ Innermost = calls[Len(calls)]
        BY <1>1, <1>3, OuterOf DEF Left, Outer, Innermost
    <2> HIDE DEF Innermost
    <2> QED
        BY <1>1, <2>1
<1> QED
    BY <1>2, <1>3

(* subscribe: nothing is sent, or its call waits.                          *)
LEMMA Subscribing ==
    ASSUME Typed, NEW type \in BluenetTypes, subscribe(type)
    PROVE  /\ UNCHANGED <<subscribed, isScanning>> /\ running
           /\ \/ SendFails(calls)
              \/ /\ running' = FALSE
                 /\ \E c \in Pending :
                       /\ calls' = Append(calls, c)
                       /\ c.request = "subscribe" /\ c.arg = type
                       /\ c.slot \in Holding(subscribed, None)
                       /\ bluenet'.subscribed \subseteq bluenet.subscribed \cup {type}
                       /\ bluenet'.scanning = bluenet.scanning
<1> DEFINE slot == First(Holding(subscribed, None))
<1>1. slot \in Holding(subscribed, None)
    BY FirstIsIn, TablesHold, HoldingFinite DEF subscribe
<1>2. slot \in 0 .. MAX_SUBSCRIPTIONS
    BY <1>1, SizesAssumption, TablesHold DEF Holding, Table
<1> HIDE DEF slot
<1>3. /\ UNCHANGED local /\ running
      /\ Send(calls, "subscribe", type, None, slot) \/ SendFails(calls)
    BY DEF subscribe, slot, UserCall
<1>4. CASE SendFails(calls)
    BY <1>3, <1>4 DEF local
<1>5. CASE Send(calls, "subscribe", type, None, slot)
    <2>1. Sent(calls, "subscribe", type, None, slot) /\ running' = FALSE
        BY <1>2, <1>5, WhatIsThere, Sending DEF Requests, RegisteringRequests
    <2>2. PICK c \in Pending :
              /\ calls' = Append(calls, c)
              /\ c.request = "subscribe" /\ c.arg = type /\ c.slot = slot
              /\ bluenet'.subscribed = Subscribed("subscribe", type, c.ack)
              /\ bluenet'.scanning = Scanning("subscribe", c.ack)
        BY <2>1 DEF Sent
    <2>3. /\ bluenet'.subscribed \subseteq bluenet.subscribed \cup {type}
          /\ bluenet'.scanning = bluenet.scanning
        BY <2>2 DEF Subscribed, Scanning
    <2> QED
        BY <1>1, <1>3, <2>1, <2>2, <2>3 DEF local
<1> QED
    BY <1>3, <1>4, <1>5

(* A call to subscribe, start or stop that resumes leaves the others.      *)
Popped(s, n, v) ==
    /\ DOMAIN s = DOMAIN v \cup {n} /\ n \notin DOMAIN v
    /\ \A i \in DOMAIN v : v[i] = s[i] /\ i < n

LEMMA Ending ==
    ASSUME Typed, NEW request, Resumes(request), Returns(Outer)
    PROVE  /\ bluenet' = bluenet
           /\ Innermost.request = request
           /\ Innermost = calls[Len(calls)]
           /\ Popped(calls, Len(calls), calls')
<1>1. /\ calls \in Seq(Pending) /\ calls # <<>> /\ Innermost = calls[Len(calls)]
      /\ Innermost \in Pending /\ Fits(Innermost) /\ Innermost.request = request
    BY InnermostHolds, WhatIsThere
<1>2. /\ Len(calls) \in Nat \ {0} /\ DOMAIN calls = 1 .. Len(calls)
      /\ Outer \in Seq(Pending) /\ DOMAIN Outer = 1 .. Len(calls) - 1
      /\ \A i \in 1 .. Len(calls) - 1 : Outer[i] = calls[i]
    BY <1>1, OuterOf DEF Outer
<1>3. calls' = Outer /\ bluenet' = bluenet
    BY DEF Returns
<1>4. Popped(calls, Len(calls), calls')
    BY <1>2, <1>3 DEF Popped
<1> HIDE DEF Innermost
<1> QED
    BY <1>1, <1>3, <1>4
------------------------------------------------------------------------------
(* Subscriptions.  One call at most waits to subscribe, and the slot it    *)
(* waits for is still empty.                                               *)

SubscriptionsIn(s, t, agreed) ==
    /\ \A type \in agreed :
           \/ Holding(t, type) # {}
           \/ \E i \in DOMAIN s : s[i].request = "subscribe" /\ s[i].arg = type
    /\ \A i \in DOMAIN s : s[i].request = "subscribe" =>
           s[i].slot \in DOMAIN t /\ t[s[i].slot] = None
    /\ \A i, j \in DOMAIN s : s[i].request = "subscribe" /\ s[j].request = "subscribe" => i = j

Subscriptions == SubscriptionsIn(calls, subscribed, bluenet.subscribed)

LEMMA SubscriptionsStep ==
    ASSUME Careful
    PROVE  Typed /\ Subscriptions /\ [Next]_vars => Subscriptions'
<1> SUFFICES ASSUME Typed, Subscriptions, Next PROVE Subscriptions'
    BY DEF vars, local, Subscriptions
<1>0. /\ bluenet.subscribed \subseteq BluenetTypes /\ None \notin BluenetTypes
      /\ Table(subscribed, MAX_SUBSCRIPTIONS) /\ calls \in Seq(Pending)
    BY TablesHold, NamesAssumption, WhatIsThere DEF Typed, TypeOK
<1>1. ASSUME NEW type \in BluenetTypes, subscribe(type)
      PROVE  Subscriptions'
    <2>1. UNCHANGED subscribed
        BY <1>1, Subscribing
    <2>2. CASE SendFails(calls)
        BY <2>1, <2>2 DEF SendFails, Subscriptions
    <2>3. ASSUME NEW c \in Pending, calls' = Append(calls, c),
                 c.request = "subscribe", c.arg = type, c.slot \in Holding(subscribed, None),
                 bluenet'.subscribed \subseteq bluenet.subscribed \cup {type}
          PROVE  Subscriptions'
        <3>1. /\ DOMAIN calls' = DOMAIN calls \cup {Len(calls) + 1}
              /\ \A i \in DOMAIN calls : calls'[i] = calls[i]
              /\ calls'[Len(calls) + 1] = c
            BY <1>0, <2>3, OneMoreCall
        <3>2. \A i \in DOMAIN calls : calls[i].request # "subscribe"
            BY <1>0, <1>1 DEF subscribe, Waiting
        <3>3. \A t \in bluenet.subscribed : Holding(subscribed, t) # {}
            BY <3>2 DEF Subscriptions, SubscriptionsIn
        <3>4. c.slot \in DOMAIN subscribed /\ subscribed[c.slot] = None
            BY <2>3 DEF Holding
        <3> QED
            BY <2>1, <2>3, <3>1, <3>2, <3>3, <3>4 DEF Subscriptions, SubscriptionsIn
    <2> QED
        BY <1>1, <2>2, <2>3, Subscribing
<1>2. ASSUME subscribeResumes
      PROVE  Subscriptions'
    <2> DEFINE c == Innermost
               n == Len(calls)
    <2>0. Resumes("subscribe") /\ Returns(Outer)
        BY <1>2 DEF subscribeResumes
    <2>00. bluenet' = bluenet /\ c.request = "subscribe" /\ c = calls[n] /\ Popped(calls, n, calls')
        BY <2>0, Ending
    <2> HIDE DEF c, n
    <2>1. /\ bluenet' = bluenet /\ c.request = "subscribe" /\ c = calls[n]
          /\ DOMAIN calls = DOMAIN calls' \cup {n} /\ n \notin DOMAIN calls'
          /\ \A i \in DOMAIN calls' : calls'[i] = calls[i]
        BY <2>00 DEF Popped
    <2>2. c.slot \in DOMAIN subscribed /\ subscribed[c.slot] = None
        BY <2>1 DEF Subscriptions, SubscriptionsIn
    <2>3. subscribed' = [subscribed EXCEPT ![c.slot] = c.arg]
        BY <1>2 DEF subscribeResumes, c
    <2>4. \A i \in DOMAIN calls' : calls'[i].request # "subscribe"
        BY <2>1 DEF Subscriptions, SubscriptionsIn
    <2>5. \A t \in bluenet.subscribed : Holding(subscribed, t) # {} \/ c.arg = t
        BY <2>1, <2>4 DEF Subscriptions, SubscriptionsIn
    <2>6. DOMAIN subscribed' = DOMAIN subscribed /\ subscribed'[c.slot] = c.arg
          /\ \A i \in DOMAIN subscribed : i # c.slot => subscribed'[i] = subscribed[i]
        BY <2>2, <2>3
    <2>7. \A t \in bluenet.subscribed : Holding(subscribed', t) # {}
        <3> TAKE t \in bluenet.subscribed
        <3>1. CASE c.arg = t
            BY <2>2, <2>6, <3>1 DEF Holding
        <3>2. CASE Holding(subscribed, t) # {}
            <4>1. PICK i \in DOMAIN subscribed : subscribed[i] = t
                BY <3>2 DEF Holding
            <4>2. i # c.slot
                BY <1>0, <2>2, <4>1
            <4> QED
                BY <2>6, <4>1, <4>2 DEF Holding
        <3> QED
            BY <2>5, <3>1, <3>2
    <2> QED
        BY <2>1, <2>4, <2>7 DEF Subscriptions, SubscriptionsIn
<1>3. ASSUME startResumes \/ stopResumes
      PROVE  Subscriptions'
    <2>1. /\ Returns(Outer) /\ UNCHANGED subscribed
          /\ \E request \in {"start", "stop"} : Resumes(request)
        BY <1>3 DEF startResumes, stopResumes
    <2> DEFINE n == Len(calls)
    <2>2. bluenet' = bluenet /\ calls[n].request # "subscribe" /\ Popped(calls, n, calls')
        BY <2>1, Ending
    <2> HIDE DEF n
    <2> QED
        BY <2>1, <2>2 DEF Popped, Subscriptions, SubscriptionsIn
<1>4. ASSUME BleEnd \/ Interrupt \/ HandlerReturns
      PROVE  Subscriptions'
    BY <1>4 DEF BleEnd, Returns, Interrupt, HandlerReturns, local, Subscriptions
(* A step that may add a call to those in outer, but none to subscribe.    *)
<1>a. ASSUME NEW outer \in Seq(Pending),
             SubscriptionsIn(outer, subscribed, bluenet.subscribed), UNCHANGED subscribed,
             NEW c \in Pending, calls' = Append(outer, c), c.request # "subscribe",
             bluenet'.subscribed = bluenet.subscribed
      PROVE  Subscriptions'
    <2>1. /\ DOMAIN calls' = DOMAIN outer \cup {Len(outer) + 1}
          /\ \A i \in DOMAIN outer : calls'[i] = outer[i]
          /\ calls'[Len(outer) + 1] = c
        BY <1>a, OneMoreCall
    <2> QED
        BY <1>a, <2>1 DEF Subscriptions, SubscriptionsIn
<1>5. ASSUME stopScan
      PROVE  Subscriptions'
    <2>1. Send(calls, "stop", None, None, 0) /\ UNCHANGED subscribed
        BY <1>5 DEF stopScan, local
    <2>2. Sent(calls, "stop", None, None, 0)
        BY <1>0, <2>1, WhatIsThere, Sending DEF Requests, RegisteringRequests
    <2>3. PICK c \in Pending :
              /\ calls' = Append(calls, c) /\ c.request = "stop"
              /\ bluenet'.subscribed = Subscribed("stop", None, c.ack)
        BY <2>2 DEF Sent
    <2>4. bluenet'.subscribed = bluenet.subscribed
        BY <2>3 DEF Subscribed
    <2> QED
        BY <1>0, <1>a, <2>1, <2>3, <2>4 DEF Subscriptions
<1>6. ASSUME Other
      PROVE  Subscriptions'
    <2>1. PICK outer : Left(outer) /\ Moved(outer)
        BY <1>6 DEF Other
    <2>2. /\ outer \in Seq(Pending)
          /\ \A i \in DOMAIN outer : i \in DOMAIN calls /\ outer[i] = calls[i]
          /\ \A i \in DOMAIN calls : calls[i].request = "subscribe" => i \in DOMAIN outer
        BY <2>1, LeftOver
    <2>3. SubscriptionsIn(outer, subscribed, bluenet.subscribed) /\ UNCHANGED subscribed
        BY <1>6, <2>2 DEF Other, Subscriptions, SubscriptionsIn
    <2>4. CASE calls' = outer /\ bluenet' = bluenet
        BY <2>3, <2>4 DEF Subscriptions
    <2> QED
        BY <1>a, <2>1, <2>2, <2>3, <2>4 DEF Moved
<1> QED
    BY <1>1, <1>2, <1>3, <1>4, <1>5, <1>6, StepKinds

(* _subscribedTypes keeps up with what bluenet is subscribed to            *)
(* (BluenetInternal.h:65), however handlers nest, for a user who does not  *)
(* subscribe in a handler while a subscribe waits: the slot subscribe      *)
(* chose is then empty until it is written.                                *)
THEOREM KeepsSubscriptions ==
    ASSUME Careful
    PROVE  Spec => []SubscriptionsKept
<1> DEFINE Inv == Typed /\ Subscriptions
<1>1. Init => Inv
    <2>1. Init => Subscriptions
        BY DEF Init, Subscriptions, SubscriptionsIn
    <2> QED
        BY <2>1, TypesInit
<1>2. Inv /\ [Next]_vars => Inv'
    BY TypesStep, SubscriptionsStep
<1>3. Inv => SubscriptionsKept
    <2> SUFFICES ASSUME Inv PROVE SubscriptionsKept
        OBVIOUS
    <2>1. DOMAIN calls = 1 .. Len(calls)
        BY WhatIsThere
    <2> QED
        BY <2>1 DEF Subscriptions, SubscriptionsIn, SubscriptionsKept, Waiting
<1> HIDE DEF Inv
<1> QED
    BY <1>1, <1>2, <1>3, PTL DEF Spec
------------------------------------------------------------------------------
(* Scanning.  While a stop waits, the flag is up, bluenet scans unless it  *)
(* has agreed, and nothing above it on the stack asks to scan.  Otherwise  *)
(* bluenet scans if the flag is up, or if it agreed to a start that waits. *)

ScanningIn(s, flag, scanning) ==
    /\ \A i \in DOMAIN s : s[i].request = "stop" =>
          /\ flag
          /\ scanning = (s[i].ack # "SUCCESS")
          /\ \A j \in DOMAIN s :
                /\ s[j].request # "start"
                /\ s[j].request = "stop" => j = i
                /\ Asks(s[j]) => j < i
    /\ (\A i \in DOMAIN s : s[i].request # "stop") =>
          /\ flag => scanning
          /\ scanning => flag \/ \E i \in DOMAIN s :
                                     s[i].request = "start" /\ s[i].ack = "SUCCESS"
          /\ \A i \in DOMAIN s : s[i].request = "start" /\ s[i].ack = "SUCCESS" => scanning

ScanKnown == ScanningIn(calls, isScanning, bluenet.scanning)

LEMMA ScanStep ==
    ASSUME Careful
    PROVE  Typed /\ ScanKnown /\ [Next]_vars => ScanKnown'
<1> SUFFICES ASSUME Typed, ScanKnown, Next PROVE ScanKnown'
    BY DEF vars, local, ScanKnown
<1>0. isScanning \in BOOLEAN /\ bluenet.scanning \in BOOLEAN /\ calls \in Seq(Pending)
    BY WhatIsThere DEF Typed, TypeOK
(* A call is added that neither asks to scan nor stops anything.           *)
<1>a. ASSUME NEW outer \in Seq(Pending), ScanningIn(outer, isScanning, bluenet.scanning),
             UNCHANGED isScanning, bluenet'.scanning = bluenet.scanning,
             NEW c, calls' = Append(outer, c), ~Asks(c), c.request # "stop"
      PROVE  ScanKnown'
    <2>1. /\ DOMAIN calls' = DOMAIN outer \cup {Len(outer) + 1}
          /\ \A i \in DOMAIN outer : calls'[i] = outer[i]
          /\ calls'[Len(outer) + 1] = c
        BY <1>a, OneMoreCall
    <2>2. c.request # "start"
        BY <1>a DEF Asks
    <2> QED
        BY <1>a, <2>1, <2>2 DEF ScanKnown, ScanningIn
(* A call that asks to scan is added, when no stop waits.                  *)
<1>b. ASSUME NEW outer \in Seq(Pending), ScanningIn(outer, isScanning, bluenet.scanning),
             UNCHANGED isScanning, NEW c \in Pending, calls' = Append(outer, c),
             bluenet'.scanning = Scanning(c.request, c.ack), c.request # "stop",
             \A i \in DOMAIN outer : outer[i].request # "stop"
      PROVE  ScanKnown'
    <2>1. /\ DOMAIN calls' = DOMAIN outer \cup {Len(outer) + 1}
          /\ \A i \in DOMAIN outer : calls'[i] = outer[i]
          /\ calls'[Len(outer) + 1] = c
        BY <1>b, OneMoreCall
    <2>2. \A i \in DOMAIN calls' : calls'[i].request # "stop"
        BY <1>b, <2>1
    <2>3. CASE c.request = "start" /\ c.ack = "SUCCESS"
        <3>1. bluenet'.scanning = TRUE
            BY <1>b, <2>3 DEF Scanning
        <3> QED
            BY <2>1, <2>2, <2>3, <3>1 DEF ScanKnown, ScanningIn
    <2>4. CASE ~(c.request = "start" /\ c.ack = "SUCCESS")
        <3>1. bluenet'.scanning = bluenet.scanning
            BY <1>b, <2>4 DEF Scanning
        <3> QED
            BY <1>b, <2>1, <2>2, <2>4, <3>1 DEF ScanKnown, ScanningIn
    <2> QED
        BY <2>3, <2>4
<1>1. ASSUME NEW type \in BluenetTypes, subscribe(type)
      PROVE  ScanKnown'
    <2>1. UNCHANGED isScanning
        BY <1>1, Subscribing
    <2>2. CASE SendFails(calls)
        BY <2>1, <2>2 DEF SendFails, ScanKnown
    <2>3. ASSUME NEW c \in Pending, calls' = Append(calls, c), c.request = "subscribe",
                 bluenet'.scanning = bluenet.scanning
          PROVE  ScanKnown'
        <3>1. ~Asks(c)
            BY <2>3 DEF Asks
        <3> QED
            BY <1>0, <1>a, <2>1, <2>3, <3>1 DEF ScanKnown
    <2> QED
        BY <1>1, <2>2, <2>3, Subscribing
<1>2. ASSUME subscribeResumes
      PROVE  ScanKnown'
    <2>1. Resumes("subscribe") /\ Returns(Outer) /\ UNCHANGED isScanning
        BY <1>2 DEF subscribeResumes
    <2> DEFINE n == Len(calls)
    <2>2. bluenet' = bluenet /\ calls[n].request = "subscribe" /\ Popped(calls, n, calls')
        BY <2>1, Ending
    <2> HIDE DEF n
    <2>3. ~Asks(calls[n])
        BY <2>2 DEF Asks
    <2> QED
        BY <2>1, <2>2, <2>3 DEF Popped, ScanKnown, ScanningIn
<1>3. ASSUME startResumes
      PROVE  ScanKnown'
    <2> DEFINE c == Innermost
               n == Len(calls)
    <2>1. Resumes("start") /\ Returns(Outer) /\ isScanning' = (isScanning \/ c.ack = "SUCCESS")
        BY <1>3 DEF startResumes
    <2>0. bluenet' = bluenet /\ c.request = "start" /\ c = calls[n] /\ Popped(calls, n, calls')
        BY <2>1, Ending
    <2> HIDE DEF c, n
    <2>2. /\ bluenet' = bluenet /\ c.request = "start" /\ c = calls[n]
          /\ DOMAIN calls = DOMAIN calls' \cup {n}
          /\ \A i \in DOMAIN calls' : calls'[i] = calls[i]
        BY <2>0 DEF Popped
    <2>3. \A i \in DOMAIN calls : calls[i].request # "stop"
        BY <2>2 DEF ScanKnown, ScanningIn
    <2>4. \A i \in DOMAIN calls' : calls'[i].request # "stop"
        BY <2>2, <2>3
    <2>5. CASE c.ack = "SUCCESS"
        <3>1. isScanning' = TRUE /\ bluenet.scanning
            BY <2>1, <2>2, <2>3, <2>5 DEF ScanKnown, ScanningIn
        <3> QED
            BY <2>2, <2>4, <3>1 DEF ScanKnown, ScanningIn
    <2>6. CASE c.ack # "SUCCESS"
        <3>1. isScanning' = isScanning
            BY <1>0, <2>1, <2>6
        <3> QED
            BY <2>2, <2>3, <2>4, <2>6, <3>1 DEF ScanKnown, ScanningIn
    <2> QED
        BY <2>5, <2>6
<1>4. ASSUME stopScan
      PROVE  ScanKnown'
    <2>1. Send(calls, "stop", None, None, 0) /\ UNCHANGED isScanning /\ isScanning
        BY <1>4 DEF stopScan, local
    <2>2. \A i \in DOMAIN calls : calls[i].request \notin {"start", "stop"}
        BY <1>0, <1>4 DEF stopScan, Waiting
    <2>3. bluenet.scanning = TRUE
        BY <1>0, <2>1, <2>2 DEF ScanKnown, ScanningIn
    <2>4. Sent(calls, "stop", None, None, 0)
        BY <1>0, <2>1, WhatIsThere, Sending DEF Requests, RegisteringRequests
    <2>5. PICK c \in Pending :
              /\ calls' = Append(calls, c) /\ c.request = "stop"
              /\ bluenet'.scanning = Scanning("stop", c.ack)
        BY <2>4 DEF Sent
    <2>6. bluenet'.scanning = (c.ack # "SUCCESS")
        BY <2>3, <2>5 DEF Scanning
    <2>7. /\ DOMAIN calls' = DOMAIN calls \cup {Len(calls) + 1}
          /\ \A i \in DOMAIN calls : calls'[i] = calls[i] /\ i < Len(calls) + 1
          /\ calls'[Len(calls) + 1] = c
        BY <1>0, <2>5, OneMoreCall
    <2>8. ~Asks(c)
        BY <2>5 DEF Asks
    <2> QED
        BY <2>1, <2>2, <2>5, <2>6, <2>7, <2>8 DEF ScanKnown, ScanningIn
<1>5. ASSUME stopResumes
      PROVE  ScanKnown'
    <2> DEFINE c == Innermost
               n == Len(calls)
    <2>1. Resumes("stop") /\ Returns(Outer) /\ isScanning' = (isScanning /\ c.ack # "SUCCESS")
        BY <1>5 DEF stopResumes
    <2>0. bluenet' = bluenet /\ c.request = "stop" /\ c = calls[n] /\ Popped(calls, n, calls')
        BY <2>1, Ending
    <2> HIDE DEF c, n
    <2>2. /\ bluenet' = bluenet /\ c.request = "stop" /\ c = calls[n]
          /\ DOMAIN calls = DOMAIN calls' \cup {n} /\ n \notin DOMAIN calls'
          /\ \A i \in DOMAIN calls' : calls'[i] = calls[i]
        BY <2>0 DEF Popped
    <2>3. /\ isScanning /\ bluenet.scanning = (c.ack # "SUCCESS")
          /\ \A i \in DOMAIN calls : calls[i].request # "start"
                                     /\ (calls[i].request = "stop" => i = n)
        BY <2>2 DEF ScanKnown, ScanningIn
    <2>4. \A i \in DOMAIN calls' : calls'[i].request \notin {"start", "stop"}
        BY <2>2, <2>3
    <2>5. isScanning' = bluenet'.scanning
        BY <2>1, <2>2, <2>3
    <2> QED
        BY <2>4, <2>5 DEF ScanKnown, ScanningIn
<1>6. ASSUME BleEnd
      PROVE  ScanKnown'
    <2>1. calls' = calls /\ bluenet' = bluenet /\ isScanning' = FALSE /\ ~isScanning
        BY <1>6 DEF BleEnd, Returns
    <2>2. isScanning' = isScanning
        BY <1>0, <2>1
    <2> QED
        BY <2>1, <2>2 DEF ScanKnown
<1>7. ASSUME Interrupt \/ HandlerReturns
      PROVE  ScanKnown'
    BY <1>7 DEF Interrupt, HandlerReturns, local, ScanKnown
<1>8. ASSUME Other
      PROVE  ScanKnown'
    <2>1. PICK outer : Left(outer) /\ Moved(outer)
        BY <1>8 DEF Other
    <2>2. /\ outer \in Seq(Pending)
          /\ \A i \in DOMAIN outer : i \in DOMAIN calls /\ outer[i] = calls[i]
          /\ \A i \in DOMAIN calls :
                calls[i].request \in {"start", "stop"} => i \in DOMAIN outer
          /\ ~running => /\ Innermost = calls[Len(calls)] /\ Len(calls) \in DOMAIN calls
                         /\ \A i \in DOMAIN outer : i < Len(calls)
        BY <2>1, LeftOver
    <2>3. ScanningIn(outer, isScanning, bluenet.scanning) /\ UNCHANGED isScanning
        BY <1>8, <2>2 DEF Other, ScanKnown, ScanningIn
    <2>4. CASE calls' = outer /\ bluenet' = bluenet
        BY <2>3, <2>4 DEF ScanKnown
    <2>5. ASSUME NEW c \in Pending, calls' = Append(outer, c),
                 c.request \notin {"subscribe", "stop"}, Asks(c) => MayAsk,
                 bluenet'.scanning = Scanning(c.request, c.ack)
          PROVE  ScanKnown'
        <3>1. CASE Asks(c)
            <4> SUFFICES ASSUME NEW i \in DOMAIN outer, outer[i].request = "stop"
                         PROVE  FALSE
                BY <1>b, <2>2, <2>3, <2>5
            <4>1. i \in DOMAIN calls /\ calls[i].request = "stop"
                BY <2>2
            <4>2. isScanning /\ \A j \in DOMAIN calls : Asks(calls[j]) => j < i
                BY <4>1 DEF ScanKnown, ScanningIn
            <4>3. ~running /\ Asks(calls[Len(calls)])
                BY <2>2, <2>5, <3>1, <4>2 DEF MayAsk
            <4>4. i < Len(calls) /\ Len(calls) < i /\ i \in Nat /\ Len(calls) \in Nat
                BY <1>0, <2>2, <4>2, <4>3
            <4> QED
                BY <4>4
        <3>2. CASE ~Asks(c)
            <4>1. bluenet'.scanning = bluenet.scanning
                BY <2>5, <3>2 DEF Asks, Scanning
            <4> QED
                BY <1>a, <2>2, <2>3, <2>5, <3>2, <4>1
        <3> QED
            BY <3>1, <3>2
    <2> QED
        BY <2>1, <2>4, <2>5 DEF Moved
<1> QED
    BY <1>1, <1>2, <1>3, <1>4, <1>5, <1>6, <1>7, <1>8, StepKinds

(* When no call to start or stop waits, the microapp and bluenet agree on  *)
(* whether it scans, however handlers nest, for a user who does not stop a *)
(* scan in a handler while it is being started or stopped, and stops it    *)
(* before BLE.end, which clears the flag without a word to bluenet.        *)
THEOREM KnowsWhetherItScans ==
    ASSUME Careful
    PROVE  Spec => []ScanFlagHonest
<1> DEFINE Inv == Typed /\ ScanKnown
<1>1. Init => Inv
    <2> SUFFICES ASSUME Init PROVE Inv
        OBVIOUS
    <2>1. DOMAIN calls = {} /\ isScanning = FALSE /\ bluenet.scanning = FALSE
        BY DEF Init
    <2>2. ScanKnown
        BY <2>1 DEF ScanKnown, ScanningIn
    <2> QED
        BY <2>2, TypesInit
<1>2. Inv /\ [Next]_vars => Inv'
    BY TypesStep, ScanStep
<1>3. Inv => ScanFlagHonest
    <2> SUFFICES ASSUME Inv, Waiting("start") \cup Waiting("stop") = {}
                 PROVE  isScanning = bluenet.scanning
        BY DEF ScanFlagHonest
    <2>1. DOMAIN calls = 1 .. Len(calls)
        BY WhatIsThere
    <2>2. \A i \in DOMAIN calls : calls[i].request \notin {"start", "stop"}
        BY <2>1 DEF Waiting
    <2>3. isScanning \in BOOLEAN /\ bluenet.scanning \in BOOLEAN
        BY DEF Typed, TypeOK
    <2> QED
        BY <2>2, <2>3 DEF ScanKnown, ScanningIn
<1> HIDE DEF Inv
<1> QED
    BY <1>1, <1>2, <1>3, PTL DEF Spec
------------------------------------------------------------------------------
(* Calls that are not nested: MaxNesting is 0.                             *)

Unnested == Len(calls) <= 1 /\ (running <=> calls = <<>>)

(* The one call that waits.                                                *)
LEMMA OneCall ==
    ASSUME Typed, Unnested
    PROVE  /\ running => calls = <<>>
           /\ <<>> \in Waits
           /\ ~running => /\ Innermost = calls[1] /\ DOMAIN calls = {1} /\ calls[1] \in Pending
                          /\ Fits(calls[1])
                          /\ Outer = <<>>
                          /\ \A request : Resumes(request) => calls[1].request = request
<1>1. calls \in Seq(Pending) /\ running \in BOOLEAN /\ \A i \in DOMAIN calls : Fits(calls[i])
    BY WhatIsThere DEF Typed, TypeOK, Waits
<1>2. <<>> \in Waits
    BY DEF Waits
<1>3. ASSUME ~running
      PROVE  /\ Innermost = calls[1] /\ DOMAIN calls = {1} /\ calls[1] \in Pending
             /\ Outer = <<>>
    <2>0. calls # <<>> /\ Len(calls) <= 1
        BY <1>3 DEF Unnested
    <2>00. Len(calls) \in Nat \ {0} /\ DOMAIN calls = 1 .. Len(calls)
        BY <1>1, <2>0, OuterOf
    <2>1. calls # <<>> /\ Len(calls) = 1
        BY <2>0, <2>00
    <2> QED
        BY <1>1, <2>1 DEF Innermost, Outer
<1> QED
    BY <1>1, <1>2, <1>3 DEF Unnested, Resumes

LEMMA UnnestedStep ==
    ASSUME MaxNesting = 0
    PROVE  Typed /\ Unnested /\ [Next]_vars => Unnested'
<1> SUFFICES ASSUME Typed, Unnested, Next PROVE Unnested'
    BY DEF vars, Unnested
(* Control goes back to user code, or one call waits.                      *)
<1>a. ASSUME \/ running' = TRUE /\ calls' = <<>>
             \/ running' = FALSE /\ \E c : calls' = Append(<<>>, c)
      PROVE  Unnested'
    <2>1. CASE running' = TRUE /\ calls' = <<>>
        <3>1. Len(calls') = 0
            BY <2>1
        <3> QED
            BY <2>1, <3>1 DEF Unnested
    <2>2. ASSUME running' = FALSE, NEW c, calls' = Append(<<>>, c)
          PROVE  Unnested'
        <3>1. calls' = <<c>> /\ calls' # <<>> /\ Len(calls') = 1
            BY <2>2
        <3> QED
            BY <2>2, <3>1 DEF Unnested
    <2> QED
        BY <1>a, <2>1, <2>2
<1>1. ASSUME NEW type \in BluenetTypes, subscribe(type)
      PROVE  Unnested'
    <2>1. running /\ calls = <<>>
        BY <1>1, OneCall, Subscribing
    <2> QED
        BY <1>1, <1>a, <2>1, Subscribing DEF SendFails
<1>2. ASSUME subscribeResumes \/ startResumes \/ stopResumes
      PROVE  Unnested'
    <2>1. Returns(Outer) /\ ~running
        BY <1>2 DEF subscribeResumes, startResumes, stopResumes, Resumes
    <2> QED
        BY <1>a, <2>1, OneCall DEF Returns
<1>3. ASSUME BleEnd
      PROVE  Unnested'
    BY <1>3, <1>a, OneCall DEF BleEnd, UserCall, Returns
<1>4. ASSUME stopScan
      PROVE  Unnested'
    <2>1. calls = <<>> /\ Send(calls, "stop", None, None, 0)
        BY <1>4, OneCall DEF stopScan, UserCall
    <2> QED
        BY <1>a, <2>1 DEF Send
<1>5. ASSUME Other
      PROVE  Unnested'
    <2>1. PICK outer : Left(outer) /\ Moved(outer)
        BY <1>5 DEF Other
    <2>2. outer = <<>>
        BY <2>1, OneCall DEF Left
    <2> QED
        BY <1>a, <2>1, <2>2 DEF Moved
<1>6. ~Interrupt
    <2> SUFFICES ASSUME Interrupt PROVE FALSE
        OBVIOUS
    <2>1. ~running /\ Len(calls) <= 0
        BY DEF Interrupt
    <2>2. calls \in Seq(Pending) /\ calls # <<>>
        BY <2>1, WhatIsThere DEF Unnested
    <2>3. Len(calls) \in Nat \ {0}
        BY <2>2, OuterOf
    <2> QED
        BY <2>1, <2>3
<1>7. ~HandlerReturns
    BY DEF HandlerReturns, Unnested
<1> QED
    BY <1>1, <1>2, <1>3, <1>4, <1>5, <1>6, <1>7, StepKinds

LEMMA UnnestedInit ==
    Init => Unnested
<1> SUFFICES ASSUME Init PROVE Unnested
    OBVIOUS
<1>1. calls = <<>> /\ running = TRUE
    BY DEF Init
<1>2. Len(calls) = 0
    BY <1>1
<1> QED
    BY <1>1, <1>2 DEF Unnested
------------------------------------------------------------------------------
(* One slot.  A BLE type holds one slot at most, and one only if its flag  *)
(* is set or a call waits that asked for it because it was not.            *)

AskedIn(s) == {s[i].arg : i \in {j \in DOMAIN s : s[j].request = "registerBle"}}

Single(t, f) ==
    \A k \in BleTypes :
        /\ \A i, j \in Holding(t, k) : i = j
        /\ Holding(t, k) # {} => k \in f

SinglyIn(s, t, f) == Single(t, f \cup AskedIn(s)) /\ f \cap AskedIn(s) = {}

Singly == SinglyIn(calls, table, flags)

LEMMA NoneIsNoBleType ==
    None \notin BleTypes
BY DEF None, BleTypes

LEMMA SingleOther ==
    ASSUME NEW t, NEW n, Table(t, n), NEW f, Single(t, f), Holding(t, None) # {},
           NEW k, k # None, k \notin BleTypes
    PROVE  /\ Single([t EXCEPT ![First(Holding(t, None))] = k], f)
           /\ Single(removeInterruptRegistration(
                         [t EXCEPT ![First(Holding(t, None))] = k], k), f)
<1> DEFINE u == [t EXCEPT ![First(Holding(t, None))] = k]
           v == removeInterruptRegistration(u, k)
<1>1. /\ Table(u, n)
      /\ \A j : j # k /\ j # None => Holding(u, j) = Holding(t, j)
      /\ \E i : Holding(u, k) = Holding(t, k) \cup {i}
    BY Registering
<1> HIDE DEF u
<1>2. \A j : j # k /\ j # None => Holding(v, j) = Holding(u, j)
    BY <1>1, Removing
<1> HIDE DEF v
<1>3. Single(u, f) /\ Single(v, f)
    BY <1>1, <1>2, NoneIsNoBleType DEF Single
<1> QED
    BY <1>3 DEF u, v

LEMMA SingleBle ==
    ASSUME NEW t, NEW n, Table(t, n), NEW f, Single(t, f), Holding(t, None) # {},
           NEW k \in BleTypes \ f
    PROVE  Single([t EXCEPT ![First(Holding(t, None))] = k], f \cup {k})
<1> DEFINE u == [t EXCEPT ![First(Holding(t, None))] = k]
<1>0. k # None /\ Table(t, n) /\ Holding(t, None) # {}
    BY NoneIsNoBleType
<1>1. /\ \A j : j # k /\ j # None => Holding(u, j) = Holding(t, j)
      /\ \E i : Holding(u, k) = Holding(t, k) \cup {i}
    BY <1>0, Registering
<1> HIDE DEF u
<1>2. Holding(t, k) = {}
    BY DEF Single
<1>3. Single(u, f \cup {k})
    BY <1>1, <1>2, NoneIsNoBleType DEF Single
<1> QED
    BY <1>3 DEF u

LEMMA SingleTakeBack ==
    ASSUME NEW t, NEW n, Table(t, n), NEW f, NEW k \in BleTypes, Single(t, f \cup {k})
    PROVE  Single(removeInterruptRegistration(t, k), f)
<1> DEFINE u == removeInterruptRegistration(t, k)
<1>1. CASE Holding(t, k) = {}
    BY <1>1 DEF removeInterruptRegistration, Single
<1>2. CASE Holding(t, k) # {}
    <2>1. /\ \A j : j # k /\ j # None => Holding(u, j) = Holding(t, j)
          /\ \E i \in Holding(t, k) : Holding(u, k) = Holding(t, k) \ {i}
        BY <1>2, Removing, NoneIsNoBleType
    <2>2. Holding(u, k) = {}
        BY <2>1 DEF Single
    <2> HIDE DEF u
    <2>3. Single(u, f)
        BY <2>1, <2>2, NoneIsNoBleType DEF Single
    <2> QED
        BY <2>3 DEF u
<1> QED
    BY <1>1, <1>2

(* Steps that begin with no call that waits: f is what the flags become.   *)
LEMMA SinglyReturn ==
    ASSUME NEW f, Single(table', f), Returns(<<>>) \/ SendFails(<<>>)
    PROVE  SinglyIn(calls', table', f)
<1>1. calls' = <<>>
    BY DEF Returns, SendFails
<1>2. AskedIn(calls') = {}
    BY <1>1 DEF AskedIn
<1>3. f \cup {} = f
    OBVIOUS
<1> QED
    BY <1>2, <1>3 DEF SinglyIn

LEMMA SinglySend ==
    ASSUME Typed, NEW f, Single(table', f), NEW request \in Requests \ {"registerBle"},
           NEW arg \in Keys \cup BluenetTypes \cup {None},
           request \in RegisteringRequests => arg \in Keys,
           request = "subscribe" => arg \in BluenetTypes,
           NEW slot \in 0 .. MAX_SUBSCRIPTIONS,
           Send(<<>>, request, arg, None, slot)
    PROVE  SinglyIn(calls', table', f)
<1>1. <<>> \in Seq(Pending)
    OBVIOUS
<1>2. Sent(<<>>, request, arg, None, slot)
    BY <1>1, WhatIsThere, Sending
<1>3. PICK c \in Pending : calls' = Append(<<>>, c) /\ c.request = request
    BY <1>2 DEF Sent
<1>4. calls' = <<c>> /\ DOMAIN calls' = {1} /\ calls'[1] = c
    BY <1>3
<1>5. AskedIn(calls') = {}
    BY <1>3, <1>4 DEF AskedIn
<1>6. f \cup {} = f
    OBVIOUS
<1> QED
    BY <1>5, <1>6 DEF SinglyIn

LEMMA SinglyBle ==
    ASSUME Typed, NEW f, Single(table, f), NEW type \in BleTypes \ f,
           NEW event \in EventTypes \cup {None}, NEW h,
           registerBleInterrupt(<<>>, type, event, h)
    PROVE  SinglyIn(calls', table', f)
<1>1. /\ <<>> \in Seq(Pending) /\ type \in Keys
      /\ Table(table, MAX_INTERRUPT_REGISTRATIONS)
    BY TablesHold DEF Keys
<1>2. HasRoom => Single(registerInterrupt(type), f \cup {type})
    BY <1>1, SingleBle DEF HasRoom, registerInterrupt
<1>3. CASE HasRoom /\ Send(<<>>, "registerBle", type, event, 0)
           /\ table' = registerInterrupt(type)
    <2>1. Sent(<<>>, "registerBle", type, event, 0)
        BY <1>1, <1>3, WhatIsThere, Sending DEF Requests
    <2>2. PICK c \in Pending :
              calls' = Append(<<>>, c) /\ c.request = "registerBle" /\ c.arg = type
        BY <2>1 DEF Sent
    <2>3. calls' = <<c>> /\ DOMAIN calls' = {1} /\ calls'[1] = c
        BY <2>2
    <2>4. AskedIn(calls') = {type}
        BY <2>2, <2>3 DEF AskedIn
    <2> QED
        BY <1>2, <1>3, <2>4 DEF SinglyIn
<1>4. CASE HasRoom /\ SendFails(<<>>)
           /\ table' = removeInterruptRegistration(registerInterrupt(type), type)
    <2>1. Table(registerInterrupt(type), MAX_INTERRUPT_REGISTRATIONS)
        BY <1>1, <1>4, Registering, NoneIsNoBleType DEF HasRoom, registerInterrupt
    <2>2. Single(table', f)
        BY <1>2, <1>4, <2>1, SingleTakeBack
    <2> QED
        BY <1>4, <2>2, SinglyReturn
<1>5. CASE Returns(<<>>) /\ UNCHANGED table
    BY <1>5, SinglyReturn
<1> QED
    BY <1>3, <1>4, <1>5 DEF registerBleInterrupt

LEMMA SinglyMissing ==
    ASSUME Typed, NEW f, Single(table, f), flags \subseteq f, NEW types,
           types \in TypeLists,
           \A i \in DOMAIN types : types[i] \in f => types[i] \in flags,
           NEW event \in EventTypes \cup {None}, NEW h,
           RegisterMissing(<<>>, types, event, h)
    PROVE  SinglyIn(calls', table', f)
<1> DEFINE missing == {i \in DOMAIN types : types[i] \notin flags}
<1>1. CASE missing = {}
    BY <1>1, SinglyReturn DEF RegisterMissing
<1>2. CASE missing # {}
    <2> DEFINE type == types[First(missing)]
    <2>1. type \in BleTypes \ f
        BY <1>2, MissingType
    <2>2. registerBleInterrupt(<<>>, type, event, h)
        BY <1>2 DEF RegisterMissing
    <2> HIDE DEF type
    <2> QED
        BY <2>1, <2>2, SinglyBle
<1> QED
    BY <1>1, <1>2

LEMMA SinglyScan ==
    ASSUME Typed, Single(table, flags), Scan(<<>>)
    PROVE  SinglyIn(calls', table', flags)
<1>1. CASE Returns(<<>>) /\ UNCHANGED table
    BY <1>1, SinglyReturn
<1>2. CASE Send(<<>>, "start", None, None, 0) /\ UNCHANGED table
    BY <1>2, WhatIsThere, SinglySend DEF Requests, RegisteringRequests
<1>3. CASE "BLE_SCAN" \notin flags /\ registerBleInterrupt(<<>>, "BLE_SCAN", None, handlers)
    BY <1>3, SinglyBle DEF BleTypes
<1> QED
    BY <1>1, <1>2, <1>3 DEF Scan

LEMMA SinglyStep ==
    ASSUME MaxNesting = 0, "BLE.end" \notin UserCalls
    PROVE  Typed /\ Unnested /\ Singly /\ [Next]_vars => Singly'
<1> SUFFICES ASSUME Typed, Unnested, Singly, Next PROVE Singly'
    BY DEF vars, local, Singly
<1>0. /\ Table(table, MAX_INTERRUPT_REGISTRATIONS)
      /\ <<>> \in Seq(Pending) /\ 0 \in 0 .. MAX_SUBSCRIPTIONS
      /\ None \in Keys \cup BluenetTypes \cup {None}
    BY WhatIsThere, TablesHold
<1>a. ASSUME \A i \in DOMAIN calls : calls[i].request # "registerBle"
      PROVE  Single(table, flags)
    <2>1. AskedIn(calls) = {} /\ flags \cup {} = flags
        BY <1>a DEF AskedIn
    <2> QED
        BY <2>1 DEF Singly, SinglyIn
<1>b. ASSUME running
      PROVE  calls = <<>> /\ Single(table, flags)
    <2>1. calls = <<>> /\ DOMAIN calls = {}
        BY <1>b, OneCall
    <2> QED
        BY <1>a, <2>1
<1>c. ASSUME NEW request, Resumes(request), request # "registerBle"
      PROVE  Outer = <<>> /\ Single(table, flags)
    <2>1. ~running
        BY <1>c DEF Resumes
    <2>2. Outer = <<>> /\ \A i \in DOMAIN calls : calls[i].request # "registerBle"
        BY <1>c, <2>1, OneCall
    <2> QED
        BY <1>a, <2>2
<1>d. ASSUME NEW k \in Keys \ BleTypes, HasRoom, Single(table, flags)
      PROVE  /\ Single(registerInterrupt(k), flags)
             /\ Single(removeInterruptRegistration(registerInterrupt(k), k), flags)
    <2>1. k # None
        BY NoneIsNoKey
    <2> QED
        BY <1>0, <1>d, <2>1, SingleOther DEF HasRoom, registerInterrupt
<1>1. ASSUME NEW p \in Pins, attachInterrupt(p)
      PROVE  Singly'
    <2>1. p \in Keys \ BleTypes /\ HasRoom /\ running /\ UNCHANGED flags
        BY <1>1, NamesAssumption DEF attachInterrupt, Keys, UserCall
    <2>2. Single(table', flags)
        BY <1>1, <1>b, <1>d, <2>1 DEF attachInterrupt
    <2>3. Send(<<>>, "attachInterrupt", p, None, 0) \/ SendFails(<<>>)
        BY <1>1, <1>b, <2>1 DEF attachInterrupt
    <2>4. SinglyIn(calls', table', flags)
        BY <1>0, <2>1, <2>2, <2>3, SinglySend, SinglyReturn DEF Requests, RegisteringRequests
    <2> QED
        BY <2>1, <2>4 DEF Singly
<1>2. ASSUME listen
      PROVE  Singly'
    <2>1. "MESH_READ" \in Keys \ BleTypes /\ HasRoom /\ running /\ UNCHANGED flags
        BY <1>2 DEF listen, Keys, OtherTypes, BleTypes, UserCall
    <2>2. Single(table', flags)
        BY <1>2, <1>b, <1>d, <2>1 DEF listen
    <2>3. Send(<<>>, "listen", "MESH_READ", None, 0) \/ SendFails(<<>>)
        BY <1>2, <1>b, <2>1 DEF listen
    <2>4. SinglyIn(calls', table', flags)
        BY <1>0, <2>1, <2>2, <2>3, SinglySend, SinglyReturn DEF Requests, RegisteringRequests
    <2> QED
        BY <2>1, <2>4 DEF Singly
<1>3. ASSUME MessageBegin
      PROVE  Singly'
    <2>1. "MSG_EVENT" \in Keys \ BleTypes /\ HasRoom /\ running /\ UNCHANGED flags
        BY <1>3 DEF MessageBegin, Keys, OtherTypes, BleTypes, UserCall
    <2>2. Single(table', flags)
        BY <1>3, <1>b, <1>d, <2>1 DEF MessageBegin
    <2>3. Send(<<>>, "Message.begin", "MSG_EVENT", None, 0) \/ SendFails(<<>>)
        BY <1>3, <1>b, <2>1 DEF MessageBegin
    <2>4. SinglyIn(calls', table', flags)
        BY <1>0, <2>1, <2>2, <2>3, SinglySend, SinglyReturn DEF Requests, RegisteringRequests
    <2> QED
        BY <2>1, <2>4 DEF Singly
<1>4. ASSUME setBluenetEventHandler
      PROVE  Singly'
    <2>1. "BLUENET_EVENT" \in Keys \ BleTypes /\ HasRoom /\ running
        BY <1>4 DEF setBluenetEventHandler, Keys, OtherTypes, BleTypes, UserCall
    <2>2. Single(table', flags)
        BY <1>4, <1>b, <1>d, <2>1 DEF setBluenetEventHandler
    <2>3. Single(table', flags') /\ Returns(<<>>)
        BY <1>4, <1>b, <2>1, <2>2 DEF setBluenetEventHandler, Single
    <2> QED
        BY <2>3, SinglyReturn DEF Singly
<1>5. ASSUME NEW type \in BluenetTypes, subscribe(type)
      PROVE  Singly'
    <2> DEFINE slot == First(Holding(subscribed, None))
    <2>1. slot \in Holding(subscribed, None)
        BY <1>5, FirstIsIn, TablesHold, HoldingFinite DEF subscribe
    <2>2. slot \in 0 .. MAX_SUBSCRIPTIONS
        BY <2>1, SizesAssumption, TablesHold DEF Holding, Table
    <2> HIDE DEF slot
    <2>3. running /\ UNCHANGED <<table, flags>>
        BY <1>5 DEF subscribe, local, UserCall
    <2>4. Send(<<>>, "subscribe", type, None, slot) \/ SendFails(<<>>)
        BY <1>5, <1>b, <2>3 DEF subscribe, slot
    <2>5. SinglyIn(calls', table', flags)
        BY <1>b, <2>2, <2>3, <2>4, SinglySend, SinglyReturn DEF Requests, RegisteringRequests
    <2> QED
        BY <2>3, <2>5 DEF Singly
<1>6. ASSUME BleBegin \/ scanFor \/ stopScan \/ yield
      PROVE  Singly'
    <2>1. running /\ UNCHANGED <<table, flags>>
        BY <1>6 DEF BleBegin, scanFor, stopScan, yield, local, UserCall
    <2>2. \/ \E request \in PlainRequests : Send(<<>>, request, None, None, 0)
          \/ SendFails(<<>>)
        BY <1>b, <1>6, <2>1 DEF BleBegin, scanFor, stopScan, yield, PlainRequests
    <2>3. \A request \in PlainRequests :
              /\ request \in Requests \ {"registerBle"}
              /\ request \notin RegisteringRequests /\ request # "subscribe"
        BY DEF PlainRequests, Requests, RegisteringRequests
    <2>4. SinglyIn(calls', table', flags)
        BY <1>0, <1>b, <2>1, <2>2, <2>3, SinglySend, SinglyReturn
    <2> QED
        BY <2>1, <2>4 DEF Singly
<1>7. ASSUME NEW e \in EventTypes, setEventHandler(e) \/ setCharacteristicEventHandler(e)
      PROVE  Singly'
    <2>1. running /\ UNCHANGED flags
        BY <1>7 DEF setEventHandler, setCharacteristicEventHandler, AddEventHandler, UserCall
    <2>2. RegisterMissing(<<>>, BleTypesFor(e), e, registerBleEventHandler(e))
        BY <1>7, <1>b, <2>1, Adding DEF AddEventHandler
    <2>3. SinglyIn(calls', table', flags)
        BY <1>b, <2>1, <2>2, ListsOfTypes, SinglyMissing
    <2> QED
        BY <2>1, <2>3 DEF Singly
<1>7a. ASSUME connect \/ addService
       PROVE  Singly'
    <2>1. PICK type \in {"BLE_CENTRAL", "BLE_PERIPHERAL"} : RegisterAndGoOn(type)
        BY <1>7a, Connecting
    <2>2. running /\ UNCHANGED flags /\ calls = <<>>
        BY <1>7a, <1>b, <2>1 DEF connect, addService, RegisterAndGoOn, UserCall
    <2>3. CASE Send(<<>>, "other", None, None, 0) /\ UNCHANGED table
        <3>1. SinglyIn(calls', table', flags)
            BY <1>0, <1>b, <2>2, <2>3, SinglySend DEF Requests, RegisteringRequests
        <3> QED
            BY <2>2, <3>1 DEF Singly
    <2>4. CASE type \notin flags /\ registerBleInterrupt(<<>>, type, None, handlers)
        <3>1. SinglyIn(calls', table', flags)
            BY <1>b, <2>2, <2>4, SinglyBle DEF BleTypes
        <3> QED
            BY <2>2, <3>1 DEF Singly
    <2> QED
        BY <2>1, <2>2, <2>3, <2>4 DEF RegisterAndGoOn
<1>8. ASSUME scan
      PROVE  Singly'
    <2>1. running /\ UNCHANGED flags /\ Scan(calls)
        BY <1>8 DEF scan, UserCall
    <2>2. SinglyIn(calls', table', flags)
        BY <1>b, <2>1, SinglyScan
    <2> QED
        BY <2>1, <2>2 DEF Singly
<1>9. ASSUME filterResumes
      PROVE  Singly'
    <2>1. Resumes("filter") /\ UNCHANGED flags /\ Scan(Outer)
        BY <1>9 DEF filterResumes
    <2>2. SinglyIn(calls', table', flags)
        BY <1>c, <2>1, SinglyScan
    <2> QED
        BY <2>1, <2>2 DEF Singly
<1>10. ASSUME \/ attachInterruptResumes \/ listenResumes \/ otherResumes
              \/ MessageBeginResumes \/ subscribeResumes \/ BleBeginResumes
              \/ startResumes \/ stopResumes
       PROVE  Singly'
    <2>1. /\ Returns(Outer) /\ UNCHANGED table /\ flags \subseteq flags'
          /\ \E request \in Requests : Resumes(request) /\ request # "registerBle"
        BY <1>10
        DEF attachInterruptResumes, listenResumes, otherResumes, local, MessageBeginResumes,
            subscribeResumes, BleBeginResumes, startResumes, stopResumes, Requests
    <2>2. Outer = <<>> /\ Single(table, flags)
        BY <1>c, <2>1
    <2>3. Single(table', flags')
        BY <2>1, <2>2 DEF Single
    <2> QED
        BY <2>1, <2>2, <2>3, SinglyReturn DEF Singly
<1>11. ASSUME registerBleResumes
       PROVE  Singly'
    <2> DEFINE c == Innermost
    <2>1. /\ c.arg \in BleTypes /\ c.event \in EventTypes \cup {None}
          /\ c.ack \in {"SUCCESS", "ERROR"} /\ ~running
        BY <1>11, InnermostHolds DEF registerBleResumes, Fits, Pending
    <2>2. Outer = <<>> /\ DOMAIN calls = {1} /\ c = calls[1] /\ c.request = "registerBle"
        BY <1>11, <2>1, OneCall DEF registerBleResumes
    <2> HIDE DEF c
    <2>3. AskedIn(calls) = {c.arg}
        BY <2>2 DEF AskedIn
    <2>4. Single(table, flags \cup {c.arg}) /\ c.arg \notin flags
        BY <2>3 DEF Singly, SinglyIn
    <2>5. CASE c.ack = "ERROR"
        <3>1. /\ table' = removeInterruptRegistration(table, c.arg)
              /\ Returns(<<>>) /\ UNCHANGED flags
            BY <1>11, <2>2, <2>5 DEF registerBleResumes, c
        <3>2. Single(table', flags')
            BY <1>0, <2>1, <2>4, <3>1, SingleTakeBack
        <3> QED
            BY <3>1, <3>2, SinglyReturn DEF Singly
    <2>6. CASE c.ack = "SUCCESS" /\ c.event = None
        <3>1. GoesOn(c.arg) /\ flags' = flags \cup {c.arg}
            BY <1>11, <2>6 DEF registerBleResumes, c
        <3>2. PICK request \in {"start", "other"} :
                  Send(<<>>, request, None, None, 0) /\ UNCHANGED table
            BY <2>2, <3>1, GoingOn
        <3>3. SinglyIn(calls', table', flags')
            BY <1>0, <2>4, <3>1, <3>2, SinglySend DEF Requests, RegisteringRequests
        <3> QED
            BY <3>3 DEF Singly
    <2>7. CASE c.ack = "SUCCESS" /\ c.event # None
        <3> DEFINE types == TypesAfter(c.arg, c.event)
        <3>1. RegisterMissing(<<>>, types, c.event, handlers) /\ flags' = flags \cup {c.arg}
            BY <1>11, <2>2, <2>7 DEF registerBleResumes, c
        <3>2. types \in TypeLists
            BY ListsOfTypes
        <3>0. \A i \in DOMAIN types : types[i] \in flags' => types[i] \in flags
            <4>1. CASE c.arg = "BLE_CENTRAL" /\ c.event \in DeviceEvents
                <5>1. types = <<"BLE_PERIPHERAL">>
                    BY <4>1 DEF TypesAfter
                <5> QED
                    BY <3>1, <4>1, <5>1
            <4>2. CASE ~(c.arg = "BLE_CENTRAL" /\ c.event \in DeviceEvents)
                <5>1. types = <<>>
                    BY <4>2 DEF TypesAfter
                <5> QED
                    BY <5>1
            <4> QED
                BY <4>1, <4>2
        <3> HIDE DEF types
        <3>3. SinglyIn(calls', table', flags')
            BY <2>1, <2>4, <3>0, <3>1, <3>2, SinglyMissing
        <3> QED
            BY <3>3 DEF Singly
    <2> QED
        BY <2>1, <2>5, <2>6, <2>7
<1>12. ~Interrupt /\ ~HandlerReturns /\ ~BleEnd
    <2>1. Len(calls) \in Nat /\ (Len(calls) = 0 => calls = <<>>)
        BY WhatIsThere, OuterOf
    <2> QED
        BY <2>1 DEF Interrupt, HandlerReturns, BleEnd, UserCall, Unnested
<1> QED
    BY <1>1, <1>2, <1>3, <1>4, <1>5, <1>6, <1>7, <1>7a, <1>8, <1>9, <1>10, <1>11, <1>12
    DEF Next, Calls, Resumptions

(* A BLE type takes one slot of the table, whatever was refused and tried  *)
(* again, as long as no interrupt handler runs while a call waits and      *)
(* BLE.end, which forgets what is registered, is not called.               *)
THEOREM OneSlot ==
    ASSUME MaxNesting = 0, "BLE.end" \notin UserCalls
    PROVE  Spec => []OneSlotPerBleType
<1> DEFINE Inv == Typed /\ Unnested /\ Singly
<1>1. Init => Inv
    <2> SUFFICES ASSUME Init PROVE Inv
        OBVIOUS
    <2>1. AskedIn(calls) = {} /\ \A k \in BleTypes : Holding(table, k) = {}
        BY NoneIsNoBleType DEF Init, AskedIn, Holding
    <2>2. Singly
        BY <2>1 DEF Singly, SinglyIn, Single
    <2> QED
        BY <2>2, TypesInit, UnnestedInit
<1>2. Inv /\ [Next]_vars => Inv'
    BY TypesStep, UnnestedStep, SinglyStep
<1>3. Inv => OneSlotPerBleType
    <2> SUFFICES ASSUME Inv, NEW t \in BleTypes
                 PROVE  Cardinality(Holding(table, t)) <= 1
        BY DEF OneSlotPerBleType, Typed
    <2>1. IsFiniteSet(Holding(table, t))
        BY TablesHold, HoldingFinite
    <2>2. \A i, j \in Holding(table, t) : i = j
        BY DEF Singly, SinglyIn, Single
    <2> QED
        BY <2>1, <2>2, AtMostOne
<1> HIDE DEF Inv
<1> QED
    BY <1>1, <1>2, <1>3, PTL DEF Spec
==============================================================================
