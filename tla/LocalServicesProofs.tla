-------------------------- MODULE LocalServicesProofs --------------------------
(***************************************************************************)
(* Proofs about LocalServices, for any services, characteristics, sizes of *)
(* the tables and number of attempts to add a service.                     *)
(***************************************************************************)
EXTENDS LocalServices, TLAPS

Of(s) == service[s].characteristics

(* Types; a call that sends characteristics has a handle for its service;  *)
(* and each call that is at work may still write in the table.             *)
Typed ==
    /\ TypeOK
    /\ \A i \in DOMAIN adding : adding[i].sent # Unknown => service[adding[i].service].handle # 0
    /\ adding # <<>> => Len(localServices) + Len(adding) < MAX_LOCAL_SERVICES + MaxAdding

(* A handle of a characteristic was given to it, services have handles of  *)
(* their own, a service is being added once, and a characteristic is in    *)
(* one service, once.                                                      *)
Placed ==
    /\ \A c \in LocalCharacteristics :
          characteristic[c].handle # 0 =>
             /\ characteristic[c].handle \in DOMAIN gatt
             /\ gatt[characteristic[c].handle].of = c
    /\ \A s, t \in Services :
          service[s].handle = service[t].handle /\ service[s].handle # 0 => s = t
    /\ \A s \in Services : service[s].handle <= handles
    /\ \A h \in DOMAIN gatt : gatt[h].service <= handles
    /\ \A i, j \in DOMAIN adding : adding[i].service = adding[j].service => i = j
    /\ \A s, t \in Services : \A i \in DOMAIN Of(s), j \in DOMAIN Of(t) :
          Of(s)[i] = Of(t)[j] => s = t /\ i = j

(* What bluenet has of the last attempt to add a service leads to the      *)
(* object it stands for, and the microapp is told nothing of it before the *)
(* service is in use.                                                      *)
LeadsTo(h, s) ==
    /\ gatt[h].of \in ToSet(Of(s))
    /\ characteristic[gatt[h].of].handle = h
    /\ \A i \in DOMAIN adding : adding[i].service = s /\ adding[i].sent # Unknown =>
          \E j \in DOMAIN Of(s) : j <= adding[i].sent /\ gatt[h].of = Of(s)[j]
    /\ s \notin ToSet(localServices) => gatt[h].wrote = Unknown /\ gatt[h].subscribed = None

Reached ==
    \A h \in DOMAIN gatt, s \in Services :
        gatt[h].service = service[s].handle => LeadsTo(h, s)

(* The object says what the other device did.                              *)
Agrees(h) ==
    /\ gatt[h].wrote \in {Unknown, characteristic[gatt[h].of].length}
    /\ gatt[h].subscribed \in {None, IF characteristic[gatt[h].of].subscribed THEN "yes" ELSE "no"}

Noticed == \A h \in DOMAIN gatt : InUse(h) => Agrees(h)

------------------------------------------------------------------------------
(* Sequences and records.                                                  *)

LEMMA AppendTo ==
    ASSUME NEW T, NEW s \in Seq(T), NEW e \in T
    PROVE  /\ Append(s, e) \in Seq(T)
           /\ Len(Append(s, e)) = Len(s) + 1
           /\ DOMAIN Append(s, e) = 1 .. Len(s) + 1
           /\ \A i \in 1 .. Len(s) : Append(s, e)[i] = s[i]
           /\ Append(s, e)[Len(s) + 1] = e
OBVIOUS

LEMMA AppendedMember ==
    ASSUME NEW T, NEW s \in Seq(T), NEW e \in T
    PROVE  ToSet(Append(s, e)) = ToSet(s) \cup {e}
<1>1. \A f : f \in ToSet(Append(s, e)) <=> \E i \in 1 .. Len(s) + 1 : f = Append(s, e)[i]
    BY AppendTo DEF ToSet
<1>2. \A f : f \in ToSet(s) <=> \E i \in 1 .. Len(s) : f = s[i]
    BY DEF ToSet
<1>3. \A i \in 1 .. Len(s) + 1 : i \in 1 .. Len(s) \/ i = Len(s) + 1
    OBVIOUS
<1> QED
    BY <1>1, <1>2, <1>3, AppendTo

LEMMA SizesAreNatural ==
    /\ MAX_LOCAL_SERVICES \in Nat
    /\ MAX_CHARACTERISTICS_PER_SERVICE \in Nat
    /\ ValueSize \in Nat
    /\ MaxHandles \in Nat
    /\ MaxAdding \in Nat
    BY LocalServicesAssumption

LEMMA AllButLast ==
    ASSUME NEW T, NEW s \in Seq(T), s # <<>>
    PROVE  LET o == SubSeq(s, 1, Len(s) - 1) IN
           /\ o \in Seq(T)
           /\ Len(o) = Len(s) - 1
           /\ DOMAIN o = 1 .. Len(s) - 1
           /\ \A i \in 1 .. Len(s) - 1 : o[i] = s[i]
           /\ Len(s) \in DOMAIN s /\ Len(s) \in Nat \ {0}
           /\ \A i \in DOMAIN s : i = Len(s) \/ i \in 1 .. Len(s) - 1
<1>1. Len(s) \in Nat \ {0} /\ DOMAIN s = 1 .. Len(s)
    OBVIOUS
<1>2. \A i \in 1 .. Len(s) - 1 : s[i] \in T
    BY <1>1
<1> QED
    BY <1>1, <1>2

(* What the types say of the parts of the state.                           *)
LEMMA PartsTyped ==
    ASSUME TypeOK
    PROVE  /\ \A s \in Services : /\ service[s].handle \in 0 .. MaxHandles
                                  /\ service[s].handle \in Nat
                                  /\ Of(s) \in Seq(LocalCharacteristics)
                                  /\ DOMAIN Of(s) = 1 .. Len(Of(s)) /\ Len(Of(s)) \in Nat
           /\ \A c \in LocalCharacteristics :
                 /\ characteristic[c] \in LocalCharacteristic
                 /\ characteristic[c].handle \in Nat /\ characteristic[c].length \in Lengths
                 /\ characteristic[c].subscribed \in BOOLEAN
           /\ DOMAIN gatt = 1 .. Len(gatt) /\ Len(gatt) \in Nat
           /\ \A h \in DOMAIN gatt :
                 /\ gatt[h] \in Attribute
                 /\ gatt[h].of \in LocalCharacteristics
                 /\ gatt[h].service \in 1 .. MaxHandles /\ gatt[h].service # 0
                 /\ gatt[h].service \in Nat
           /\ ToSet(localServices) \subseteq Services
           /\ handles \in Nat
           /\ localServices \in Seq(Services) /\ Len(localServices) \in Nat
           /\ adding \in Seq(Adding) /\ Len(adding) \in Nat /\ DOMAIN adding = 1 .. Len(adding)
           /\ \A i \in DOMAIN adding : adding[i] \in Adding /\ adding[i].service \in Services
<1>1. ASSUME NEW s \in Services
      PROVE  /\ service[s].handle \in 0 .. MaxHandles
             /\ service[s].handle \in Nat
             /\ Of(s) \in Seq(LocalCharacteristics)
             /\ DOMAIN Of(s) = 1 .. Len(Of(s)) /\ Len(Of(s)) \in Nat
    <2>1. service[s] \in [characteristics : Seq(LocalCharacteristics), handle : 0 .. MaxHandles]
        BY DEF TypeOK
    <2>2. service[s].handle \in 0 .. MaxHandles /\ Of(s) \in Seq(LocalCharacteristics)
        BY <2>1 DEF Of
    <2> QED
        BY <2>2, SizesAreNatural
<1>2. ASSUME NEW c \in LocalCharacteristics
      PROVE  /\ characteristic[c] \in LocalCharacteristic
             /\ characteristic[c].handle \in Nat /\ characteristic[c].length \in Lengths
             /\ characteristic[c].subscribed \in BOOLEAN
    <2>1. characteristic[c] \in LocalCharacteristic
        BY DEF TypeOK
    <2> QED
        BY <2>1, SizesAreNatural DEF LocalCharacteristic
<1>3. gatt \in Seq(Attribute)
    BY DEF TypeOK
<1>4. DOMAIN gatt = 1 .. Len(gatt) /\ Len(gatt) \in Nat
    BY <1>3
<1>5. ASSUME NEW h \in DOMAIN gatt
      PROVE  /\ gatt[h] \in Attribute
             /\ gatt[h].of \in LocalCharacteristics
             /\ gatt[h].service \in 1 .. MaxHandles /\ gatt[h].service # 0
             /\ gatt[h].service \in Nat
    <2>1. gatt[h] \in Attribute
        BY <1>3
    <2> QED
        BY <2>1, SizesAreNatural DEF Attribute
<1>6. ToSet(localServices) \subseteq Services
    BY DEF TypeOK, ToSet
<1>7. handles \in Nat /\ localServices \in Seq(Services) /\ Len(localServices) \in Nat
    BY SizesAreNatural DEF TypeOK
<1>8. adding \in Seq(Adding) /\ Len(adding) \in Nat /\ DOMAIN adding = 1 .. Len(adding)
    BY DEF TypeOK
<1>9. ASSUME NEW i \in DOMAIN adding
      PROVE  adding[i] \in Adding /\ adding[i].service \in Services
    <2>1. adding[i] \in Adding
        BY <1>8
    <2> QED
        BY <2>1 DEF Adding
<1> QED
    BY <1>1, <1>2, <1>4, <1>5, <1>6, <1>7, <1>8, <1>9

(* The calls that are at work, and what becomes of them.                   *)
LEMMA InnermostIs ==
    ASSUME TypeOK, adding # <<>>
    PROVE  /\ Len(adding) \in DOMAIN adding /\ Len(adding) \in Nat \ {0}
           /\ Innermost = adding[Len(adding)]
           /\ Innermost \in Adding /\ Innermost.service \in Services
           /\ Innermost.sent # Unknown => Innermost.sent \in Nat
<1>1. adding \in Seq(Adding)
    BY DEF TypeOK
<1>2. Len(adding) \in DOMAIN adding /\ Len(adding) \in Nat \ {0}
    BY <1>1, AllButLast
<1>3. Innermost \in Adding
    BY <1>1, <1>2 DEF Innermost
<1> QED
    BY <1>2, <1>3 DEF Innermost, Adding

LEMMA ReturnIs ==
    ASSUME TypeOK, adding # <<>>, adding' = Outer
    PROVE  /\ adding' \in Seq(Adding)
           /\ Len(adding') = Len(adding) - 1
           /\ \A i \in DOMAIN adding' :
                 i \in DOMAIN adding /\ i # Len(adding) /\ adding'[i] = adding[i]
<1>1. adding \in Seq(Adding)
    BY DEF TypeOK
<1> QED
    BY <1>1, AllButLast DEF Outer

LEMMA SentIs ==
    ASSUME TypeOK, adding # <<>>, NEW n \in Nat, Sent(n)
    PROVE  /\ adding' \in Seq(Adding)
           /\ Len(adding') = Len(adding) /\ DOMAIN adding' = DOMAIN adding
           /\ \A i \in DOMAIN adding : /\ adding'[i].service = adding[i].service
                                       /\ i # Len(adding) => adding'[i] = adding[i]
           /\ adding'[Len(adding)] = [service |-> Innermost.service, sent |-> n]
<1> DEFINE c == [service |-> Innermost.service, sent |-> n]
<1>1. adding \in Seq(Adding) /\ c \in Adding /\ c.service = adding[Len(adding)].service
    BY InnermostIs DEF TypeOK, Adding
<1>2. adding' = Append(Outer, c)
    BY DEF Sent
<1> HIDE DEF c
<1>3. /\ Outer \in Seq(Adding) /\ Len(Outer) = Len(adding) - 1
      /\ \A i \in 1 .. Len(adding) - 1 : Outer[i] = adding[i]
      /\ Len(adding) \in Nat \ {0} /\ DOMAIN adding = 1 .. Len(adding)
      /\ \A i \in DOMAIN adding : i = Len(adding) \/ i \in 1 .. Len(adding) - 1
    BY <1>1, AllButLast DEF Outer
<1>4. /\ adding' \in Seq(Adding) /\ Len(adding') = Len(adding)
      /\ DOMAIN adding' = DOMAIN adding
      /\ \A i \in 1 .. Len(adding) - 1 : adding'[i] = adding[i]
      /\ adding'[Len(adding)] = c
    BY <1>1, <1>2, <1>3, AppendTo
<1> QED
    BY <1>1, <1>3, <1>4 DEF c

(* An entry of bluenet is told of by at most one service.                  *)
LEMMA InUseIs ==
    ASSUME TypeOK, Placed, NEW h \in DOMAIN gatt, NEW s \in Services,
           gatt[h].service = service[s].handle
    PROVE  InUse(h) <=> s \in ToSet(localServices)
BY PartsTyped DEF Placed, InUse

(* Entries of bluenet change in what the other device did only, and in     *)
(* something only if the service is in use, or it is forgotten.            *)
Used ==
    /\ UNCHANGED <<service, localServices, adding, handles>>
    /\ gatt' \in Seq(Attribute) /\ Len(gatt') = Len(gatt)
    /\ \A h \in DOMAIN gatt :
          /\ gatt'[h].of = gatt[h].of /\ gatt'[h].service = gatt[h].service
          /\ gatt'[h].wrote \in {gatt[h].wrote, Unknown} \/ InUse(h)
          /\ gatt'[h].subscribed \in {gatt[h].subscribed, None} \/ InUse(h)
    /\ characteristic' \in [LocalCharacteristics -> LocalCharacteristic]
    /\ \A c \in LocalCharacteristics : characteristic'[c].handle = characteristic[c].handle

LEMMA UsedKeeps ==
    ASSUME TypeOK, Placed, Reached, Used
    PROVE  Placed' /\ Reached'
<1>1. DOMAIN gatt' = DOMAIN gatt
    BY PartsTyped DEF Used
<1>3. Placed'
    BY <1>1 DEF Placed, Used, Of
<1>4. ASSUME NEW h \in DOMAIN gatt', NEW s \in Services, gatt'[h].service = service'[s].handle
      PROVE  LeadsTo(h, s)'
    <2>1. h \in DOMAIN gatt /\ gatt[h].service = service[s].handle
        BY <1>1, <1>4 DEF Used
    <2>2. LeadsTo(h, s)
        BY <2>1 DEF Reached
    <2>3. gatt[h].of \in LocalCharacteristics
        BY <2>1, PartsTyped
    <2>4. s \notin ToSet(localServices) => ~InUse(h)
        BY <2>1, InUseIs
    <2> QED
        BY <2>1, <2>2, <2>3, <2>4 DEF LeadsTo, Used, Of
<1> QED
    BY <1>3, <1>4 DEF Reached

------------------------------------------------------------------------------
(* Uses of what there is, by the user and by the other device.             *)

(* The user writes a value of his own: what the other device wrote is      *)
(* not there any more.                                                     *)
LEMMA WriteIs ==
    ASSUME TypeOK, Placed, Reached, Noticed,
           NEW c \in LocalCharacteristics, NEW n \in Lengths, writeValueLocal(c, n)
    PROVE  Used /\ Noticed'
<1> DEFINE e(h) == IF gatt[h].of = c THEN [gatt[h] EXCEPT !.wrote = Unknown] ELSE gatt[h]
<1>1. /\ characteristic' = [characteristic EXCEPT ![c].length = n]
      /\ gatt' = [h \in DOMAIN gatt |-> e(h)]
      /\ UNCHANGED <<service, localServices, adding, handles>>
    BY DEF writeValueLocal
<1>2. ASSUME NEW h \in DOMAIN gatt
      PROVE  /\ e(h) \in Attribute
             /\ e(h).of = gatt[h].of /\ e(h).service = gatt[h].service
             /\ e(h).subscribed = gatt[h].subscribed
             /\ e(h).wrote \in {gatt[h].wrote, Unknown}
             /\ gatt[h].of = c => e(h).wrote = Unknown
    <2>1. gatt[h] \in Attribute
        BY PartsTyped
    <2> QED
        BY <2>1 DEF Attribute
<1> HIDE DEF e
<1>3. gatt' \in Seq(Attribute) /\ Len(gatt') = Len(gatt) /\ DOMAIN gatt' = DOMAIN gatt
    <2>1. DOMAIN gatt = 1 .. Len(gatt) /\ Len(gatt) \in Nat
        BY PartsTyped
    <2> QED
        BY <1>1, <1>2, <2>1
<1>4. ASSUME NEW d \in LocalCharacteristics
      PROVE  /\ characteristic'[d].handle = characteristic[d].handle
             /\ characteristic'[d].subscribed = characteristic[d].subscribed
             /\ d # c => characteristic'[d] = characteristic[d]
    <2>1. characteristic[d] \in LocalCharacteristic
        BY PartsTyped
    <2> QED
        BY <1>1, <2>1 DEF TypeOK, LocalCharacteristic
<1>5. characteristic' \in [LocalCharacteristics -> LocalCharacteristic]
    BY <1>1 DEF TypeOK, LocalCharacteristic
<1>6. Used
    BY <1>1, <1>2, <1>3, <1>4, <1>5 DEF Used
<1>7. ASSUME NEW h \in DOMAIN gatt', InUse(h)'
      PROVE  Agrees(h)'
    <2>1. h \in DOMAIN gatt /\ InUse(h)
        BY <1>1, <1>2, <1>3, <1>7 DEF InUse
    <2>2. Agrees(h) /\ gatt[h].of \in LocalCharacteristics
        BY <2>1, PartsTyped DEF Noticed
    <2>3. gatt'[h] = e(h)
        BY <1>1, <2>1
    <2> QED
        BY <1>2, <1>4, <2>1, <2>2, <2>3 DEF Agrees
<1> QED
    BY <1>6, <1>7 DEF Noticed

LEMMA WrittenIs ==
    ASSUME TypeOK, Noticed, NEW c \in LocalCharacteristics, written(c)
    PROVE  Used /\ Noticed'
<1>1. /\ characteristic' = [characteristic EXCEPT ![c].written = FALSE]
      /\ UNCHANGED <<service, localServices, adding, gatt, handles>>
    BY DEF written
<1>2. ASSUME NEW d \in LocalCharacteristics
      PROVE  /\ characteristic'[d].handle = characteristic[d].handle
             /\ characteristic'[d].length = characteristic[d].length
             /\ characteristic'[d].subscribed = characteristic[d].subscribed
    <2>1. characteristic[d] \in LocalCharacteristic
        BY PartsTyped
    <2> QED
        BY <1>1, <2>1 DEF TypeOK, LocalCharacteristic
<1>3. characteristic' \in [LocalCharacteristics -> LocalCharacteristic]
    BY <1>1 DEF TypeOK, LocalCharacteristic
<1>4. gatt \in Seq(Attribute)
    BY DEF TypeOK
<1>5. Used
    BY <1>1, <1>2, <1>3, <1>4 DEF Used
<1>6. ASSUME NEW h \in DOMAIN gatt', InUse(h)'
      PROVE  Agrees(h)'
    <2>1. h \in DOMAIN gatt /\ InUse(h)
        BY <1>1, <1>6 DEF InUse
    <2>2. Agrees(h) /\ gatt[h].of \in LocalCharacteristics
        BY <2>1, PartsTyped DEF Noticed
    <2> QED
        BY <1>1, <1>2, <2>2 DEF Agrees
<1> QED
    BY <1>5, <1>6 DEF Noticed

(* The objects that an event changes: one at most, and the right one.      *)
LEMMA HandledIs ==
    ASSUME TypeOK, Placed, Reached, NEW h \in DOMAIN gatt
    PROVE  /\ getLocalCharacteristic(h) \subseteq {gatt[h].of}
           /\ InUse(h) /\ initialized => gatt[h].of \in getLocalCharacteristic(h)
           /\ ~initialized => getLocalCharacteristic(h) = {}
           /\ \A k \in DOMAIN gatt : InUse(k) /\ k # h => gatt[k].of \notin getLocalCharacteristic(h)
<1>1. \A c \in getLocalCharacteristic(h) :
          c \in LocalCharacteristics /\ characteristic[c].handle = h
    <2>1. ASSUME NEW c \in getLocalCharacteristic(h)
          PROVE  c \in LocalCharacteristics /\ characteristic[c].handle = h
        <3>1. PICK s \in ToSet(localServices) : c \in ToSet(Of(s))
            BY <2>1 DEF getLocalCharacteristic, Of
        <3>2. s \in Services /\ Of(s) \in Seq(LocalCharacteristics)
            BY <3>1, PartsTyped
        <3>3. c \in LocalCharacteristics
            BY <3>1, <3>2 DEF ToSet
        <3> QED
            BY <2>1, <3>3 DEF getLocalCharacteristic
    <2> QED
        BY <2>1
<1>2. h # 0
    BY PartsTyped
<1>3. getLocalCharacteristic(h) \subseteq {gatt[h].of}
    BY <1>1, <1>2 DEF Placed
<1>4. ASSUME NEW k \in DOMAIN gatt, InUse(k)
      PROVE  \E s \in ToSet(localServices) :
                /\ s \in Services /\ service[s].handle = gatt[k].service /\ LeadsTo(k, s)
    <2>1. PICK s \in ToSet(localServices) : service[s].handle = gatt[k].service
        BY <1>4 DEF InUse
    <2>2. s \in Services
        BY <2>1, PartsTyped
    <2> QED
        BY <2>1, <2>2 DEF Reached
<1>5. ASSUME InUse(h), initialized
      PROVE  gatt[h].of \in getLocalCharacteristic(h)
    <2>1. PICK s \in ToSet(localServices) : LeadsTo(h, s)
        BY <1>4, <1>5
    <2> QED
        BY <1>5, <2>1 DEF LeadsTo, getLocalCharacteristic, Of
<1>6. ASSUME NEW k \in DOMAIN gatt, InUse(k), k # h
      PROVE  gatt[k].of \notin getLocalCharacteristic(h)
    <2>1. characteristic[gatt[k].of].handle = k
        BY <1>4, <1>6 DEF LeadsTo
    <2> QED
        BY <1>1, <1>6, <2>1
<1> QED
    BY <1>3, <1>5, <1>6 DEF getLocalCharacteristic

(* What the other device does changes one entry of bluenet; the objects of *)
(* the other ones in use stay as they are.                                 *)
LEMMA EntryChanges ==
    ASSUME TypeOK, Noticed, NEW h \in DOMAIN gatt, NEW a \in Attribute,
           UNCHANGED <<service, localServices, adding, handles>>,
           gatt' = [gatt EXCEPT ![h] = a],
           a.of = gatt[h].of, a.service = gatt[h].service,
           a.wrote \in {gatt[h].wrote, Unknown} \/ InUse(h),
           a.subscribed \in {gatt[h].subscribed, None} \/ InUse(h),
           characteristic' \in [LocalCharacteristics -> LocalCharacteristic],
           \A c \in LocalCharacteristics : characteristic'[c].handle = characteristic[c].handle,
           \A k \in DOMAIN gatt :
              InUse(k) /\ k # h => characteristic'[gatt[k].of] = characteristic[gatt[k].of],
           InUse(h) =>
              /\ a.wrote \in {Unknown, characteristic'[gatt[h].of].length}
              /\ a.subscribed \in
                    {None, IF characteristic'[gatt[h].of].subscribed THEN "yes" ELSE "no"}
    PROVE  Used /\ Noticed'
<1>1. gatt' \in Seq(Attribute) /\ Len(gatt') = Len(gatt) /\ DOMAIN gatt' = DOMAIN gatt
    BY DEF TypeOK
<1>2. gatt'[h] = a /\ \A k \in DOMAIN gatt : k # h => gatt'[k] = gatt[k]
    BY DEF TypeOK
<1>3. Used
    BY <1>1, <1>2 DEF Used
<1>4. ASSUME NEW k \in DOMAIN gatt', InUse(k)'
      PROVE  Agrees(k)'
    <2>1. k \in DOMAIN gatt /\ InUse(k)
        BY <1>1, <1>2, <1>4 DEF InUse
    <2>2. CASE k = h
        BY <1>2, <2>1, <2>2 DEF Agrees
    <2>3. CASE k # h
        BY <1>2, <2>1, <2>3 DEF Agrees, Noticed
    <2> QED
        BY <2>2, <2>3
<1> QED
    BY <1>3, <1>4 DEF Noticed

LEMMA RemoteWriteIs ==
    ASSUME TypeOK, Placed, Reached, Noticed,
           NEW h \in DOMAIN gatt, NEW n \in Lengths, onLocalWritten(h, n)
    PROVE  Used /\ Noticed'
<1>1. UNCHANGED <<service, localServices, adding, handles>>
    BY DEF onLocalWritten
<1>2. /\ gatt[h] \in Attribute /\ gatt[h].of \in LocalCharacteristics
      /\ \A k \in DOMAIN gatt : gatt[k].of \in LocalCharacteristics
    BY PartsTyped
<1> DEFINE a(w) == [gatt[h] EXCEPT !.wrote = w]
<1>3. ASSUME NEW w \in Lengths \cup {Unknown}
      PROVE  /\ a(w) \in Attribute
             /\ a(w).of = gatt[h].of /\ a(w).service = gatt[h].service
             /\ a(w).subscribed = gatt[h].subscribed /\ a(w).wrote = w
    BY <1>2 DEF Attribute
<1>4. InUse(h) => gatt[h].subscribed \in
                     {None, IF characteristic[gatt[h].of].subscribed THEN "yes" ELSE "no"}
    BY DEF Noticed, Agrees
<1>5. CASE /\ gatt' = [gatt EXCEPT ![h].wrote = IF InUse(h) /\ Told THEN n ELSE Unknown]
           /\ Handled(h, [c \in LocalCharacteristics |->
                            [characteristic[c] EXCEPT !.length = n, !.written = TRUE]])
    <2> DEFINE w == IF InUse(h) /\ initialized THEN n ELSE Unknown
               b(c) == [characteristic[c] EXCEPT !.length = n, !.written = TRUE]
    <2>1. gatt' = [gatt EXCEPT ![h] = a(w)] /\ w \in Lengths \cup {Unknown}
        BY <1>5 DEF Told
    <2>2. characteristic' = [c \in LocalCharacteristics |->
             IF c \in getLocalCharacteristic(h) THEN b(c) ELSE characteristic[c]]
        BY <1>5 DEF Handled
    <2>3. ASSUME NEW c \in LocalCharacteristics
          PROVE  /\ characteristic[c] \in LocalCharacteristic
                 /\ b(c) \in LocalCharacteristic
                 /\ b(c).handle = characteristic[c].handle
                 /\ b(c).subscribed = characteristic[c].subscribed
                 /\ b(c).length = n
        BY PartsTyped DEF LocalCharacteristic
    <2>w. (InUse(h) /\ initialized => w = n) /\ (~(InUse(h) /\ initialized) => w = Unknown)
        OBVIOUS
    <2> HIDE DEF a, b, w
    <2>4. characteristic' \in [LocalCharacteristics -> LocalCharacteristic]
        BY <2>2, <2>3
    <2>5. \A c \in LocalCharacteristics : /\ characteristic'[c].handle = characteristic[c].handle
                                          /\ characteristic'[c].subscribed = characteristic[c].subscribed
        BY <2>2, <2>3
    <2>6. \A k \in DOMAIN gatt :
              InUse(k) /\ k # h => characteristic'[gatt[k].of] = characteristic[gatt[k].of]
        BY <1>2, <2>2, HandledIs
    <2>7. InUse(h) => w \in {Unknown, characteristic'[gatt[h].of].length}
        BY <1>2, <2>2, <2>3, <2>w, HandledIs
    <2>8. w \in {gatt[h].wrote, Unknown} \/ InUse(h)
        BY <2>w
    <2> QED
        BY <1>1, <1>2, <1>3, <1>4, <2>1, <2>4, <2>5, <2>6, <2>7, <2>8, EntryChanges
<1>6. CASE gatt' = [gatt EXCEPT ![h].wrote = Unknown] /\ UNCHANGED characteristic
    <2>1. gatt' = [gatt EXCEPT ![h] = a(Unknown)]
        BY <1>6
    <2>2. characteristic' \in [LocalCharacteristics -> LocalCharacteristic]
        BY <1>6 DEF TypeOK
    <2> DEFINE e == a(Unknown)
    <2>3. /\ e \in Attribute
          /\ e.of = gatt[h].of /\ e.service = gatt[h].service
          /\ e.subscribed = gatt[h].subscribed /\ e.wrote = Unknown
        <3> HIDE DEF a
        <3> QED
            BY <1>3
    <2>4. gatt' = [gatt EXCEPT ![h] = e]
        BY <2>1
    <2> HIDE DEF a, e
    <2> QED
        BY <1>1, <1>2, <1>4, <1>6, <2>2, <2>3, <2>4, EntryChanges
<1> QED
    BY <1>5, <1>6 DEF onLocalWritten

LEMMA SubscribesIs ==
    ASSUME TypeOK, Placed, Reached, Noticed,
           NEW h \in DOMAIN gatt, NEW y \in {"yes", "no"}, Subscribes(h, y)
    PROVE  Used /\ Noticed'
<1>1. UNCHANGED <<service, localServices, adding, handles>>
    BY DEF Subscribes
<1>2. /\ gatt[h] \in Attribute /\ gatt[h].of \in LocalCharacteristics
      /\ \A k \in DOMAIN gatt : gatt[k].of \in LocalCharacteristics
    BY PartsTyped
<1> DEFINE a(w) == [gatt[h] EXCEPT !.subscribed = w]
<1>3. ASSUME NEW w \in {"yes", "no", None}
      PROVE  /\ a(w) \in Attribute
             /\ a(w).of = gatt[h].of /\ a(w).service = gatt[h].service
             /\ a(w).wrote = gatt[h].wrote /\ a(w).subscribed = w
    BY <1>2 DEF Attribute
<1>4. InUse(h) => gatt[h].wrote \in {Unknown, characteristic[gatt[h].of].length}
    BY DEF Noticed, Agrees
<1>5. CASE /\ gatt' = [gatt EXCEPT ![h].subscribed = IF InUse(h) /\ Told THEN y ELSE None]
           /\ Handled(h, [c \in LocalCharacteristics |->
                            [characteristic[c] EXCEPT !.subscribed = (y = "yes")]])
    <2> DEFINE w == IF InUse(h) /\ initialized THEN y ELSE None
               on == (y = "yes")
               b(c) == [characteristic[c] EXCEPT !.subscribed = on]
    <2>1. gatt' = [gatt EXCEPT ![h] = a(w)] /\ w \in {"yes", "no", None}
        BY <1>5 DEF Told
    <2>2. characteristic' = [c \in LocalCharacteristics |->
             IF c \in getLocalCharacteristic(h) THEN b(c) ELSE characteristic[c]]
        BY <1>5 DEF Handled
    <2>o. on \in BOOLEAN /\ y = IF on THEN "yes" ELSE "no"
        OBVIOUS
    <2> HIDE DEF on
    <2>3. ASSUME NEW c \in LocalCharacteristics
          PROVE  /\ characteristic[c] \in LocalCharacteristic
                 /\ b(c) \in LocalCharacteristic
                 /\ b(c).handle = characteristic[c].handle
                 /\ b(c).length = characteristic[c].length
                 /\ b(c).subscribed = on
        BY <2>o, PartsTyped DEF LocalCharacteristic
    <2>w. (InUse(h) /\ initialized => w = y) /\ (~(InUse(h) /\ initialized) => w = None)
        OBVIOUS
    <2> HIDE DEF a, b, w
    <2>4. characteristic' \in [LocalCharacteristics -> LocalCharacteristic]
        BY <2>2, <2>3
    <2>5. \A c \in LocalCharacteristics : /\ characteristic'[c].handle = characteristic[c].handle
                                          /\ characteristic'[c].length = characteristic[c].length
        BY <2>2, <2>3
    <2>6. \A k \in DOMAIN gatt :
              InUse(k) /\ k # h => characteristic'[gatt[k].of] = characteristic[gatt[k].of]
        BY <1>2, <2>2, HandledIs
    <2>7. InUse(h) => w \in {None, IF characteristic'[gatt[h].of].subscribed THEN "yes" ELSE "no"}
        <3>1. CASE initialized /\ InUse(h)
            <4>1. characteristic'[gatt[h].of] = b(gatt[h].of)
                BY <1>2, <2>2, <3>1, HandledIs
            <4> QED
                BY <1>2, <2>3, <2>o, <2>w, <3>1, <4>1
        <3>2. CASE ~(initialized /\ InUse(h))
            BY <2>w, <3>2
        <3> QED
            BY <3>1, <3>2
    <2>8. w \in {gatt[h].subscribed, None} \/ InUse(h)
        BY <2>w
    <2> QED
        BY <1>1, <1>2, <1>3, <1>4, <2>1, <2>4, <2>5, <2>6, <2>7, <2>8, EntryChanges
<1>6. CASE gatt' = [gatt EXCEPT ![h].subscribed = None] /\ UNCHANGED characteristic
    <2>1. gatt' = [gatt EXCEPT ![h] = a(None)]
        BY <1>6
    <2>2. characteristic' \in [LocalCharacteristics -> LocalCharacteristic]
        BY <1>6 DEF TypeOK
    <2> HIDE DEF a
    <2> QED
        BY <1>1, <1>2, <1>3, <1>4, <1>6, <2>1, <2>2, EntryChanges
<1> QED
    BY <1>5, <1>6 DEF Subscribes

(* Nothing but whether Ble began changes.                                  *)
LEMMA SameIs ==
    ASSUME TypeOK, Noticed,
           UNCHANGED <<service, characteristic, localServices, adding, gatt, handles>>
    PROVE  Used /\ Noticed'
<1>1. Used
    BY DEF Used, TypeOK
<1>2. Noticed'
    BY DEF Noticed, Agrees, InUse
<1> QED
    BY <1>1, <1>2

------------------------------------------------------------------------------
(* Types, whatever the user does.                                          *)

LEMMA TypedSame ==
    ASSUME Typed, UNCHANGED <<service, localServices, adding, handles>>,
           initialized' \in BOOLEAN,
           gatt' \in Seq(Attribute), Len(gatt') = Len(gatt),
           characteristic' \in [LocalCharacteristics -> LocalCharacteristic]
    PROVE  Typed'
BY DEF Typed, TypeOK

LEMMA TypedCharacteristic ==
    ASSUME TypeOK, NEW c \in LocalCharacteristics
    PROVE  /\ \A n \in Lengths, w \in BOOLEAN :
                 [characteristic[c] EXCEPT !.length = n, !.written = w] \in LocalCharacteristic
           /\ \A n \in Lengths : [characteristic[c] EXCEPT !.length = n] \in LocalCharacteristic
           /\ \A w \in BOOLEAN : [characteristic[c] EXCEPT !.written = w] \in LocalCharacteristic
           /\ \A b \in BOOLEAN : [characteristic[c] EXCEPT !.subscribed = b] \in LocalCharacteristic
           /\ \A h \in 0 .. MaxHandles :
                 [characteristic[c] EXCEPT !.handle = h] \in LocalCharacteristic
<1>1. characteristic[c] \in LocalCharacteristic
    BY PartsTyped
<1> QED
    BY <1>1 DEF LocalCharacteristic

LEMMA TypedAttribute ==
    ASSUME TypeOK, NEW h \in DOMAIN gatt
    PROVE  /\ \A w \in Lengths \cup {Unknown} : [gatt[h] EXCEPT !.wrote = w] \in Attribute
           /\ \A y \in {"yes", "no", None} : [gatt[h] EXCEPT !.subscribed = y] \in Attribute
<1>1. gatt[h] \in Attribute
    BY PartsTyped
<1> QED
    BY <1>1 DEF Attribute

LEMMA TypedEntry ==
    ASSUME TypeOK, NEW h \in DOMAIN gatt, NEW a \in Attribute, gatt' = [gatt EXCEPT ![h] = a]
    PROVE  gatt' \in Seq(Attribute) /\ Len(gatt') = Len(gatt)
BY DEF TypeOK

LEMMA TypedHandled ==
    ASSUME TypeOK, NEW h, NEW changed \in [LocalCharacteristics -> LocalCharacteristic],
           Handled(h, changed)
    PROVE  characteristic' \in [LocalCharacteristics -> LocalCharacteristic]
BY DEF TypeOK, Handled

LEMMA TypedWrite ==
    ASSUME Typed, NEW c \in LocalCharacteristics, NEW n \in Lengths, writeValueLocal(c, n)
    PROVE  Typed'
<1> DEFINE e(h) == IF gatt[h].of = c THEN [gatt[h] EXCEPT !.wrote = Unknown] ELSE gatt[h]
<1>1. /\ characteristic' = [characteristic EXCEPT ![c] = [characteristic[c] EXCEPT !.length = n]]
      /\ gatt' = [h \in DOMAIN gatt |-> e(h)]
      /\ UNCHANGED <<initialized, service, localServices, adding, handles>>
    BY DEF writeValueLocal
<1>2. \A h \in DOMAIN gatt : e(h) \in Attribute
    BY PartsTyped, TypedAttribute DEF Typed
<1> HIDE DEF e
<1>3. DOMAIN gatt = 1 .. Len(gatt) /\ Len(gatt) \in Nat
    BY PartsTyped DEF Typed
<1>4. gatt' \in Seq(Attribute) /\ Len(gatt') = Len(gatt)
    BY <1>1, <1>2, <1>3
<1>5. characteristic' \in [LocalCharacteristics -> LocalCharacteristic]
    BY <1>1, TypedCharacteristic DEF Typed, TypeOK
<1> QED
    BY <1>1, <1>4, <1>5, TypedSame DEF Typed, TypeOK

LEMMA TypedWritten ==
    ASSUME Typed, NEW c \in LocalCharacteristics, written(c)
    PROVE  Typed'
<1>1. /\ characteristic' = [characteristic EXCEPT ![c] = [characteristic[c] EXCEPT !.written = FALSE]]
      /\ UNCHANGED <<initialized, service, localServices, adding, gatt, handles>>
    BY DEF written
<1>2. characteristic' \in [LocalCharacteristics -> LocalCharacteristic]
    BY <1>1, TypedCharacteristic DEF Typed, TypeOK
<1> QED
    BY <1>1, <1>2, TypedSame DEF Typed, TypeOK

LEMMA TypedRemoteWrite ==
    ASSUME Typed, NEW h \in DOMAIN gatt, NEW n \in Lengths, onLocalWritten(h, n)
    PROVE  Typed'
<1> DEFINE changed == [c \in LocalCharacteristics |->
                          [characteristic[c] EXCEPT !.length = n, !.written = TRUE]]
<1>1. UNCHANGED <<initialized, service, localServices, adding, handles>>
    BY DEF onLocalWritten
<1>2. PICK w \in Lengths \cup {Unknown} : gatt' = [gatt EXCEPT ![h] = [gatt[h] EXCEPT !.wrote = w]]
    BY DEF onLocalWritten
<1>3. gatt' \in Seq(Attribute) /\ Len(gatt') = Len(gatt)
    BY <1>2, TypedAttribute, TypedEntry DEF Typed
<1>4. changed \in [LocalCharacteristics -> LocalCharacteristic]
    BY TypedCharacteristic DEF Typed
<1>5. Handled(h, changed) \/ UNCHANGED characteristic
    BY DEF onLocalWritten
<1> HIDE DEF changed
<1>6. characteristic' \in [LocalCharacteristics -> LocalCharacteristic]
    BY <1>4, <1>5, TypedHandled DEF Typed, TypeOK
<1> QED
    BY <1>1, <1>3, <1>6, TypedSame DEF Typed, TypeOK

LEMMA TypedSubscribes ==
    ASSUME Typed, NEW h \in DOMAIN gatt, NEW y \in {"yes", "no"}, Subscribes(h, y)
    PROVE  Typed'
<1> DEFINE on == (y = "yes")
           changed == [c \in LocalCharacteristics |-> [characteristic[c] EXCEPT !.subscribed = on]]
<1>1. UNCHANGED <<initialized, service, localServices, adding, handles>>
    BY DEF Subscribes
<1>2. PICK w \in {"yes", "no", None} :
          gatt' = [gatt EXCEPT ![h] = [gatt[h] EXCEPT !.subscribed = w]]
    BY DEF Subscribes
<1>3. gatt' \in Seq(Attribute) /\ Len(gatt') = Len(gatt)
    BY <1>2, TypedAttribute, TypedEntry DEF Typed
<1>5. Handled(h, changed) \/ UNCHANGED characteristic
    BY DEF Subscribes
<1>b. on \in BOOLEAN
    OBVIOUS
<1> HIDE DEF on
<1>4. changed \in [LocalCharacteristics -> LocalCharacteristic]
    BY <1>b, TypedCharacteristic DEF Typed
<1> HIDE DEF changed
<1>6. characteristic' \in [LocalCharacteristics -> LocalCharacteristic]
    BY <1>4, <1>5, TypedHandled DEF Typed, TypeOK
<1> QED
    BY <1>1, <1>3, <1>6, TypedSame DEF Typed, TypeOK

ServiceObject == [characteristics : Seq(LocalCharacteristics), handle : 0 .. MaxHandles]

LEMMA TypedAddCharacteristic ==
    ASSUME Typed, NEW s \in Services, NEW c \in LocalCharacteristics, addCharacteristic(s, c)
    PROVE  Typed'
<1> DEFINE added == Append(Of(s), c)
           o == [service[s] EXCEPT !.characteristics = added]
<1>1. /\ Len(Of(s)) < MAX_CHARACTERISTICS_PER_SERVICE
      /\ service' = [service EXCEPT ![s] = o]
      /\ UNCHANGED <<initialized, characteristic, localServices, adding, gatt, handles>>
    BY DEF addCharacteristic, Of
<1>2. /\ service \in [Services -> ServiceObject] /\ service[s] \in ServiceObject
      /\ Of(s) \in Seq(LocalCharacteristics) /\ Len(Of(s)) \in Nat
    BY PartsTyped DEF Typed, TypeOK, ServiceObject
<1>3. added \in Seq(LocalCharacteristics) /\ Len(added) = Len(Of(s)) + 1
    BY <1>2, AppendTo
<1> HIDE DEF added
<1>4. o \in ServiceObject /\ o.characteristics = added /\ o.handle = service[s].handle
    BY <1>2, <1>3 DEF ServiceObject
<1> HIDE DEF o
<1>5. /\ service' \in [Services -> ServiceObject]
      /\ \A t \in Services : /\ service'[t].handle = service[t].handle
                             /\ t # s => service'[t] = service[t]
      /\ service'[s].characteristics = added
    BY <1>1, <1>2, <1>4
<1>6. Len(added) <= MAX_CHARACTERISTICS_PER_SERVICE
    BY <1>1, <1>2, <1>3, SizesAreNatural
<1>7. \A t \in Services : Len(service'[t].characteristics) <= MAX_CHARACTERISTICS_PER_SERVICE
    BY <1>5, <1>6 DEF Typed, TypeOK
<1>8. TypeOK'
    BY <1>1, <1>5, <1>7 DEF Typed, TypeOK, ServiceObject
<1>9. \A i \in DOMAIN adding : adding[i].service \in Services
    BY PartsTyped DEF Typed
<1> QED
    BY <1>1, <1>5, <1>8, <1>9 DEF Typed

LEMMA TypedAddService ==
    ASSUME Typed, NEW s \in Services, addService(s)
    PROVE  Typed'
<1> DEFINE e == [service |-> s, sent |-> Unknown]
<1>1. /\ Len(localServices) < MAX_LOCAL_SERVICES /\ Len(adding) < MaxAdding
      /\ adding' = Append(adding, e)
      /\ UNCHANGED <<initialized, service, characteristic, localServices, gatt, handles>>
    BY DEF addService
<1>2. e \in Adding /\ e.sent = Unknown
    BY DEF Adding
<1> HIDE DEF e
<1>3. adding \in Seq(Adding) /\ Len(adding) \in Nat /\ Len(localServices) \in Nat
    BY PartsTyped DEF Typed
<1>4. /\ adding' \in Seq(Adding) /\ Len(adding') = Len(adding) + 1
      /\ DOMAIN adding' = 1 .. Len(adding) + 1
      /\ \A i \in 1 .. Len(adding) : adding'[i] = adding[i]
      /\ adding'[Len(adding) + 1] = e
    BY <1>1, <1>2, <1>3, AppendTo
<1>5. /\ Len(adding) + 1 <= MaxAdding
      /\ Len(localServices) + (Len(adding) + 1) < MAX_LOCAL_SERVICES + MaxAdding
    BY <1>1, <1>3, SizesAreNatural
<1>6. TypeOK'
    BY <1>1, <1>4, <1>5 DEF Typed, TypeOK
<1>7. \A i \in DOMAIN adding' :
          (i \in DOMAIN adding /\ adding'[i] = adding[i]) \/ adding'[i] = e
    BY <1>3, <1>4
<1> QED
    BY <1>1, <1>2, <1>4, <1>5, <1>6, <1>7 DEF Typed

(* A call returns without anything in the table.                           *)
LEMMA TypedReturn ==
    ASSUME Typed, adding # <<>>, adding' = Outer,
           UNCHANGED <<initialized, service, characteristic, localServices, gatt, handles>>
    PROVE  Typed'
<1>1. /\ adding' \in Seq(Adding) /\ Len(adding') = Len(adding) - 1
      /\ \A i \in DOMAIN adding' : i \in DOMAIN adding /\ adding'[i] = adding[i]
    BY ReturnIs DEF Typed
<1>2. Len(adding) \in Nat /\ Len(localServices) \in Nat
    BY PartsTyped DEF Typed
<1>3. /\ Len(adding) - 1 <= MaxAdding
      /\ Len(localServices) + (Len(adding) - 1) < MAX_LOCAL_SERVICES + MaxAdding
    BY <1>2, SizesAreNatural DEF Typed, TypeOK
<1>4. TypeOK'
    BY <1>1, <1>3 DEF Typed, TypeOK
<1> QED
    BY <1>1, <1>3, <1>4 DEF Typed

LEMMA TypedAddLocalService ==
    ASSUME Typed, addLocalService
    PROVE  Typed'
<1>1. /\ adding # <<>> /\ Innermost.sent = Unknown
      /\ UNCHANGED <<initialized, characteristic, localServices, gatt>>
    BY DEF addLocalService
<1>2. CASE adding' = Outer /\ UNCHANGED <<service, handles>>
    BY <1>1, <1>2, TypedReturn
<1>3. CASE /\ handles < MaxHandles /\ handles' = handles + 1
           /\ service' = [service EXCEPT ![Innermost.service].handle = handles + 1]
           /\ Sent(0)
    <2> DEFINE s == Innermost.service
               o == [service[s] EXCEPT !.handle = handles + 1]
    <2>1. s \in Services
        BY <1>1, InnermostIs DEF Typed
    <2>2. service \in [Services -> ServiceObject] /\ service[s] \in ServiceObject
        BY <2>1 DEF Typed, TypeOK, ServiceObject
    <2>3. handles + 1 \in 0 .. MaxHandles /\ handles + 1 # 0
        BY <1>3, PartsTyped, SizesAreNatural DEF Typed
    <2>4. o \in ServiceObject /\ o.handle = handles + 1 /\ o.characteristics = Of(s)
        BY <2>2, <2>3 DEF ServiceObject, Of
    <2>5. service' = [service EXCEPT ![s] = o]
        BY <1>3
    <2> HIDE DEF o, s
    <2>6. /\ service' \in [Services -> ServiceObject] /\ service'[s].handle = handles + 1
          /\ \A t \in Services : /\ service'[t].characteristics = service[t].characteristics
                                 /\ t # s => service'[t] = service[t]
        BY <2>1, <2>2, <2>4, <2>5 DEF Of
    <2>7. /\ adding' \in Seq(Adding) /\ Len(adding') = Len(adding) /\ DOMAIN adding' = DOMAIN adding
          /\ \A i \in DOMAIN adding : /\ adding'[i].service = adding[i].service
                                      /\ i # Len(adding) => adding'[i] = adding[i]
          /\ adding'[Len(adding)].service = s
        <3>1. TypeOK /\ 0 \in Nat /\ Sent(0)
            BY <1>3 DEF Typed
        <3>2. /\ adding' \in Seq(Adding)
              /\ Len(adding') = Len(adding) /\ DOMAIN adding' = DOMAIN adding
              /\ \A i \in DOMAIN adding : /\ adding'[i].service = adding[i].service
                                          /\ i # Len(adding) => adding'[i] = adding[i]
              /\ adding'[Len(adding)] = [service |-> Innermost.service, sent |-> 0]
            BY <1>1, <3>1, SentIs
        <3>3. [service |-> Innermost.service, sent |-> 0].service = Innermost.service
            OBVIOUS
        <3> QED
            BY <3>2, <3>3 DEF s
    <2>8. TypeOK'
        BY <1>1, <1>3, <2>3, <2>6, <2>7 DEF Typed, TypeOK, ServiceObject
    <2>9. ASSUME NEW i \in DOMAIN adding', adding'[i].sent # Unknown
          PROVE  service'[adding'[i].service].handle # 0
        <3>1. adding[i].service \in Services /\ adding'[i].service = adding[i].service
            BY <2>7, <2>9, PartsTyped DEF Typed
        <3>2. CASE adding[i].service = s
            BY <2>3, <2>6, <3>1, <3>2
        <3>3. CASE adding[i].service # s
            <4>1. i # Len(adding)
                BY <2>7, <2>9, <3>1, <3>3
            <4> QED
                BY <2>6, <2>7, <2>9, <3>1, <3>3, <4>1 DEF Typed
        <3> QED
            BY <3>2, <3>3
    <2>10. adding' # <<>> => Len(localServices') + Len(adding') < MAX_LOCAL_SERVICES + MaxAdding
        BY <1>1, <2>7 DEF Typed
    <2> QED
        BY <2>8, <2>9, <2>10 DEF Typed
<1> QED
    BY <1>2, <1>3 DEF addLocalService

LEMMA SendingIs ==
    ASSUME Typed, MoreToAdd
    PROVE  /\ adding # <<>> /\ Innermost.sent # Unknown /\ Innermost.sent \in Nat
           /\ Innermost.service \in Services
           /\ Innermost.sent + 1 \in DOMAIN Of(Innermost.service)
           /\ NextToAdd = Of(Innermost.service)[Innermost.sent + 1]
           /\ NextToAdd \in LocalCharacteristics
           /\ NextToAdd \in ToSet(Of(Innermost.service))
           /\ service[Innermost.service].handle \in 1 .. MaxHandles
<1>1. /\ adding # <<>> /\ Innermost.sent # Unknown
      /\ Innermost.sent < Len(Of(Innermost.service))
      /\ NextToAdd = Of(Innermost.service)[Innermost.sent + 1]
    BY DEF MoreToAdd, Sending, NextToAdd, Of
<1>2. Innermost.sent \in Nat /\ Innermost.service \in Services
    BY <1>1, InnermostIs DEF Typed
<1>3. /\ Of(Innermost.service) \in Seq(LocalCharacteristics)
      /\ DOMAIN Of(Innermost.service) = 1 .. Len(Of(Innermost.service))
      /\ Len(Of(Innermost.service)) \in Nat
      /\ service[Innermost.service].handle \in 0 .. MaxHandles
    BY <1>2, PartsTyped DEF Typed
<1>4. Innermost.sent + 1 \in DOMAIN Of(Innermost.service)
    BY <1>1, <1>2, <1>3
<1>5. service[Innermost.service].handle # 0
    BY <1>1, InnermostIs DEF Typed
<1>6. NextToAdd \in LocalCharacteristics /\ NextToAdd \in ToSet(Of(Innermost.service))
    BY <1>1, <1>3, <1>4 DEF ToSet
<1> QED
    BY <1>1, <1>2, <1>3, <1>4, <1>5, <1>6, SizesAreNatural

(* Bluenet has one entry more, and its object knows the handle.            *)
LEMMA AcceptedIs ==
    ASSUME Typed, MoreToAdd, Accepted(NextToAdd, Len(gatt) + 1)
    PROVE  LET c == NextToAdd
               n == Len(gatt) + 1
               e == [of |-> c, service |-> service[Innermost.service].handle,
                     wrote |-> Unknown, subscribed |-> None]
           IN /\ gatt' \in Seq(Attribute) /\ Len(gatt') = n /\ DOMAIN gatt' = 1 .. n
              /\ \A h \in DOMAIN gatt : h \in DOMAIN gatt' /\ gatt'[h] = gatt[h]
              /\ n \in DOMAIN gatt' /\ gatt'[n] = e
              /\ \A h \in DOMAIN gatt' : h \in DOMAIN gatt \/ h = n
              /\ n \notin DOMAIN gatt /\ n \in 0 .. MaxHandles
              /\ characteristic' \in [LocalCharacteristics -> LocalCharacteristic]
              /\ characteristic'[c].handle = n
              /\ \A d \in LocalCharacteristics :
                    /\ d # c => characteristic'[d] = characteristic[d]
                    /\ characteristic'[d].length = characteristic[d].length
                    /\ characteristic'[d].subscribed = characteristic[d].subscribed
<1> DEFINE c == NextToAdd
           n == Len(gatt) + 1
           e == [of |-> c, service |-> service[Innermost.service].handle,
                 wrote |-> Unknown, subscribed |-> None]
           k == [characteristic[c] EXCEPT !.handle = n]
<1>1. /\ Len(gatt) < MaxHandles /\ gatt' = Append(gatt, e)
      /\ characteristic' = [characteristic EXCEPT ![c] = k]
    BY DEF Accepted
<1>2. e \in Attribute
    BY SendingIs DEF Attribute
<1>3. gatt \in Seq(Attribute) /\ Len(gatt) \in Nat /\ DOMAIN gatt = 1 .. Len(gatt)
    BY PartsTyped DEF Typed, TypeOK
<1> HIDE DEF e
<1>4. /\ gatt' \in Seq(Attribute) /\ Len(gatt') = n /\ DOMAIN gatt' = 1 .. n
      /\ \A h \in DOMAIN gatt : h \in DOMAIN gatt' /\ gatt'[h] = gatt[h]
      /\ n \in DOMAIN gatt' /\ gatt'[n] = e
      /\ \A h \in DOMAIN gatt' : h \in DOMAIN gatt \/ h = n
      /\ n \notin DOMAIN gatt /\ n \in 0 .. MaxHandles
    BY <1>1, <1>2, <1>3, AppendTo, SizesAreNatural
<1>5. c \in LocalCharacteristics /\ characteristic[c] \in LocalCharacteristic
    BY SendingIs, PartsTyped DEF Typed
<1> HIDE DEF n, c
<1>6. /\ k \in LocalCharacteristic /\ k.handle = n
      /\ k.length = characteristic[c].length /\ k.subscribed = characteristic[c].subscribed
    BY <1>4, <1>5 DEF LocalCharacteristic
<1> HIDE DEF k
<1>7. /\ characteristic' \in [LocalCharacteristics -> LocalCharacteristic]
      /\ characteristic'[c].handle = n
      /\ \A d \in LocalCharacteristics :
            /\ d # c => characteristic'[d] = characteristic[d]
            /\ characteristic'[d].length = characteristic[d].length
            /\ characteristic'[d].subscribed = characteristic[d].subscribed
    BY <1>1, <1>5, <1>6 DEF Typed, TypeOK
<1> QED
    BY <1>4, <1>7 DEF c, n, e

LEMMA TypedAddLocalCharacteristic ==
    ASSUME Typed, addLocalCharacteristic
    PROVE  Typed'
<1>1. MoreToAdd /\ UNCHANGED <<initialized, service, localServices, handles>>
    BY DEF addLocalCharacteristic
<1>2. CASE Refused
    BY <1>1, <1>2, SendingIs, TypedReturn DEF Refused
<1>3. CASE Accepted(NextToAdd, Len(gatt) + 1)
    <2>1. /\ gatt' \in Seq(Attribute) /\ Len(gatt') = Len(gatt) + 1
          /\ characteristic' \in [LocalCharacteristics -> LocalCharacteristic]
        BY <1>1, <1>3, AcceptedIs
    <2>2. Len(gatt') <= MaxHandles
        BY <1>3, <2>1, PartsTyped, SizesAreNatural DEF Accepted, Typed
    <2>3. Innermost.sent + 1 \in Nat /\ adding # <<>> /\ Sent(Innermost.sent + 1)
        BY <1>1, <1>3, SendingIs DEF Accepted
    <2>4. /\ adding' \in Seq(Adding) /\ Len(adding') = Len(adding) /\ DOMAIN adding' = DOMAIN adding
          /\ \A i \in DOMAIN adding : /\ adding'[i].service = adding[i].service
                                      /\ i # Len(adding) => adding'[i] = adding[i]
        BY <2>3, SentIs DEF Typed
    <2>5. Len(adding) \in DOMAIN adding /\ adding[Len(adding)].sent # Unknown
        BY <1>1, SendingIs, InnermostIs DEF Typed
    <2>6. TypeOK'
        BY <1>1, <2>1, <2>2, <2>4 DEF Typed, TypeOK
    <2>7. \A i \in DOMAIN adding' :
              adding'[i].sent # Unknown => service'[adding'[i].service].handle # 0
        BY <1>1, <2>4, <2>5 DEF Typed
    <2> QED
        BY <1>1, <2>3, <2>4, <2>6, <2>7 DEF Typed
<1> QED
    BY <1>1, <1>2, <1>3 DEF addLocalCharacteristic

LEMMA TypedAddServiceReturns ==
    ASSUME Typed, addServiceReturns
    PROVE  Typed'
<1>1. /\ adding # <<>> /\ localServices' = Append(localServices, Innermost.service)
      /\ adding' = Outer
      /\ UNCHANGED <<initialized, service, characteristic, gatt, handles>>
    BY DEF addServiceReturns, Sending
<1>2. /\ adding' \in Seq(Adding) /\ Len(adding') = Len(adding) - 1
      /\ \A i \in DOMAIN adding' : i \in DOMAIN adding /\ adding'[i] = adding[i]
    BY <1>1, ReturnIs DEF Typed
<1>3. /\ Len(adding) \in Nat \ {0} /\ Innermost.service \in Services
      /\ localServices \in Seq(Services) /\ Len(localServices) \in Nat
    BY <1>1, InnermostIs, PartsTyped DEF Typed
<1>4. localServices' \in Seq(Services) /\ Len(localServices') = Len(localServices) + 1
    BY <1>1, <1>3, AppendTo
<1>5. /\ Len(adding) - 1 <= MaxAdding
      /\ Len(localServices) + 1 < MAX_LOCAL_SERVICES + MaxAdding
      /\ (Len(localServices) + 1) + (Len(adding) - 1) < MAX_LOCAL_SERVICES + MaxAdding
    <2>1. Len(localServices) + Len(adding) < MAX_LOCAL_SERVICES + MaxAdding /\ Len(adding) <= MaxAdding
        BY <1>1 DEF Typed, TypeOK
    <2> QED
        BY <1>3, <2>1, SizesAreNatural
<1>6. TypeOK'
    BY <1>1, <1>2, <1>4, <1>5 DEF Typed, TypeOK
<1> QED
    BY <1>1, <1>2, <1>4, <1>5, <1>6 DEF Typed

LEMMA TypedStep == Typed /\ [Next]_vars => Typed'
<1> SUFFICES ASSUME Typed, [Next]_vars PROVE Typed'
    OBVIOUS
<1>1. ASSUME UNCHANGED <<service, characteristic, localServices, adding, gatt, handles>>,
             initialized' \in BOOLEAN
      PROVE  Typed'
    BY <1>1, TypedSame DEF Typed, TypeOK
<1>2. CASE begin \/ end
    BY <1>1, <1>2 DEF begin, end
<1>3. CASE UNCHANGED vars
    BY <1>1, <1>3 DEF vars, Typed, TypeOK
<1>4. CASE UserCall
    BY <1>2, <1>4, TypedAddCharacteristic, TypedAddService, TypedAddLocalService,
       TypedAddLocalCharacteristic, TypedAddServiceReturns, TypedWrite, TypedWritten DEF UserCall
<1>5. CASE handlePeripheralEvent
    BY <1>5, TypedRemoteWrite, TypedSubscribes
       DEF handlePeripheralEvent, onLocalSubscribed, onLocalUnsubscribed
<1> QED
    BY <1>3, <1>4, <1>5 DEF Next

------------------------------------------------------------------------------
(* A careful user makes a service; it is sent to bluenet part by part, and *)
(* comes into use.                                                         *)

(* A characteristic that is in no service comes at the end of one.         *)
LEMMA AddCharacteristicKeeps ==
    ASSUME Careful, Typed, Placed, Reached, Noticed,
           NEW s \in Services, NEW c \in LocalCharacteristics, addCharacteristic(s, c)
    PROVE  Placed' /\ Reached' /\ Noticed'
<1>1. /\ Len(Of(s)) < MAX_CHARACTERISTICS_PER_SERVICE
      /\ service' = [service EXCEPT ![s].characteristics = Append(Of(s), c)]
      /\ UNCHANGED <<initialized, characteristic, localServices, adding, gatt, handles>>
    BY DEF addCharacteristic, Of
<1>2. \A t \in Services : c \notin ToSet(Of(t))
    BY DEF addCharacteristic, Of
<1>3. \A t \in Services : /\ service[t] \in ServiceObject
                          /\ Of(t) \in Seq(LocalCharacteristics)
                          /\ DOMAIN Of(t) = 1 .. Len(Of(t)) /\ Len(Of(t)) \in Nat
    BY PartsTyped DEF Typed, TypeOK, ServiceObject
<1>4. /\ Append(Of(s), c) \in Seq(LocalCharacteristics)
      /\ Len(Append(Of(s), c)) = Len(Of(s)) + 1
      /\ DOMAIN Append(Of(s), c) = 1 .. Len(Of(s)) + 1
      /\ \A i \in 1 .. Len(Of(s)) : Append(Of(s), c)[i] = Of(s)[i]
      /\ Append(Of(s), c)[Len(Of(s)) + 1] = c
    BY <1>3, AppendTo
<1>5. /\ Of(s)' = Append(Of(s), c)
      /\ \A t \in Services : service'[t].handle = service[t].handle
      /\ \A t \in Services : t # s => Of(t)' = Of(t)
    BY <1>1, <1>3, <1>4 DEF Typed, TypeOK, Of, ServiceObject
<1>7. \A t \in Services : \A i \in DOMAIN Of(t)' :
          \/ i \in DOMAIN Of(t) /\ Of(t)'[i] = Of(t)[i] /\ Of(t)[i] # c
          \/ t = s /\ i = Len(Of(s)) + 1 /\ Of(t)'[i] = c
    <2>1. \A t \in Services : \A i \in DOMAIN Of(t) : Of(t)[i] # c
        BY <1>2 DEF ToSet
    <2>2. ASSUME NEW t \in Services, NEW i \in DOMAIN Of(t)', t # s
          PROVE  i \in DOMAIN Of(t) /\ Of(t)'[i] = Of(t)[i]
        BY <1>5, <2>2
    <2>3. ASSUME NEW i \in DOMAIN Of(s)', i # Len(Of(s)) + 1
          PROVE  i \in DOMAIN Of(s) /\ Of(s)'[i] = Of(s)[i]
        <3>1. i \in 1 .. Len(Of(s)) + 1
            BY <1>4, <1>5, <2>3
        <3>2. i \in 1 .. Len(Of(s))
            BY <1>3, <2>3, <3>1
        <3> QED
            BY <1>3, <1>4, <1>5, <3>2
    <2>4. Of(s)'[Len(Of(s)) + 1] = c
        BY <1>4, <1>5
    <2> QED
        BY <2>1, <2>2, <2>3, <2>4
<1>8. Placed'
    <2>1. ASSUME NEW t \in Services, NEW u \in Services,
                 NEW i \in DOMAIN Of(t)', NEW j \in DOMAIN Of(u)', Of(t)'[i] = Of(u)'[j]
          PROVE  t = u /\ i = j
        BY <1>7, <2>1 DEF Placed
    <2>2. \A t, u \in Services :
              service'[t].handle = service'[u].handle /\ service'[t].handle # 0 => t = u
        BY <1>5 DEF Placed
    <2>3. \A t \in Services : service'[t].handle <= handles'
        BY <1>1, <1>5 DEF Placed
    <2> QED
        BY <1>1, <2>1, <2>2, <2>3 DEF Placed
<1>9. ASSUME NEW h \in DOMAIN gatt', NEW t \in Services, gatt'[h].service = service'[t].handle
      PROVE  LeadsTo(h, t)'
    <2>1. LeadsTo(h, t)
        BY <1>1, <1>5, <1>9 DEF Reached
    <2>2. \A j \in DOMAIN Of(t) : j \in DOMAIN Of(t)' /\ Of(t)'[j] = Of(t)[j]
        <3>1. \A j \in DOMAIN Of(s) : j \in DOMAIN Of(s)' /\ Of(s)'[j] = Of(s)[j]
            BY <1>3, <1>4, <1>5
        <3> QED
            BY <1>5, <3>1
    <2>3. ToSet(Of(t)) \subseteq ToSet(Of(t)')
        BY <2>2 DEF ToSet
    <2> QED
        BY <1>1, <2>1, <2>2, <2>3 DEF LeadsTo
<1>10. Noticed'
    <2>1. ToSet(localServices) \subseteq Services
        BY PartsTyped DEF Typed
    <2>2. \A h \in DOMAIN gatt : InUse(h)' <=> InUse(h)
        BY <1>1, <1>5, <2>1 DEF InUse
    <2> QED
        BY <1>1, <2>2 DEF Noticed, Agrees
<1> QED
    BY <1>8, <1>9, <1>10 DEF Reached

(* A call begins: it has done nothing yet.                                 *)
LEMMA AddServiceKeeps ==
    ASSUME Careful, Typed, Placed, Reached, Noticed, NEW s \in Services, addService(s)
    PROVE  Placed' /\ Reached' /\ Noticed'
<1> DEFINE e == [service |-> s, sent |-> Unknown]
<1>1. /\ Alone(s) /\ adding' = Append(adding, e)
      /\ UNCHANGED <<initialized, service, characteristic, localServices, gatt, handles>>
    BY DEF addService
<1>2. e \in Adding /\ e.sent = Unknown /\ e.service = s
    BY DEF Adding
<1> HIDE DEF e
<1>3. adding \in Seq(Adding) /\ Len(adding) \in Nat /\ DOMAIN adding = 1 .. Len(adding)
    BY PartsTyped DEF Typed
<1>4. \A i \in DOMAIN adding' :
          \/ i \in DOMAIN adding /\ adding'[i] = adding[i] /\ adding'[i].service # s
          \/ i = Len(adding) + 1 /\ adding'[i] = e
    BY <1>1, <1>2, <1>3, AppendTo DEF Alone
<1>5. \A i, j \in DOMAIN adding' : adding'[i].service = adding'[j].service => i = j
    BY <1>2, <1>4 DEF Placed
<1>6. Placed'
    BY <1>1, <1>5 DEF Placed, Of
<1>7. ASSUME NEW h \in DOMAIN gatt', NEW t \in Services, gatt'[h].service = service'[t].handle
      PROVE  LeadsTo(h, t)'
    <2>1. LeadsTo(h, t)
        BY <1>1, <1>7 DEF Reached
    <2> QED
        BY <1>1, <1>2, <1>4, <2>1 DEF LeadsTo, Of
<1>8. Noticed'
    BY <1>1 DEF Noticed, Agrees, InUse
<1> QED
    BY <1>6, <1>7, <1>8 DEF Reached

(* A call returns, with nothing in the table.                              *)
LEMMA ReturnKeeps ==
    ASSUME Typed, Placed, Reached, Noticed, adding # <<>>, adding' = Outer,
           UNCHANGED <<initialized, service, characteristic, localServices, gatt, handles>>
    PROVE  Placed' /\ Reached' /\ Noticed'
<1>1. \A i \in DOMAIN adding' : i \in DOMAIN adding /\ adding'[i] = adding[i]
    BY ReturnIs DEF Typed
<1>2. Placed'
    BY <1>1 DEF Placed, Of
<1>3. Reached'
    BY <1>1 DEF Reached, LeadsTo, Of
<1>4. Noticed'
    BY DEF Noticed, Agrees, InUse
<1> QED
    BY <1>2, <1>3, <1>4

(* The service gets a handle that nothing had.                             *)
LEMMA AddLocalServiceKeeps ==
    ASSUME Typed, Placed, Reached, Noticed, addLocalService
    PROVE  Placed' /\ Reached' /\ Noticed'
<1> DEFINE s == Innermost.service
<1>1. /\ adding # <<>> /\ Innermost.sent = Unknown
      /\ UNCHANGED <<initialized, characteristic, localServices, gatt>>
    BY DEF addLocalService
<1>2. CASE adding' = Outer /\ UNCHANGED <<service, handles>>
    BY <1>1, <1>2, ReturnKeeps
<1>3. CASE /\ handles < MaxHandles /\ handles' = handles + 1
           /\ service' = [service EXCEPT ![s].handle = handles + 1]
           /\ Sent(0)
    <2>1. /\ s \in Services
          /\ \A t \in Services : service[t] \in ServiceObject
          /\ service \in [Services -> ServiceObject]
        BY <1>1, InnermostIs DEF Typed, TypeOK, ServiceObject
    <2>2. /\ handles \in Nat /\ handles + 1 # 0 /\ ~(handles + 1 <= handles)
          /\ \A k \in Nat : k <= handles => k <= handles + 1 /\ k # handles + 1
        BY PartsTyped DEF Typed
    <2>3. /\ \A i \in DOMAIN adding' : i \in DOMAIN adding /\ adding'[i].service = adding[i].service
          /\ \A i \in DOMAIN adding' : adding'[i].service # s => adding'[i] = adding[i]
        BY <1>1, <1>3, SentIs, InnermostIs DEF Typed
    <2> HIDE DEF s
    <2>4. /\ service'[s].handle = handles + 1
          /\ \A t \in Services : /\ Of(t)' = Of(t)
                                 /\ t # s => service'[t].handle = service[t].handle
        BY <1>3, <2>1 DEF Of, ServiceObject
    <2>5. \A t \in Services : service[t].handle \in Nat /\ service[t].handle <= handles
        BY PartsTyped DEF Typed, Placed
    <2>6. \A h \in DOMAIN gatt : gatt[h].service \in Nat /\ gatt[h].service <= handles
        BY PartsTyped DEF Typed, Placed
    <2>7. Placed'
        <3>1. ASSUME NEW t \in Services, NEW u \in Services,
                     service'[t].handle = service'[u].handle, service'[t].handle # 0
              PROVE  t = u
            <4>1. service[t].handle = service[u].handle /\ service[t].handle # 0 => t = u
                BY DEF Placed
            <4>2. t # s /\ u # s => t = u
                BY <2>4, <3>1, <4>1
            <4>3. (t = s) <=> (u = s)
                BY <2>2, <2>4, <2>5, <3>1
            <4> QED
                BY <4>2, <4>3
        <3>2. \A t \in Services : service'[t].handle <= handles'
            BY <1>3, <2>2, <2>4, <2>5
        <3>3. \A h \in DOMAIN gatt' : gatt'[h].service <= handles'
            BY <1>1, <1>3, <2>2, <2>6
        <3>4. \A t, u \in Services : \A i \in DOMAIN Of(t)', j \in DOMAIN Of(u)' :
                  Of(t)'[i] = Of(u)'[j] => t = u /\ i = j
            BY <2>4 DEF Placed
        <3>5. \A i, j \in DOMAIN adding' : adding'[i].service = adding'[j].service => i = j
            BY <2>3 DEF Placed
        <3>6. \A c \in LocalCharacteristics :
                  characteristic'[c].handle # 0 =>
                     /\ characteristic'[c].handle \in DOMAIN gatt'
                     /\ gatt'[characteristic'[c].handle].of = c
            BY <1>1 DEF Placed
        <3> QED
            BY <3>1, <3>2, <3>3, <3>4, <3>5, <3>6 DEF Placed
    <2>8. ASSUME NEW h \in DOMAIN gatt, NEW t \in Services, gatt[h].service = service'[t].handle
          PROVE  t # s /\ gatt[h].service = service[t].handle
        BY <2>2, <2>4, <2>6, <2>8
    <2>9. ASSUME NEW h \in DOMAIN gatt', NEW t \in Services, gatt'[h].service = service'[t].handle
          PROVE  LeadsTo(h, t)'
        <3>1. h \in DOMAIN gatt /\ t # s /\ LeadsTo(h, t)
            BY <1>1, <2>8, <2>9 DEF Reached
        <3> QED
            BY <1>1, <2>3, <2>4, <3>1 DEF LeadsTo
    <2>10. Noticed'
        <3>1. ASSUME NEW h \in DOMAIN gatt, InUse(h)'
              PROVE  InUse(h)
            BY <1>1, <2>8, <3>1, PartsTyped DEF InUse, Typed
        <3> QED
            BY <1>1, <3>1 DEF Noticed, Agrees
    <2> QED
        BY <2>7, <2>9, <2>10 DEF Reached
<1> QED
    BY <1>2, <1>3 DEF addLocalService

(* Bluenet has the next characteristic of the service, at a new handle.    *)
LEMMA AcceptedKeeps ==
    ASSUME Typed, Placed, Reached, Noticed, MoreToAdd,
           UNCHANGED <<initialized, service, localServices, handles>>,
           Accepted(NextToAdd, Len(gatt) + 1)
    PROVE  Placed' /\ Reached' /\ Noticed'
<1> DEFINE s == Innermost.service
           c == NextToAdd
           k == Innermost.sent + 1
           e == [of |-> c, service |-> service[s].handle, wrote |-> Unknown, subscribed |-> None]
           n == Len(gatt) + 1
<1>1. /\ adding # <<>> /\ s \in Services /\ Innermost.sent \in Nat /\ Innermost.sent # Unknown
      /\ k \in DOMAIN Of(s) /\ c = Of(s)[k]
      /\ c \in LocalCharacteristics /\ c \in ToSet(Of(s))
      /\ service[s].handle # 0 /\ service[s].handle <= handles
    BY SendingIs, SizesAreNatural DEF Placed
<1>2. k \in Nat /\ ~(k <= Innermost.sent) /\ \A j \in Nat : j <= Innermost.sent => j <= k /\ j # k
    BY <1>1
<1>3. /\ DOMAIN adding' = DOMAIN adding
      /\ \A i \in DOMAIN adding : /\ adding'[i].service = adding[i].service
                                  /\ adding[i].service # s => adding'[i] = adding[i]
      /\ Len(adding) \in DOMAIN adding /\ adding[Len(adding)] = Innermost
      /\ adding'[Len(adding)].sent = k
    <2>1. TypeOK /\ adding # <<>> /\ k \in Nat /\ Sent(k)
        BY <1>1, <1>2 DEF Accepted, Typed
    <2> HIDE DEF k
    <2>2. /\ DOMAIN adding' = DOMAIN adding
          /\ \A i \in DOMAIN adding : /\ adding'[i].service = adding[i].service
                                      /\ i # Len(adding) => adding'[i] = adding[i]
          /\ adding'[Len(adding)] = [service |-> Innermost.service, sent |-> k]
        BY <2>1, SentIs
    <2>3. Len(adding) \in DOMAIN adding /\ adding[Len(adding)] = Innermost
        BY <2>1, InnermostIs
    <2>4. [service |-> Innermost.service, sent |-> k].sent = k
        OBVIOUS
    <2> QED
        BY <2>2, <2>3, <2>4 DEF s
<1>4. \A i \in DOMAIN adding : adding[i].service = s => i = Len(adding)
    BY <1>3 DEF Placed
<1>5. e.of = c /\ e.service = service[s].handle /\ e.wrote = Unknown /\ e.subscribed = None
    OBVIOUS
<1>6. /\ \A h \in DOMAIN gatt : h \in DOMAIN gatt' /\ gatt'[h] = gatt[h]
      /\ n \in DOMAIN gatt' /\ gatt'[n] = e
      /\ \A h \in DOMAIN gatt' : h \in DOMAIN gatt \/ h = n
      /\ characteristic'[c].handle = n
      /\ \A d \in LocalCharacteristics :
            /\ d # c => characteristic'[d] = characteristic[d]
            /\ characteristic'[d].length = characteristic[d].length
            /\ characteristic'[d].subscribed = characteristic[d].subscribed
    BY AcceptedIs
<1> HIDE DEF e, n, s, c, k
<1>10. Placed'
    <2>1. ASSUME NEW d \in LocalCharacteristics, characteristic'[d].handle # 0
          PROVE  /\ characteristic'[d].handle \in DOMAIN gatt'
                 /\ gatt'[characteristic'[d].handle].of = d
        <3>1. CASE d = c
            BY <1>5, <1>6, <3>1
        <3>2. CASE d # c
            BY <1>6, <2>1, <3>2 DEF Placed
        <3> QED
            BY <3>1, <3>2
    <2>2. \A h \in DOMAIN gatt' : gatt'[h].service <= handles'
        BY <1>1, <1>5, <1>6 DEF Placed
    <2>3. \A t, u \in Services : \A i \in DOMAIN Of(t)', j \in DOMAIN Of(u)' :
              Of(t)'[i] = Of(u)'[j] => t = u /\ i = j
        BY DEF Placed, Of
    <2>4. \A i, j \in DOMAIN adding' : adding'[i].service = adding'[j].service => i = j
        BY <1>3 DEF Placed
    <2>5. /\ \A t, u \in Services :
                service'[t].handle = service'[u].handle /\ service'[t].handle # 0 => t = u
          /\ \A t \in Services : service'[t].handle <= handles'
        BY DEF Placed
    <2> QED
        BY <2>1, <2>2, <2>3, <2>4, <2>5 DEF Placed
<1>11. ASSUME NEW h \in DOMAIN gatt', NEW t \in Services, gatt'[h].service = service'[t].handle
       PROVE  LeadsTo(h, t)'
    <2>1. CASE h = n
        <3>1. t = s
            BY <1>1, <1>5, <1>6, <1>11, <2>1 DEF Placed
        <3>2. /\ gatt'[h].of = c /\ gatt'[h].wrote = Unknown /\ gatt'[h].subscribed = None
              /\ c \in ToSet(Of(t)') /\ characteristic'[c].handle = h
            BY <1>1, <1>5, <1>6, <2>1, <3>1 DEF Of
        <3>3. k \in DOMAIN Of(t)' /\ c = Of(t)'[k] /\ k <= k
            BY <1>1, <1>2, <3>1 DEF Of
        <3>4. \A i \in DOMAIN adding' : adding'[i].service = t => adding'[i].sent = k
            BY <1>3, <1>4, <3>1
        <3> QED
            BY <3>2, <3>3, <3>4 DEF LeadsTo
    <2>2. CASE h \in DOMAIN gatt
        <3>1. gatt'[h] = gatt[h] /\ LeadsTo(h, t) /\ gatt[h].of \in LocalCharacteristics
            BY <1>6, <1>11, <2>2, PartsTyped DEF Reached, Typed
        <3>2. ASSUME NEW i \in DOMAIN adding', adding'[i].service = t, adding'[i].sent # Unknown
              PROVE  \E j \in DOMAIN Of(t)' : j <= adding'[i].sent /\ gatt'[h].of = Of(t)'[j]
            <4>1. CASE t # s
                BY <1>3, <3>1, <3>2, <4>1 DEF LeadsTo, Of
            <4>2. CASE t = s
                <5>1. i = Len(adding) /\ adding[i] = Innermost /\ adding'[i].sent = k
                    BY <1>3, <1>4, <3>2, <4>2
                <5>2. PICK j \in DOMAIN Of(t) : j <= Innermost.sent /\ gatt[h].of = Of(t)[j]
                    BY <1>1, <1>3, <3>1, <4>2, <5>1 DEF LeadsTo, s
                <5>3. j \in Nat
                    BY <5>2, PartsTyped DEF Typed
                <5> QED
                    BY <1>2, <3>1, <5>1, <5>2, <5>3 DEF Of
            <4> QED
                BY <4>1, <4>2
        <3>3. gatt[h].of # c
            <4>1. PICK j \in DOMAIN Of(t) : gatt[h].of = Of(t)[j]
                BY <3>1 DEF LeadsTo, ToSet
            <4>2. CASE t # s
                BY <1>1, <4>1, <4>2 DEF Placed
            <4>3. CASE t = s
                <5>1. PICK i \in DOMAIN Of(t) : i <= Innermost.sent /\ gatt[h].of = Of(t)[i]
                    BY <1>1, <1>3, <3>1, <4>3 DEF LeadsTo, s
                <5>2. i \in Nat /\ i # k
                    BY <1>2, <5>1, PartsTyped DEF Typed
                <5> QED
                    BY <1>1, <4>3, <5>1, <5>2 DEF Placed
            <4> QED
                BY <4>2, <4>3
        <3> QED
            BY <1>6, <3>1, <3>2, <3>3 DEF LeadsTo, Of
    <2> QED
        BY <1>6, <2>1, <2>2
<1>12. Noticed'
    <2>1. ASSUME NEW h \in DOMAIN gatt', InUse(h)'
          PROVE  Agrees(h)'
        <3>1. CASE h = n
            BY <1>5, <1>6, <3>1 DEF Agrees
        <3>2. CASE h \in DOMAIN gatt
            <4>1. Agrees(h) /\ gatt[h].of \in LocalCharacteristics /\ gatt'[h] = gatt[h]
                BY <1>6, <2>1, <3>2, PartsTyped DEF Noticed, InUse, Typed
            <4> QED
                BY <1>6, <4>1 DEF Agrees
        <3> QED
            BY <1>6, <3>1, <3>2
    <2> QED
        BY <2>1 DEF Noticed
<1> QED
    BY <1>10, <1>11, <1>12 DEF Reached

LEMMA AddLocalCharacteristicKeeps ==
    ASSUME Typed, Placed, Reached, Noticed, addLocalCharacteristic
    PROVE  Placed' /\ Reached' /\ Noticed'
<1>1. MoreToAdd /\ UNCHANGED <<initialized, service, localServices, handles>>
    BY DEF addLocalCharacteristic
<1>2. CASE Accepted(NextToAdd, Len(gatt) + 1)
    BY <1>1, <1>2, AcceptedKeeps
<1>3. CASE Refused
    BY <1>1, <1>3, SendingIs, ReturnKeeps DEF Refused
<1> QED
    BY <1>2, <1>3 DEF addLocalCharacteristic

(* The service comes into use: the other device did nothing to it that the *)
(* microapp was told of.                                                   *)
LEMMA AddServiceReturnsKeeps ==
    ASSUME Typed, Placed, Reached, Noticed, addServiceReturns
    PROVE  Placed' /\ Reached' /\ Noticed'
<1> DEFINE s == Innermost.service
<1>1. /\ adding # <<>> /\ localServices' = Append(localServices, s) /\ adding' = Outer
      /\ UNCHANGED <<initialized, service, characteristic, gatt, handles>>
    BY DEF addServiceReturns, Sending
<1>2. s \in Services /\ localServices \in Seq(Services)
    BY <1>1, InnermostIs DEF Typed, TypeOK
<1>3. ToSet(localServices') = ToSet(localServices) \cup {s}
    BY <1>1, <1>2, AppendedMember
<1>4. \A i \in DOMAIN adding' : i \in DOMAIN adding /\ adding'[i] = adding[i]
    BY <1>1, ReturnIs DEF Typed
<1> HIDE DEF s
<1>5. Placed'
    BY <1>1, <1>4 DEF Placed, Of
<1>6. Reached'
    <2>1. ASSUME NEW h \in DOMAIN gatt', NEW t \in Services, gatt'[h].service = service'[t].handle
          PROVE  LeadsTo(h, t)'
        <3>1. LeadsTo(h, t)
            BY <1>1, <2>1 DEF Reached
        <3> QED
            BY <1>1, <1>3, <1>4, <3>1 DEF LeadsTo, Of
    <2> QED
        BY <2>1 DEF Reached
<1>7. ASSUME NEW h \in DOMAIN gatt', InUse(h)'
      PROVE  \/ gatt'[h].wrote = Unknown /\ gatt'[h].subscribed = None
             \/ InUse(h)
    <2>1. h \in DOMAIN gatt
        BY <1>1
    <2>2. CASE InUse(h)
        BY <2>2
    <2>3. CASE ~InUse(h)
        <3>1. gatt[h].service = service[s].handle /\ s \notin ToSet(localServices)
            BY <1>1, <1>3, <1>7, <2>3 DEF InUse
        <3>2. LeadsTo(h, s)
            BY <1>2, <2>1, <3>1 DEF Reached
        <3> QED
            BY <1>1, <3>1, <3>2 DEF LeadsTo
    <2> QED
        BY <2>2, <2>3
<1>8. Noticed'
    BY <1>1, <1>7 DEF Noticed, Agrees
<1> QED
    BY <1>5, <1>6, <1>8

------------------------------------------------------------------------------
(* Every step.                                                             *)

Known == Placed /\ Reached /\ Noticed

LEMMA InitImplies == Init => Typed /\ Known
<1> SUFFICES ASSUME Init PROVE Typed /\ Known
    OBVIOUS
<1>1. Typed
    <2>1. /\ ValueSize \in Lengths /\ 0 \in 0 .. MaxHandles
          /\ 0 <= MAX_CHARACTERISTICS_PER_SERVICE /\ 0 < MAX_LOCAL_SERVICES + MaxAdding
          /\ 0 <= MaxHandles /\ 0 <= MaxAdding
        BY SizesAreNatural, LocalServicesAssumption DEF Lengths
    <2>2. service \in [Services -> [characteristics : Seq(LocalCharacteristics),
                                    handle : 0 .. MaxHandles]]
        BY <2>1 DEF Init
    <2>3. \A s \in Services :
              Len(service[s].characteristics) <= MAX_CHARACTERISTICS_PER_SERVICE
        BY <2>1 DEF Init
    <2>4. characteristic \in [LocalCharacteristics -> LocalCharacteristic]
        BY <2>1 DEF Init, LocalCharacteristic
    <2>5. /\ localServices \in Seq(Services) /\ Len(localServices) < MAX_LOCAL_SERVICES + MaxAdding
          /\ adding \in Seq(Adding) /\ Len(adding) <= MaxAdding
          /\ gatt \in Seq(Attribute) /\ Len(gatt) <= MaxHandles
        BY <2>1 DEF Init
    <2>6. initialized \in BOOLEAN /\ handles \in 0 .. MaxHandles /\ adding = <<>>
        BY <2>1 DEF Init
    <2>7. TypeOK
        BY <2>2, <2>3, <2>4, <2>5, <2>6 DEF TypeOK
    <2> QED
        BY <2>6, <2>7 DEF Typed
<1>2. Placed
    <2>1. \A t \in Services : Of(t) = <<>> /\ service[t].handle = 0
        BY DEF Init, Of
    <2>2. \A c \in LocalCharacteristics : characteristic[c].handle = 0
        BY DEF Init
    <2> QED
        BY <2>1, <2>2 DEF Init, Placed
<1>3. Reached /\ Noticed
    BY DEF Init, Reached, Noticed
<1> QED
    BY <1>1, <1>2, <1>3 DEF Known

LEMMA StepKeeps ==
    ASSUME Careful, Typed, Known, [Next]_vars
    PROVE  Known'
<1>1. TypeOK /\ Placed /\ Reached /\ Noticed
    BY DEF Typed, Known
<1>2. ASSUME Used, Noticed'
      PROVE  Known'
    BY <1>1, <1>2, UsedKeeps DEF Known
<1>3. CASE begin \/ end \/ UNCHANGED vars
    <2>1. UNCHANGED <<service, characteristic, localServices, adding, gatt, handles>>
        BY <1>3 DEF begin, end, vars
    <2> QED
        BY <1>1, <1>2, <2>1, SameIs
<1>4. ASSUME NEW s \in Services, NEW c \in LocalCharacteristics, addCharacteristic(s, c)
      PROVE  Known'
    BY <1>1, <1>4, AddCharacteristicKeeps DEF Known
<1>5. ASSUME NEW s \in Services, addService(s)
      PROVE  Known'
    BY <1>1, <1>5, AddServiceKeeps DEF Known
<1>6. CASE addLocalService
    BY <1>1, <1>6, AddLocalServiceKeeps DEF Known
<1>7. CASE addLocalCharacteristic
    BY <1>1, <1>7, AddLocalCharacteristicKeeps DEF Known
<1>8. CASE addServiceReturns
    BY <1>1, <1>8, AddServiceReturnsKeeps DEF Known
<1>9. ASSUME NEW c \in LocalCharacteristics, NEW n \in Lengths, writeValueLocal(c, n)
      PROVE  Known'
    BY <1>1, <1>2, <1>9, WriteIs
<1>10. ASSUME NEW c \in LocalCharacteristics, written(c)
       PROVE  Known'
    BY <1>1, <1>2, <1>10, WrittenIs
<1>11. ASSUME NEW h \in DOMAIN gatt, NEW n \in Lengths, onLocalWritten(h, n)
       PROVE  Known'
    BY <1>1, <1>2, <1>11, RemoteWriteIs
<1>12. ASSUME NEW h \in DOMAIN gatt, NEW y \in {"yes", "no"}, Subscribes(h, y)
       PROVE  Known'
    BY <1>1, <1>2, <1>12, SubscribesIs
<1>14. CASE UserCall
    BY <1>3, <1>4, <1>5, <1>6, <1>7, <1>8, <1>9, <1>10, <1>14 DEF UserCall
<1>15. CASE handlePeripheralEvent
    BY <1>11, <1>12, <1>15 DEF handlePeripheralEvent, onLocalSubscribed, onLocalUnsubscribed
<1> QED
    BY <1>3, <1>14, <1>15 DEF Next

LEMMA SpecTyped == Spec => []Typed
<1> QED
    BY InitImplies, TypedStep, PTL DEF Spec

(* The objects, the table of services and what bluenet accepted have their *)
(* types, whatever bluenet refuses and whatever handlers do.  The table    *)
(* holds what it has places for, and one service more for each call of     *)
(* addService that may be at work in a handler of another (Ble::addService *)
(* looks at the count before it waits, and writes after it).               *)
THEOREM TypesHold == Spec => []TypeOK
<1>1. Typed => TypeOK
    BY DEF Typed
<1> QED
    BY <1>1, SpecTyped, PTL

(* What the other device did to a characteristic of a service in use, and  *)
(* the microapp was told of, is what the object says, however many times a *)
(* service was added, refused and added again, and whatever other services *)
(* handlers add meanwhile (getLocalCharacteristic, addLocalService).  The  *)
(* user has a characteristic in one service and does not add a service     *)
(* while it is being added.                                                *)
THEOREM RemoteUseIsNoticed ==
    ASSUME Careful
    PROVE  Spec => []RemoteUseNoticed
<1>1. Typed /\ Known => RemoteUseNoticed
    BY DEF Typed, Known, Noticed, Agrees, RemoteUseNoticed
<1>2. Typed /\ Known /\ [Next]_vars => Known'
    BY StepKeeps
<1> QED
    BY <1>1, <1>2, InitImplies, SpecTyped, PTL DEF Spec
==============================================================================
