----------------------------- MODULE OneWire_proofs -----------------------------
(***************************************************************************)
(* What search() returns is the address of a device.  The prefix taken so  *)
(* far is always one of a device that answered the reset: a bit is taken   *)
(* only when a device that still answered, and so has the same prefix, was *)
(* heard to send it.  It need not be connected any more.                   *)
(*                                                                         *)
(* On a bus where nothing changes the devices are found in the order of    *)
(* their addresses.  searchJunction is the last position at which a branch *)
(* of ones waits, unless one of the devices is buried: then lastJunction,  *)
(* which line 345 sets where no branch waits too, is a wrong one, and the  *)
(* search never gets past that device.                                     *)
(***************************************************************************)
EXTENDS OneWire, FiniteSetTheorems, WellFoundedInduction, TLAPS

Agrees(d) == \A p \in 0 .. i - 1 : d[p] = address[p]

SearchInv ==
    /\ answering \subseteq asked
    /\ pc \in {"bit", "not"} => i \in Position
    /\ pc = "end" => i = Bits
    /\ pc # "idle" => \A d \in answering : Agrees(d)
    /\ pc # "idle" => \E d \in asked : Agrees(d)
    /\ pc = "not" /\ a = 0 => \E d \in asked : Agrees(d) /\ d[i] = 0

Inv == TypeOK /\ SearchInv

-----------------------------------------------------------------------------
LEMMA InitInv == Init => Inv
<1> SUFFICES ASSUME Init PROVE Inv
  OBVIOUS
<1> USE OneWireConstants DEF Init
<1>1. /\ i = 0 /\ lastJunction = -1 /\ done = TRUE /\ a = 0
      /\ asked = {} /\ answering = {}
  BY DEF NoLocals
<1>2. address \in Address
  BY DEF Address
<1>3. -1 \in -1 .. Bits - 1 /\ 0 \in 0 .. Bits
  OBVIOUS
<1>4. TypeOK
  BY <1>1, <1>2, <1>3, Zenon DEF TypeOK
<1>5. SearchInv
  BY <1>1 DEF SearchInv
<1> QED
  BY <1>4, <1>5 DEF Inv

\* Taking a bit that some device with this prefix has keeps the invariant.
LEMMA TakeKeeps ==
    ASSUME Inv, pc = "not", NEW bit \in {0, 1}, Take(bit),
           \E d \in asked : Agrees(d) /\ d[i] = bit
    PROVE  SearchInv' /\ address' \in Address /\ i' \in 0 .. Bits
           /\ answering' \in SUBSET Device /\ pc' \in {"bit", "end"}
           /\ i \in -1 .. Bits - 1
<1> USE OneWireConstants DEF Inv
<1>1. i \in Position /\ i \in Int /\ Bits \in Nat
  BY DEF SearchInv, Position
<1>2. address' \in Address /\ address'[i] = bit
      /\ \A p \in 0 .. i - 1 : address'[p] = address[p]
  <2>1. address \in Address /\ address' = [address EXCEPT ![i] = bit]
    BY DEF TypeOK, Take
  <2>2. \A p \in 0 .. i - 1 : p # i /\ p \in Position
    BY <1>1 DEF Position
  <2> QED
    BY <1>1, <2>1, <2>2 DEF Address
<1>3. i' = i + 1 /\ asked' = asked /\ answering' = {d \in answering : d[i] = bit}
      /\ pc' = IF i + 1 = Bits THEN "end" ELSE "bit"
  BY DEF Take
<1>4. \A d : Agrees(d) /\ d[i] = bit => Agrees(d)'
  <2> SUFFICES ASSUME NEW d, Agrees(d), d[i] = bit, NEW p \in 0 .. i' - 1
               PROVE d[p] = address'[p]
    BY DEF Agrees
  <2>1. p = i \/ p \in 0 .. i - 1
    BY <1>1, <1>3
  <2> QED
    BY <2>1, <1>2 DEF Agrees
<1>5. \E d \in asked' : Agrees(d)'
  BY <1>3, <1>4
<1>6. \A d \in answering' : Agrees(d)'
  BY <1>3, <1>4 DEF SearchInv
<1>7. i' \in 0 .. Bits /\ i \in -1 .. Bits - 1
      /\ (pc' = "bit" => i' \in Position) /\ (pc' = "end" => i' = Bits)
  BY <1>1, <1>3 DEF Position
<1>8. pc' \in {"bit", "end"} /\ answering' \subseteq asked' /\ answering' \in SUBSET Device
  BY <1>3 DEF SearchInv, TypeOK
<1> QED
  BY <1>2, <1>5, <1>6, <1>7, <1>8 DEF SearchInv

\* When the two bits of a position have been read, a device with this prefix has
\* every bit that the loop may take.
LEMMA HeardBits ==
    ASSUME Inv, pc = "not"
    PROVE  /\ a = 0 => \E d \in asked : Agrees(d) /\ d[i] = 0
           /\ Complement = 0 => \E d \in asked : Agrees(d) /\ d[i] = 1
           /\ a \in {0, 1} /\ Complement \in {0, 1}
<1>1. ASSUME Complement = 0 PROVE \E d \in asked : Agrees(d) /\ d[i] = 1
  <2>1. PICK d \in answering : d[i] # 0
    BY <1>1 DEF Complement
  <2>2. d \in asked /\ Agrees(d) /\ d \in Address /\ i \in Position
    BY OneWireConstants DEF Inv, SearchInv, TypeOK
  <2>3. d[i] = 1
    BY <2>1, <2>2 DEF Address
  <2> QED
    BY <2>2, <2>3
<1> QED
  BY <1>1 DEF Inv, SearchInv, TypeOK, Complement

-----------------------------------------------------------------------------
LEMMA StepInv == Inv /\ [Next]_vars => Inv'
<1> SUFFICES ASSUME Inv, [Next]_vars PROVE Inv'
  OBVIOUS
<1> USE OneWireConstants DEF Inv
<1>r. -1 \in -1 .. Bits - 1 /\ 0 \in 0 .. Bits
  OBVIOUS
<1>0. ASSUME Return PROVE SearchInv'
  BY <1>0 DEF Return, SearchInv
<1>1. ASSUME NEW d \in Device, Connect(d) PROVE Inv'
  <2>1. TypeOK'
    BY <1>1, Zenon DEF TypeOK, Connect, object, locals
  <2>2. SearchInv'
    BY <1>1 DEF SearchInv, Agrees, Connect, object, locals
  <2> QED
    BY <2>1, <2>2
<1>2. ASSUME NEW d \in Device, Disconnect(d) PROVE Inv'
  <2>1. TypeOK'
    <3>1. present' \in SUBSET Device /\ answering' \in SUBSET Device /\ {} \in SUBSET Address
      BY <1>2 DEF TypeOK, Disconnect
    <3> QED
      BY <1>2, <3>1, Zenon DEF TypeOK, Disconnect, object, locals
  <2>2. SearchInv'
    BY <1>2 DEF SearchInv, Agrees, Disconnect, object, locals
  <2> QED
    BY <2>1, <2>2
<1>3. CASE ResetSearch
  <2>1. TypeOK'
    <3>1. address' \in Address
      BY <1>3 DEF ResetSearch, Address
    <3> QED
      BY <1>3, <1>r, <3>1, Zenon DEF TypeOK, ResetSearch, locals
  <2>2. SearchInv'
    BY <1>3 DEF SearchInv, ResetSearch, locals
  <2> QED
    BY <2>1, <2>2
<1>4. CASE Search
  <2>1. TypeOK'
    BY <1>4, <1>r, Zenon DEF TypeOK, Search, object
  <2>2. 0 \in Position /\ 0 .. 0 - 1 = {}
    BY DEF Position
  <2>3. SearchInv'
    BY <1>4, <2>2 DEF SearchInv, Agrees, Search
  <2> QED
    BY <2>1, <2>3
<1>5. CASE ReadBit
  <2>1. a' \in {0, 1}
    BY <1>5 DEF ReadBit, Sent
  <2>2. TypeOK'
    BY <1>5, <2>1, Zenon DEF TypeOK, ReadBit, object
  <2>3. ASSUME a' = 0 PROVE \E d \in asked : Agrees(d) /\ d[i] = 0
    <3>1. PICK d \in answering : d[i] # 1
      BY <1>5, <2>3 DEF ReadBit, Sent
    <3>2. d \in asked /\ Agrees(d) /\ d \in Address /\ i \in Position
      BY <1>5 DEF SearchInv, TypeOK, ReadBit
    <3>3. d[i] = 0
      BY <3>1, <3>2 DEF Address
    <3> QED
      BY <3>2, <3>3
  <2>4. SearchInv'
    BY <1>5, <2>3 DEF SearchInv, Agrees, ReadBit, object
  <2> QED
    BY <2>2, <2>4
<1>6. CASE Vanished
  <2>1. TypeOK'
    BY <1>6, <1>r, Zenon DEF TypeOK, Vanished, Return, object
  <2> QED
    BY <1>6, <1>0, <2>1 DEF Vanished
<1>7. ASSUME NEW bit \in {0, 1}, pc = "not", Take(bit),
             \E d \in asked : Agrees(d) /\ d[i] = bit,
             searchJunction' \in {searchJunction, lastJunction, i},
             lastJunction' \in {lastJunction, i}, done' \in BOOLEAN
      PROVE  Inv'
  <2>1. /\ SearchInv' /\ address' \in Address /\ i' \in 0 .. Bits
        /\ answering' \in SUBSET Device /\ pc' \in {"bit", "end"}
        /\ i \in -1 .. Bits - 1
    BY <1>7, TakeKeeps
  <2>2. TypeOK'
    BY <1>7, <2>1, Zenon DEF TypeOK, Take
  <2> QED
    BY <2>1, <2>2
<1>8. CASE Agreed
  <2>1. pc = "not" /\ Take(a) /\ a # Complement
        /\ UNCHANGED <<searchJunction, lastJunction, done>>
    BY <1>8 DEF Agreed
  <2>2. a \in {0, 1} /\ \E d \in asked : Agrees(d) /\ d[i] = a
    BY <2>1, HeardBits
  <2> QED
    BY <1>7, <2>1, <2>2 DEF TypeOK
<1>9. CASE OtherBranch
  <2>1. pc = "not" /\ Take(1) /\ \E d \in asked : Agrees(d) /\ d[i] = 1
    BY <1>9, HeardBits DEF OtherBranch, Conflict
  <2> QED
    BY <1>7, <1>9, <2>1 DEF OtherBranch, Conflict, TypeOK
<1>10. CASE SameBranch
  <2>1. pc = "not" /\ Take(address[i]) /\ lastJunction' = i
        /\ searchJunction' = searchJunction /\ done' \in BOOLEAN
    BY <1>10, Zenon DEF SameBranch, Conflict, TypeOK
  <2>2. address[i] \in {0, 1}
    BY <2>1 DEF SearchInv, TypeOK, Address
  <2>3. \E d \in asked : Agrees(d) /\ d[i] = address[i]
    BY <1>10, <2>2, HeardBits DEF SameBranch, Conflict
  <2> QED
    BY <1>7, <2>1, <2>2, <2>3
<1>11. CASE NewBranch
  <2>1. pc = "not" /\ Take(0) /\ \E d \in asked : Agrees(d) /\ d[i] = 0
    BY <1>11, HeardBits DEF NewBranch, Conflict
  <2> QED
    BY <1>7, <1>11, <2>1 DEF NewBranch, Conflict
<1>12. CASE Found
  <2>1. TypeOK'
    <3>1. found' \in SUBSET Address
      BY <1>12 DEF TypeOK, Found
    <3> QED
      BY <1>12, <1>r, <3>1, Zenon DEF TypeOK, Found, Return
  <2> QED
    BY <1>12, <1>0, <2>1 DEF Found
<1>13. CASE UNCHANGED vars
  <2>1. TypeOK'
    BY <1>13, Zenon DEF TypeOK, vars
  <2>2. SearchInv'
    BY <1>13 DEF SearchInv, Agrees, vars
  <2> QED
    BY <2>1, <2>2
<1> QED
  BY <1>1, <1>2, <1>3, <1>4, <1>5, <1>6, <1>8, <1>9, <1>10, <1>11, <1>12, <1>13
     DEF Next

LEMMA InvHolds == Spec => []Inv
  BY InitInv, StepInv, PTL DEF Spec

-----------------------------------------------------------------------------
\* The junction and the bit stay positions of an address
\* (OneWireCRC::search, OneWireCRC.cpp:295-359).
THEOREM TypeCorrect == Spec => []TypeOK
<1>1. Inv => TypeOK
  BY DEF Inv
<1> QED
  BY <1>1, InvHolds, PTL

\* For every number of bits and every set of devices, search() returns only
\* the address of a device that answered (OneWireCRC.cpp:307-358).
THEOREM AddressIsReal == Spec => []FoundIsDevice
<1>1. Inv => FoundIsDevice
  <2> SUFFICES ASSUME Inv, pc = "end" PROVE address \in asked
    BY DEF FoundIsDevice
  <2>1. PICK d \in asked : Agrees(d)
    BY DEF Inv, SearchInv
  <2>2. i = Bits /\ d \in Address /\ address \in Address
    BY OneWireConstants DEF Inv, SearchInv, TypeOK
  <2>3. \A p \in Position : d[p] = address[p]
    BY <2>1, <2>2 DEF Agrees, Position
  <2>4. d = address
    BY <2>2, <2>3 DEF Address
  <2> QED
    BY <2>4
<1> QED
  BY <1>1, InvHolds, PTL

-----------------------------------------------------------------------------
(* The order of the addresses.  The first bit read is the most significant  *)
(* one; S is a set of devices.                                              *)

\* d and e have the same bits below position n.
Same(d, e, n) == \A q \in 0 .. n - 1 : d[q] = e[q]

\* d and e part at position p.
Part(d, e, p) == Same(d, e, p) /\ d[p] # e[p]

\* One of the first n bits tells that d comes before e.
Less(d, e, n) == \E p \in 0 .. n - 1 : Part(d, e, p) /\ e[p] = 1

\* On the way to e a branch of ones waits at position p.
Waits(S, e, p) == e[p] = 0 /\ \E d \in S : Part(d, e, p)

NoneWaits(S, e, n) == \A p \in 0 .. n - 1 : ~Waits(S, e, p)

LastWaits(S, e, p, n) ==
    p \in 0 .. n - 1 /\ Waits(S, e, p) /\ \A q \in 0 .. n - 1 : q > p => ~Waits(S, e, q)

LEMMA Positions ==
    /\ Bits \in Nat /\ Bits > 0 /\ Device \subseteq Address
    /\ \A p : p \in Position <=> p \in Int /\ 0 <= p /\ p < Bits
    /\ \A d \in Address, p \in Position : d[p] \in {0, 1}
BY OneWireConstants DEF Position, Address

LEMMA Least ==
    ASSUME NEW S, NEW n \in Nat, n \in S
    PROVE  \E m \in Nat : m \in S /\ m <= n /\ \A k \in Nat : k < m => k \notin S
<1> DEFINE T == {m \in Nat : m \in S}
<1>1. T \subseteq Nat /\ T # {}
  OBVIOUS
<1>2. PICK m \in T : \A k \in T : ~ (<<k, m>> \in OpToRel(<, Nat))
  BY <1>1, NatLessThanWellFounded, WFMin
<1>3. m \in Nat /\ m \in S
  BY <1>2
<1>4. ASSUME NEW k \in Nat, k < m PROVE k \notin S
  <2>1. <<k, m>> \in OpToRel(<, Nat)
    BY <1>3, <1>4 DEF OpToRel
  <2> QED
    BY <1>2, <2>1
<1>5. m <= n
  BY <1>3, <1>4
<1> QED
  BY <1>3, <1>4, <1>5

\* Two addresses that differ part somewhere.
LEMMA Parting ==
    ASSUME NEW d, NEW e, NEW n \in Nat, ~Same(d, e, n)
    PROVE  \E p \in 0 .. n - 1 : Part(d, e, p)
<1> DEFINE S == {q \in 0 .. n - 1 : d[q] # e[q]}
<1>1. PICK q \in 0 .. n - 1 : d[q] # e[q]
  BY DEF Same
<1>2. q \in Nat /\ q \in S
  BY <1>1
<1> HIDE DEF S
<1>3. PICK p \in Nat : p \in S /\ p <= q /\ \A k \in Nat : k < p => k \notin S
  BY <1>2, Least
<1>4. p \in 0 .. n - 1 /\ d[p] # e[p]
  BY <1>3 DEF S
<1>5. \A k \in 0 .. p - 1 : d[k] = e[k]
  BY <1>3, <1>4 DEF S
<1> QED
  BY <1>4, <1>5 DEF Part, Same

LEMMA SameIs ==
    ASSUME NEW d \in Address, NEW e \in Address, Same(d, e, Bits)
    PROVE  d = e
<1>1. \A p \in Position : d[p] = e[p]
  BY DEF Same, Position
<1> QED
  BY <1>1 DEF Address

LEMMA SameSame ==
    ASSUME NEW d, NEW e, NEW g, NEW n \in Int, NEW p \in Int, p <= n, Same(e, g, n)
    PROVE  /\ Same(e, g, p) /\ Same(g, e, p)
           /\ Same(d, e, p) <=> Same(d, g, p)
<1>1. \A q \in 0 .. p - 1 : q \in 0 .. n - 1
  OBVIOUS
<1> QED
  BY <1>1 DEF Same

\* What is known of the first n bits does not depend on the others.
LEMMA OnlyBelow ==
    ASSUME NEW S, NEW e, NEW g, NEW n \in Nat, Same(e, g, n)
    PROVE  /\ \A p \in 0 .. n - 1 : Waits(S, e, p) <=> Waits(S, g, p)
           /\ NoneWaits(S, e, n) <=> NoneWaits(S, g, n)
           /\ \A p : LastWaits(S, e, p, n) <=> LastWaits(S, g, p, n)
           /\ \A d : Less(d, e, n) <=> Less(d, g, n)
           /\ \A d : Same(d, e, n) <=> Same(d, g, n)
<1>1. \A d : \A p \in 0 .. n - 1 : Part(d, e, p) <=> Part(d, g, p)
  <2> SUFFICES ASSUME NEW d, NEW p \in 0 .. n - 1
               PROVE  Part(d, e, p) <=> Part(d, g, p)
    OBVIOUS
  <2>1. p \in Int /\ p <= n /\ e[p] = g[p]
    BY DEF Same
  <2>2. Same(d, e, p) <=> Same(d, g, p)
    BY <2>1, SameSame
  <2> QED
    BY <2>1, <2>2 DEF Part
<1>2. \A p \in 0 .. n - 1 : e[p] = g[p]
  BY DEF Same
<1>3. \A p \in 0 .. n - 1 : Waits(S, e, p) <=> Waits(S, g, p)
  BY <1>1, <1>2 DEF Waits
<1>4. \A d : Less(d, e, n) <=> Less(d, g, n)
  BY <1>1, <1>2 DEF Less
<1>5. \A d : Same(d, e, n) <=> Same(d, g, n)
  BY SameSame
<1> QED
  BY <1>3, <1>4, <1>5 DEF NoneWaits, LastWaits

\* One bit more.
LEMMA OneBit ==
    ASSUME NEW S, NEW e, NEW n \in Nat
    PROVE  /\ NoneWaits(S, e, n + 1) <=> NoneWaits(S, e, n) /\ ~Waits(S, e, n)
           /\ \A p : LastWaits(S, e, p, n) /\ ~Waits(S, e, n) => LastWaits(S, e, p, n + 1)
           /\ Waits(S, e, n) => LastWaits(S, e, n, n + 1)
           /\ \A d : Less(d, e, n + 1) <=> Less(d, e, n) \/ (Part(d, e, n) /\ e[n] = 1)
           /\ \A d : Same(d, e, n + 1) <=> Same(d, e, n) /\ d[n] = e[n]
<1>1. \A q : q \in 0 .. (n + 1) - 1 <=> q \in 0 .. n - 1 \/ q = n
  OBVIOUS
<1>2. NoneWaits(S, e, n + 1) <=> NoneWaits(S, e, n) /\ ~Waits(S, e, n)
  BY <1>1 DEF NoneWaits
<1>3. \A p : LastWaits(S, e, p, n) /\ ~Waits(S, e, n) => LastWaits(S, e, p, n + 1)
  BY <1>1 DEF LastWaits
<1>4. Waits(S, e, n) => LastWaits(S, e, n, n + 1)
  BY DEF LastWaits
<1>5. \A d : Less(d, e, n + 1) <=> Less(d, e, n) \/ (Part(d, e, n) /\ e[n] = 1)
  BY <1>1 DEF Less
<1>6. \A d : Same(d, e, n + 1) <=> Same(d, e, n) /\ d[n] = e[n]
  BY <1>1 DEF Same
<1> QED
  BY <1>2, <1>3, <1>4, <1>5, <1>6

LEMMA NotItself ==
    ASSUME NEW d, NEW n PROVE ~Less(d, d, n)
BY DEF Less, Part

LEMMA Compared ==
    ASSUME NEW d \in Address, NEW e \in Address
    PROVE  \/ d = e \/ Less(d, e, Bits)
           \/ \E p \in 0 .. Bits - 1 : Part(d, e, p) /\ d[p] = 1 /\ e[p] = 0
<1> SUFFICES ASSUME d # e
             PROVE  \/ Less(d, e, Bits)
                    \/ \E p \in 0 .. Bits - 1 : Part(d, e, p) /\ d[p] = 1 /\ e[p] = 0
  OBVIOUS
<1>1. ~Same(d, e, Bits)
  BY SameIs
<1>2. PICK p \in 0 .. Bits - 1 : Part(d, e, p)
  BY <1>1, Parting, Positions
<1>3. d[p] \in {0, 1} /\ e[p] \in {0, 1} /\ d[p] # e[p]
  BY <1>2, Positions DEF Position, Part
<1>4. CASE e[p] = 1
  BY <1>2, <1>4 DEF Less
<1>5. CASE e[p] = 0
  BY <1>2, <1>3, <1>5
<1> QED
  BY <1>3, <1>4, <1>5

\* Where no branch waits the address is the last one.
LEMMA LastOfAll ==
    ASSUME NEW S, S \subseteq Address, NEW e \in Address, NoneWaits(S, e, Bits)
    PROVE  S = {d \in S : d = e \/ Less(d, e, Bits)}
<1> SUFFICES ASSUME NEW d \in S PROVE d = e \/ Less(d, e, Bits)
  OBVIOUS
<1>1. ASSUME NEW p \in 0 .. Bits - 1, Part(d, e, p), d[p] = 1, e[p] = 0 PROVE FALSE
  BY <1>1 DEF NoneWaits, Waits
<1> QED
  BY <1>1, Compared

\* With the last branch that waits the search turns to what comes next: what has
\* been found comes before all that now answers.
LEMMA Turn ==
    ASSUME NEW S, S \subseteq Address, NEW e \in S, NEW j, LastWaits(S, e, j, Bits),
           NEW g \in Address, Same(e, g, j), g[j] = 1
    PROVE  {d \in S : d = e \/ Less(d, e, Bits)} = {d \in S : Less(d, g, j + 1)}
<1> SUFFICES ASSUME NEW d \in S
             PROVE  d = e \/ Less(d, e, Bits) <=> Less(d, g, j + 1)
  OBVIOUS
<1>1. j \in Nat /\ j \in 0 .. Bits - 1 /\ e[j] = 0 /\ d \in Address /\ e \in Address
  BY Positions DEF LastWaits, Waits
<1>2. Less(d, g, j + 1) <=> Less(d, g, j) \/ (Part(d, g, j) /\ g[j] = 1)
  BY <1>1, OneBit
<1>3. Less(d, g, j) <=> Less(d, e, j)
  BY <1>1, OnlyBelow
<1>4. Part(d, g, j) <=> Same(d, e, j) /\ d[j] = 0
  <2>1. Same(d, e, j) <=> Same(d, g, j)
    BY <1>1, SameSame
  <2>2. d[j] \in {0, 1}
    BY <1>1, Positions DEF Position
  <2> QED
    BY <2>1, <2>2 DEF Part
<1>5. ASSUME d = e PROVE Less(d, g, j + 1)
  BY <1>1, <1>2, <1>4, <1>5 DEF Same
<1>6. ASSUME Less(d, e, Bits) PROVE Less(d, g, j + 1)
  <2>1. PICK p \in 0 .. Bits - 1 : Part(d, e, p) /\ e[p] = 1
    BY <1>6 DEF Less
  <2>2. CASE p < j
    <3>1. p \in 0 .. j - 1
      BY <1>1, <2>2
    <3> QED
      BY <1>2, <1>3, <2>1, <3>1 DEF Less
  <2>3. CASE j < p
    <3>1. Same(d, e, p) /\ j \in 0 .. p - 1
      BY <1>1, <2>1, <2>3 DEF Part
    <3>2. Same(d, e, j) /\ d[j] = 0
      BY <1>1, <3>1 DEF Same
    <3> QED
      BY <1>2, <1>4, <3>2
  <2>4. p # j
    BY <1>1, <2>1
  <2> QED
    BY <1>1, <2>2, <2>3, <2>4
<1>7. ASSUME Less(d, g, j + 1) PROVE d = e \/ Less(d, e, Bits)
  <2>1. CASE Less(d, e, j)
    <3>1. \A p : p \in 0 .. j - 1 => p \in 0 .. Bits - 1
      BY <1>1, Positions
    <3> QED
      BY <2>1, <3>1 DEF Less
  <2>2. CASE Same(d, e, j) /\ d[j] = 0
    <3>1. ASSUME NEW p \in 0 .. Bits - 1, Part(d, e, p), d[p] = 1, e[p] = 0 PROVE FALSE
      <4>1. p > j
        <5>1. CASE p < j
          BY <1>1, <2>2, <3>1, <5>1 DEF Same, Part
        <5>2. CASE p = j
          BY <2>2, <3>1, <5>2
        <5> QED
          BY <1>1, <5>1, <5>2
      <4>2. Waits(S, e, p)
        BY <3>1 DEF Waits
      <4> QED
        BY <4>1, <4>2 DEF LastWaits
    <3> QED
      BY <1>1, <3>1, Compared
  <2> QED
    BY <1>2, <1>3, <1>4, <1>7, <2>1, <2>2
<1> QED
  BY <1>5, <1>6, <1>7

\* There are finitely many addresses: each is told by its ones.
LEMMA FewAddresses == IsFiniteSet(Address)
<1> DEFINE ones == [d \in Address |-> {p \in Position : d[p] = 1}]
<1>1. IsFiniteSet(SUBSET Position)
  <2>1. IsFiniteSet(Position)
    BY Positions, FS_Interval DEF Position
  <2> QED
    BY <2>1, FS_SUBSET
<1>2. ones \in [Address -> SUBSET Position]
  OBVIOUS
<1>3. ASSUME NEW d \in Address, NEW e \in Address, ones[d] = ones[e] PROVE d = e
  <2>1. ASSUME NEW p \in Position PROVE d[p] = e[p]
    <3>1. d[p] = 1 <=> e[p] = 1
      BY <1>3, <2>1
    <3> QED
      BY <2>1, <3>1, Positions
  <2> QED
    BY <2>1 DEF Address
<1> HIDE DEF ones
<1>4. ones \in Injection(Address, SUBSET Position)
  BY <1>2, <1>3 DEF Injection, IsInjective
<1> QED
  BY <1>1, <1>4, FS_Injection

\* Three junctions one behind the other on the way to a device f, of which the
\* first is passed by the zero and the second by the one.
Buried(S) ==
    \E d, e, f, g \in S : \E p, q, r \in Position :
        /\ p < q /\ q < r /\ f[p] = 0 /\ f[q] = 1
        /\ Part(d, f, p) /\ Part(e, f, q) /\ Part(g, f, r)

\* For that four devices are needed.
LEMMA ThreeAreFlat ==
    ASSUME NEW S, S \subseteq Address, Cardinality(S) <= 3
    PROVE  ~Buried(S)
<1> SUFFICES ASSUME NEW d \in S, NEW e \in S, NEW f \in S, NEW g \in S,
                    NEW p \in Position, NEW q \in Position, NEW r \in Position,
                    p < q, q < r, Part(d, f, p), Part(e, f, q), Part(g, f, r)
             PROVE  FALSE
  BY DEF Buried
<1>1. p \in Int /\ q \in Int /\ r \in Int /\ 0 <= p
  BY Positions
<1>2. d[p] # f[p] /\ e[q] # f[q] /\ g[r] # f[r]
  BY DEF Part
<1>3. e[p] = f[p] /\ g[p] = f[p] /\ g[q] = f[q]
  BY <1>1 DEF Part, Same
<1>4. d # e /\ d # f /\ d # g /\ e # f /\ e # g /\ f # g
  BY <1>2, <1>3
<1> DEFINE A == {d}
           B == A \cup {e}
           C == B \cup {f}
           T == C \cup {g}
<1>5. IsFiniteSet(A) /\ Cardinality(A) = 1
  BY FS_Singleton
<1>6. IsFiniteSet(B) /\ Cardinality(B) = 2
  <2>1. e \notin A
    BY <1>4
  <2> HIDE DEF A
  <2> QED
    BY <1>5, <2>1, FS_AddElement
<1>7. IsFiniteSet(C) /\ Cardinality(C) = 3
  <2>1. f \notin B
    BY <1>4
  <2> HIDE DEF B
  <2> QED
    BY <1>6, <2>1, FS_AddElement
<1>8. IsFiniteSet(T) /\ Cardinality(T) = 4
  <2>1. g \notin C
    BY <1>4
  <2> HIDE DEF C
  <2> QED
    BY <1>7, <2>1, FS_AddElement
<1>9. T \in SUBSET S
  OBVIOUS
<1>10. IsFiniteSet(S)
  BY FewAddresses, FS_Subset
<1> HIDE DEF T
<1>11. Cardinality(T) <= Cardinality(S) /\ Cardinality(S) \in Nat
  BY <1>9, <1>10, FS_Subset, FS_CardinalityType
<1> QED
  BY <1>8, <1>11

-----------------------------------------------------------------------------
(* One search after the other on a bus where nothing changes *)

Rests ==
    \/ found = {} /\ searchJunction = -1 /\ ~searchExhausted
    \/ address \in present /\ (searchExhausted <=> NoneWaits(present, address, Bits))

\* Up to searchJunction the search goes the way of the last one.
Walks ==
    /\ ~searchExhausted /\ asked = present
    /\ answering = {d \in present : Same(d, address, i)} /\ answering # {}
    /\ pc = "not" => (a = 1 <=> \A d \in answering : d[i] = 1)
    /\ done <=> NoneWaits(present, address, i)
    /\ lastJunction < i
    /\ i <= searchJunction => address \in present

WalkInv == steady => IF pc = "idle" THEN Rests ELSE Walks

LEMMA StateIs ==
    ASSUME Inv
    PROVE  /\ present \subseteq Address /\ address \in Address /\ i \in Nat /\ i <= Bits
           /\ searchJunction \in Int /\ searchJunction < Bits /\ lastJunction \in Int
           /\ done \in BOOLEAN /\ searchExhausted \in BOOLEAN
           /\ pc = "not" => i \in Position /\ i \in Nat /\ i \in 0 .. i
           /\ pc = "end" => i = Bits
BY Positions DEF Inv, TypeOK, SearchInv

\* What the two bits say that were read.
LEMMA Heard ==
    ASSUME Inv, Walks, pc = "not"
    PROVE  /\ Agreed => \A d \in answering : d[i] = a
           /\ Conflict => /\ \E d \in answering : d[i] = 0
                          /\ \E d \in answering : d[i] = 1
           /\ ~Vanished
           /\ \A d \in answering : d[i] \in {0, 1}
<1>1. answering \subseteq Address /\ i \in Position /\ a \in {0, 1}
  BY StateIs, Positions DEF Inv, TypeOK
<1>2. \A d \in answering : d[i] \in {0, 1}
  BY <1>1, Positions
<1>3. a = 1 <=> \A d \in answering : d[i] = 1
  BY DEF Walks
<1>4. Complement = 1 <=> \A d \in answering : d[i] = 0
  BY DEF Complement
<1>5. Complement \in {0, 1}
  BY DEF Complement
<1>6. ASSUME Agreed PROVE \A d \in answering : d[i] = a
  <2>1. a # Complement
    BY <1>6 DEF Agreed
  <2>2. CASE a = 1
    BY <1>3, <2>2
  <2>3. CASE a = 0
    <3>1. Complement = 1
      BY <1>5, <2>1, <2>3
    <3> QED
      BY <1>4, <2>3, <3>1
  <2> QED
    BY <1>1, <2>2, <2>3
<1>7. ASSUME Conflict PROVE /\ \E d \in answering : d[i] = 0
                            /\ \E d \in answering : d[i] = 1
  <2>1. a = 0 /\ Complement = 0
    BY <1>7 DEF Conflict
  <2>2. PICK d \in answering : d[i] # 1
    BY <1>3, <2>1
  <2>3. PICK e \in answering : e[i] # 0
    BY <1>4, <2>1
  <2>4. d[i] = 0 /\ e[i] = 1
    BY <1>2, <2>2, <2>3
  <2> QED
    BY <2>4
<1>8. ASSUME Vanished PROVE FALSE
  <2>1. a = 1 /\ Complement = 1
    BY <1>8 DEF Vanished
  <2>2. PICK d \in answering : TRUE
    BY DEF Walks
  <2>3. d[i] = 1 /\ d[i] = 0
    BY <1>3, <1>4, <2>1, <2>2
  <2> QED
    BY <2>3
<1> QED
  BY <1>2, <1>6, <1>7, <1>8

\* What a bit does that somebody sent.
LEMMA Taken ==
    ASSUME Inv, Walks, pc = "not", NEW bit \in {0, 1}, Take(bit),
           NEW e \in answering, e[i] = bit
    PROVE  /\ pc' \in {"bit", "end"} /\ i' = i + 1 /\ i' \in Nat
           /\ UNCHANGED <<present, searchExhausted, asked, found, steady>>
           /\ address' \in Address /\ address'[i] = bit
           /\ Same(address, address', i) /\ Same(address', address, i)
           /\ address[i] = bit => address' = address
           /\ answering' = {d \in present : Same(d, address', i + 1)} /\ answering' # {}
           /\ Waits(present, address', i) <=> bit = 0 /\ \E d \in answering : d[i] = 1
<1>1. i \in Nat /\ i \in Position /\ address \in Address
  BY StateIs
<1>2. address' = [address EXCEPT ![i] = bit]
  BY DEF Take
<1>3. address' \in Address /\ address'[i] = bit
  BY <1>1, <1>2 DEF Address
<1>4. \A q \in 0 .. i - 1 : address'[q] = address[q]
  <2>1. \A q \in 0 .. i - 1 : q \in Position /\ q # i
    BY <1>1, Positions
  <2> QED
    BY <1>1, <1>2, <2>1 DEF Address
<1>5. Same(address, address', i) /\ Same(address', address, i)
  BY <1>4 DEF Same
<1>6. \A d : Same(d, address, i) <=> Same(d, address', i)
  BY <1>1, <1>5, SameSame
<1>7. \A d \in answering : d \in present /\ Same(d, address', i)
  BY <1>6 DEF Walks
<1>8. answering' = {d \in present : Same(d, address', i + 1)}
  <2>1. \A d : Same(d, address', i + 1) <=> Same(d, address', i) /\ d[i] = bit
    BY <1>1, <1>3, OneBit
  <2>2. answering' = {d \in answering : d[i] = bit}
    BY DEF Take
  <2>3. answering = {d \in present : Same(d, address', i)}
    BY <1>6 DEF Walks
  <2> QED
    BY <2>1, <2>2, <2>3
<1>9. answering' # {}
  BY DEF Take
<1>10. Waits(present, address', i) <=> bit = 0 /\ \E d \in answering : d[i] = 1
  <2>1. answering = {d \in present : Same(d, address', i)}
    BY <1>6 DEF Walks
  <2>2. \A d \in answering : d[i] \in {0, 1}
    BY Heard
  <2> QED
    BY <1>3, <2>1, <2>2 DEF Waits, Part
<1>11. address[i] = bit => address' = address
  BY <1>1, <1>2 DEF Address
<1>12. /\ pc' \in {"bit", "end"} /\ i' = i + 1
       /\ UNCHANGED <<present, searchExhausted, asked, found, steady>>
  BY DEF Take
<1> QED
  BY <1>1, <1>3, <1>5, <1>8, <1>9, <1>10, <1>11, <1>12

LEMMA TakenWalks ==
    ASSUME Inv, Walks, pc = "not", NEW bit \in {0, 1}, Take(bit),
           NEW e \in answering, e[i] = bit,
           lastJunction' \in {lastJunction, i},
           done' <=> done /\ ~Waits(present, address', i),
           i + 1 <= searchJunction' => address' \in present
    PROVE  pc' # "idle" /\ Walks'
<1>1. /\ pc' \in {"bit", "end"} /\ i' = i + 1
      /\ UNCHANGED <<present, searchExhausted, asked, found, steady>>
      /\ Same(address, address', i)
      /\ answering' = {d \in present : Same(d, address', i + 1)} /\ answering' # {}
  BY Taken
<1>2. i \in Nat
  BY StateIs
<1>3. NoneWaits(present, address', i + 1) <=> done'
  <2>1. NoneWaits(present, address', i) <=> NoneWaits(present, address, i)
    BY <1>1, <1>2, OnlyBelow
  <2>2. NoneWaits(present, address', i + 1)
        <=> NoneWaits(present, address', i) /\ ~Waits(present, address', i)
    BY <1>2, OneBit
  <2> QED
    BY <2>1, <2>2 DEF Walks
<1>4. lastJunction' < i + 1
  BY <1>2, StateIs DEF Walks
<1>5. (done <=> NoneWaits(present, address, i))'
  BY <1>1, <1>3
<1>6. (answering = {d \in present : Same(d, address, i)})'
  BY <1>1
<1>7. pc' # "not" /\ pc' # "idle"
  BY <1>1
<1>8. ~searchExhausted' /\ asked' = present'
  BY <1>1 DEF Walks
<1> QED
  BY <1>1, <1>4, <1>5, <1>6, <1>7, <1>8 DEF Walks

LEMMA InitWalks == Init => WalkInv
BY DEF Init, WalkInv, Rests

\* A bus on which something changes, or a new enumeration.
LEMMA OtherSteps ==
    ASSUME \/ \E d \in Device : Connect(d) \/ Disconnect(d)
           \/ ResetSearch
    PROVE  \/ ~steady'
           \/ pc' = "idle" /\ found' = {} /\ searchJunction' = -1 /\ ~searchExhausted'
BY DEF Connect, Disconnect, ResetSearch, locals

\* The steps of a search on a bus where nothing changes.
Searches ==
    Search \/ ReadBit \/ Vanished \/ Agreed \/ OtherBranch \/ SameBranch \/ NewBranch \/ Found

LEMMA SearchWalks ==
    ASSUME Inv, WalkInv, steady, Search PROVE pc' # "idle" /\ Walks'
<1>1. Rests /\ ~searchExhausted
  BY DEF WalkInv, Search
<1>2. /\ pc' = "bit" /\ i' = 0 /\ lastJunction' = -1 /\ done' = TRUE
      /\ answering' = present /\ asked' = present /\ present # {}
      /\ UNCHANGED <<present, address, searchJunction, searchExhausted>>
  BY DEF Search, object
<1>3. \A d : Same(d, address, 0)
  BY DEF Same
<1>4. NoneWaits(present, address, 0)
  BY DEF NoneWaits
<1>5. 0 <= searchJunction => address \in present
  <2>1. searchJunction = -1 => ~(0 <= searchJunction)
    OBVIOUS
  <2> QED
    BY <1>1, <2>1, Zenon DEF Rests
<1> QED
  BY <1>1, <1>2, <1>3, <1>4, <1>5 DEF Walks

LEMMA ReadWalks ==
    ASSUME Inv, WalkInv, steady, ReadBit PROVE pc' # "idle" /\ Walks'
<1>1. Walks
  BY DEF WalkInv, ReadBit
<1>2. /\ pc' = "not" /\ a' = Sent
      /\ UNCHANGED <<present, answering, address, searchJunction, searchExhausted, i,
                     lastJunction, done, asked>>
  BY DEF ReadBit, object
<1>3. Sent = 1 <=> \A d \in answering : d[i] = 1
  BY DEF Sent
<1>4. (a = 1 <=> \A d \in answering : d[i] = 1)'
  BY <1>2, <1>3
<1> QED
  BY <1>1, <1>2, <1>4 DEF Walks

LEMMA AgreedIs ==
    ASSUME Inv, Walks, Agreed
    PROVE  /\ pc = "not" /\ Take(a) /\ a \in {0, 1}
           /\ UNCHANGED <<searchJunction, lastJunction, done>>
           /\ \E e \in answering : e[i] = a
           /\ \A e \in answering : e[i] = a
           /\ ~Waits(present, address', i)
           /\ address \in present => address' = address /\ ~Waits(present, address, i)
<1>1. /\ pc = "not" /\ Take(a) /\ a \in {0, 1} /\ i \in Nat
      /\ UNCHANGED <<searchJunction, lastJunction, done>>
  BY StateIs DEF Agreed, Inv, TypeOK
<1>2. \A d \in answering : d[i] = a
  BY <1>1, Heard
<1>3. \E e \in answering : e[i] = a
  BY <1>2 DEF Walks
<1>4. ~Waits(present, address', i) /\ (address[i] = a => address' = address)
  BY <1>1, <1>2, <1>3, Taken
<1>5. ASSUME address \in present PROVE address[i] = a
  BY <1>2, <1>5 DEF Walks, Same
<1> QED
  BY <1>1, <1>2, <1>3, <1>4, <1>5

LEMMA ConflictIs ==
    ASSUME Inv, Walks, NEW bit \in {0, 1}, Conflict, Take(bit)
    PROVE  /\ pc = "not" /\ lastJunction' = i
           /\ \E e \in answering : e[i] = bit
           /\ \E e \in answering : e[i] = 1 - bit
           /\ Waits(present, address', i) <=> bit = 0
<1>1. pc = "not" /\ lastJunction' = i
  BY DEF Conflict
<1>2. (\E e \in answering : e[i] = 0) /\ (\E e \in answering : e[i] = 1)
  BY <1>1, Heard
<1>3. /\ \E e \in answering : e[i] = bit
      /\ \E e \in answering : e[i] = 1 - bit
  BY <1>2
<1>4. Waits(present, address', i) <=> bit = 0
  BY <1>1, <1>2, <1>3, Taken
<1> QED
  BY <1>1, <1>3, <1>4

LEMMA StepWalks ==
    ASSUME Inv, WalkInv, steady, Agreed \/ OtherBranch \/ SameBranch \/ NewBranch
    PROVE  pc = "not" /\ Walks /\ pc' # "idle" /\ Walks'
<1>1. pc = "not" /\ Walks
  BY DEF WalkInv, Agreed, OtherBranch, SameBranch, NewBranch, Conflict
<1>2. i \in Nat /\ i \in Position /\ searchJunction \in Int /\ done \in BOOLEAN
  BY <1>1, StateIs
<1>3. address[i] \in {0, 1}
  BY <1>1, <1>2, StateIs, Positions
<1>4. CASE Agreed
  <2>1. i + 1 <= searchJunction' => address' \in present
    <3> SUFFICES ASSUME i + 1 <= searchJunction' PROVE address' \in present
      OBVIOUS
    <3>1. searchJunction' = searchJunction
      BY <1>1, <1>4, AgreedIs
    <3>2. i <= searchJunction
      BY <1>2, <3>1
    <3>3. address \in present
      BY <1>1, <3>2 DEF Walks
    <3> QED
      BY <1>1, <1>4, <3>3, AgreedIs
  <2> QED
    BY <1>1, <1>4, <2>1, AgreedIs, TakenWalks
<1>5. CASE OtherBranch
  <2>1. Conflict /\ Take(1) /\ i = searchJunction /\ searchJunction' = lastJunction
        /\ done' = done
    BY <1>5 DEF OtherBranch
  <2>2. ~(i + 1 <= searchJunction')
    BY <1>1, <1>2, <2>1, StateIs DEF Walks
  <2>3. \E e \in answering : e[i] = 1
    BY <1>1, <2>1, ConflictIs
  <2>4. ~Waits(present, address', i) /\ lastJunction' = i
    BY <1>1, <2>1, ConflictIs
  <2> QED
    BY <1>1, <2>1, <2>2, <2>3, <2>4, TakenWalks
<1>6. CASE SameBranch
  <2>1. Conflict /\ Take(address[i]) /\ i < searchJunction /\ searchJunction' = searchJunction
        /\ done' = (done /\ address[i] = 1)
    BY <1>6 DEF SameBranch
  <2>2. \E e \in answering : e[i] = address[i]
    BY <1>1, <1>3, <2>1, ConflictIs
  <2>3. (Waits(present, address', i) <=> address[i] = 0) /\ lastJunction' = i
    BY <1>1, <1>3, <2>1, ConflictIs
  <2>4. address' = address /\ present' = present
    BY <1>1, <1>3, <2>1, <2>2, Taken
  <2>5. address' \in present
    BY <1>1, <1>2, <2>1, <2>4 DEF Walks
  <2>6. done' <=> done /\ ~Waits(present, address', i)
    <3>1. address[i] = 1 <=> ~Waits(present, address', i)
      BY <1>3, <2>3
    <3> QED
      BY <2>1, <3>1, Zenon
  <2> QED
    BY <1>1, <1>3, <2>1, <2>2, <2>3, <2>5, <2>6, TakenWalks
<1>7. CASE NewBranch
  <2>1. Conflict /\ Take(0) /\ searchJunction' = i /\ done' = FALSE
    BY <1>7 DEF NewBranch
  <2>2. ~(i + 1 <= searchJunction')
    BY <1>2, <2>1
  <2>3. \E e \in answering : e[i] = 0
    BY <1>1, <2>1, ConflictIs
  <2>4. Waits(present, address', i) /\ lastJunction' = i
    BY <1>1, <2>1, ConflictIs
  <2> QED
    BY <1>1, <2>1, <2>2, <2>3, <2>4, TakenWalks
<1> QED
  BY <1>1, <1>4, <1>5, <1>6, <1>7

\* What a search returns on such a bus is connected, and searchExhausted then
\* says that no branch waits.
LEMMA FoundRests ==
    ASSUME Inv, WalkInv, steady, Found
    PROVE  /\ Walks /\ i = Bits /\ pc' = "idle" /\ Rests' /\ address \in present
           /\ UNCHANGED <<present, address, searchJunction>>
           /\ found' = found \cup {address} /\ searchExhausted' = done
<1>1. Walks /\ pc = "end" /\ i = Bits
  BY StateIs DEF WalkInv, Found
<1>2. /\ pc' = "idle" /\ UNCHANGED <<present, address, searchJunction>>
      /\ found' = found \cup {address} /\ searchExhausted' = (searchExhausted \/ done)
  BY DEF Found, Return
<1>3. searchExhausted' = done
  BY <1>1, <1>2, StateIs DEF Walks
<1>4. address \in present
  <2>1. PICK d \in answering : TRUE
    BY <1>1 DEF Walks
  <2>2. d \in present /\ Same(d, address, Bits)
    BY <1>1, <2>1 DEF Walks
  <2> QED
    BY <2>2, StateIs, SameIs
<1>5. Rests'
  BY <1>1, <1>2, <1>3, <1>4 DEF Rests, Walks
<1> QED
  BY <1>1, <1>2, <1>3, <1>4, <1>5

LEMMA NextWalks == Inv /\ WalkInv /\ [Next]_vars => WalkInv'
<1> SUFFICES ASSUME Inv, WalkInv, [Next]_vars, steady' PROVE WalkInv'
  BY DEF WalkInv
<1>1. CASE (\E d \in Device : Connect(d) \/ Disconnect(d)) \/ ResetSearch
  BY <1>1, OtherSteps DEF WalkInv, Rests
<1>2. CASE Searches
  <2>1. steady
    BY <1>2 DEF Searches, Search, ReadBit, Vanished, Agreed, OtherBranch, SameBranch,
                NewBranch, Found, Take
  <2>2. CASE Search
    BY <2>1, <2>2, SearchWalks DEF WalkInv
  <2>3. CASE ReadBit
    BY <2>1, <2>3, ReadWalks DEF WalkInv
  <2>4. ~Vanished
    BY <2>1, Heard DEF WalkInv, Vanished
  <2>5. CASE Agreed \/ OtherBranch \/ SameBranch \/ NewBranch
    BY <2>1, <2>5, StepWalks DEF WalkInv
  <2>6. CASE Found
    BY <2>1, <2>6, FoundRests DEF WalkInv
  <2> QED
    BY <1>2, <2>2, <2>3, <2>4, <2>5, <2>6 DEF Searches
<1>3. CASE UNCHANGED vars
  BY <1>3, Zenon DEF WalkInv, Rests, Walks, vars
<1> QED
  BY <1>1, <1>2, <1>3 DEF Next, Searches

-----------------------------------------------------------------------------
(* The order in which the devices are found *)

\* All devices up to the address have been found, and nothing else.
FoundSoFar ==
    /\ address \in present
    /\ found = {d \in present : d = address \/ Less(d, address, Bits)}

Ordered ==
    IF pc = "idle"
    THEN \/ found = {} /\ searchJunction = -1 /\ ~searchExhausted
         \/ /\ FoundSoFar
            /\ searchExhausted \/ LastWaits(present, address, searchJunction, Bits)
    ELSE IF i <= searchJunction
    THEN /\ FoundSoFar /\ LastWaits(present, address, searchJunction, Bits)
         /\ done \/ LastWaits(present, address, lastJunction, i)
    ELSE /\ found = {d \in present : Less(d, address, i)}
         /\ done \/ LastWaits(present, address, searchJunction, i)

OrderInv == steady /\ ~Buried(present) => Ordered

LEMMA InitOrdered == Init => OrderInv
BY DEF Init, OrderInv, Ordered

LEMMA SearchOrdered ==
    ASSUME Inv, WalkInv, steady, Ordered, Search PROVE Ordered'
<1>1. /\ pc = "idle" /\ ~searchExhausted /\ pc' = "bit" /\ i' = 0 /\ done' = TRUE
      /\ UNCHANGED <<present, address, searchJunction, found>>
  BY DEF Search, object
<1>2. \/ found = {} /\ searchJunction = -1
      \/ FoundSoFar /\ LastWaits(present, address, searchJunction, Bits)
  BY <1>1, Zenon DEF Ordered
<1>3. CASE found = {} /\ searchJunction = -1
  <2>1. ~(i' <= searchJunction')
    BY <1>1, <1>3
  <2>2. found' = {d \in present' : Less(d, address', i')}
    BY <1>1, <1>3 DEF Less
  <2> QED
    BY <1>1, <2>1, <2>2, Zenon DEF Ordered
<1>4. CASE FoundSoFar /\ LastWaits(present, address, searchJunction, Bits)
  <2>1. i' <= searchJunction'
    BY <1>1, <1>4 DEF LastWaits
  <2>2. FoundSoFar' /\ LastWaits(present, address, searchJunction, Bits)'
    BY <1>1, <1>4, Zenon DEF FoundSoFar
  <2> QED
    BY <1>1, <2>1, <2>2, Zenon DEF Ordered
<1> QED
  BY <1>2, <1>3, <1>4

LEMMA FoundOrdered ==
    ASSUME Inv, WalkInv, steady, Ordered, Found PROVE Ordered'
<1>1. /\ Walks /\ i = Bits /\ pc' = "idle" /\ address \in present
      /\ UNCHANGED <<present, address, searchJunction>>
      /\ found' = found \cup {address} /\ searchExhausted' = done
  BY FoundRests
<1>2. pc # "idle" /\ ~(i <= searchJunction)
  BY <1>1, StateIs DEF Found
<1>3. /\ found = {d \in present : Less(d, address, Bits)}
      /\ done \/ LastWaits(present, address, searchJunction, Bits)
  BY <1>1, <1>2 DEF Ordered
<1>4. found' = {d \in present : d = address \/ Less(d, address, Bits)}
  BY <1>1, <1>3
<1>5. FoundSoFar'
  BY <1>1, <1>4 DEF FoundSoFar
<1>6. searchExhausted' \/ LastWaits(present, address, searchJunction, Bits)'
  BY <1>1, <1>3
<1> QED
  BY <1>1, <1>5, <1>6, Zenon DEF Ordered

\* While the search goes the way of the last one nothing changes but lastJunction.
LEMMA SameWay ==
    ASSUME Inv, Walks, pc = "not", Ordered, i < searchJunction, pc' # "idle", i' = i + 1,
           UNCHANGED <<present, address, searchJunction, found>>,
           \/ ~Waits(present, address, i) /\ done' = done /\ lastJunction' = lastJunction
           \/ done' = done /\ done
           \/ lastJunction' = i /\ Waits(present, address, i)
    PROVE  Ordered'
<1>1. i \in Nat /\ searchJunction \in Int
  BY StateIs
<1>2. i <= searchJunction /\ i' <= searchJunction'
  BY <1>1
<1>3. /\ FoundSoFar /\ LastWaits(present, address, searchJunction, Bits)
      /\ done \/ LastWaits(present, address, lastJunction, i)
  BY <1>2, Zenon DEF Ordered
<1>4. done' \/ LastWaits(present, address, lastJunction', i + 1)
  BY <1>1, <1>3, OneBit
<1>5. FoundSoFar' /\ LastWaits(present, address, searchJunction, Bits)'
      /\ (done \/ LastWaits(present, address, lastJunction, i))'
  BY <1>3, <1>4, Zenon DEF FoundSoFar
<1> QED
  BY <1>2, <1>5, Zenon DEF Ordered

\* Behind the junction the prefix decides what has been found.
LEMMA NewWay ==
    ASSUME Inv, Walks, pc = "not", Ordered, i > searchJunction, pc' # "idle", i' = i + 1,
           UNCHANGED <<present, found>>, Same(address, address', i),
           address'[i] = 1 => \A d \in answering : d[i] = 1,
           \/ ~Waits(present, address', i) /\ done' = done /\ searchJunction' = searchJunction
           \/ searchJunction' = i /\ Waits(present, address', i)
    PROVE  Ordered'
<1>1. i \in Nat /\ searchJunction \in Int
  BY StateIs
<1>2. ~(i <= searchJunction) /\ ~(i' <= searchJunction')
  BY <1>1
<1>3. /\ found = {d \in present : Less(d, address, i)}
      /\ done \/ LastWaits(present, address, searchJunction, i)
  BY <1>2, Zenon DEF Ordered
<1>4. /\ \A p : LastWaits(present, address, p, i) <=> LastWaits(present, address', p, i)
      /\ \A d : Less(d, address, i) <=> Less(d, address', i)
      /\ \A d : Same(d, address, i) <=> Same(d, address', i)
  BY <1>1, OnlyBelow
<1>5. done' \/ LastWaits(present, address', searchJunction', i + 1)
  BY <1>1, <1>3, <1>4, OneBit
<1>6. ASSUME NEW d \in present PROVE Less(d, address, i) <=> Less(d, address', i + 1)
  <2>1. Less(d, address', i + 1) <=> Less(d, address', i) \/ (Part(d, address', i) /\ address'[i] = 1)
    BY <1>1, OneBit
  <2>2. ASSUME Part(d, address', i), address'[i] = 1 PROVE FALSE
    <3>1. d \in answering /\ d[i] # 1
      BY <1>4, <2>2 DEF Walks, Part
    <3> QED
      BY <2>2, <3>1
  <2> QED
    BY <1>4, <2>1, <2>2
<1>7. found = {d \in present : Less(d, address', i + 1)}
  BY <1>3, <1>6
<1>8. /\ (found = {d \in present : Less(d, address, i)})'
      /\ (done \/ LastWaits(present, address, searchJunction, i))'
  BY <1>5, <1>7
<1> QED
  BY <1>2, <1>8, Zenon DEF Ordered

LEMMA AgreedOrdered ==
    ASSUME Inv, WalkInv, steady, Ordered, Agreed PROVE Ordered'
<1>1. pc = "not" /\ Walks /\ pc' # "idle"
  BY StepWalks
<1>2. /\ Take(a) /\ a \in {0, 1}
      /\ UNCHANGED <<searchJunction, lastJunction, done>>
      /\ \E e \in answering : e[i] = a
      /\ \A e \in answering : e[i] = a
      /\ ~Waits(present, address', i)
      /\ address \in present => address' = address /\ ~Waits(present, address, i)
  BY <1>1, AgreedIs
<1>3. /\ i' = i + 1 /\ UNCHANGED <<present, found>>
      /\ address'[i] = a /\ Same(address, address', i)
  BY <1>1, <1>2, Taken
<1>4. i \in Nat /\ searchJunction \in Int
  BY StateIs
<1>5. CASE i <= searchJunction
  <2>1. address' = address /\ ~Waits(present, address, i)
    BY <1>1, <1>2, <1>5 DEF Walks
  <2>2. i # searchJunction
    BY <1>1, <1>5, <2>1, Zenon DEF Ordered, LastWaits
  <2>3. i < searchJunction
    BY <1>4, <1>5, <2>2
  <2> QED
    BY <1>1, <1>2, <1>3, <2>1, <2>3, SameWay
<1>6. CASE i > searchJunction
  BY <1>1, <1>2, <1>3, <1>6, NewWay
<1> QED
  BY <1>4, <1>5, <1>6

LEMMA NewOrdered ==
    ASSUME Inv, WalkInv, steady, Ordered, NewBranch PROVE Ordered'
<1>1. pc = "not" /\ Walks /\ pc' # "idle"
  BY StepWalks
<1>2. Conflict /\ Take(0) /\ i > searchJunction /\ searchJunction' = i
  BY DEF NewBranch
<1>3. Waits(present, address', i) /\ \E e \in answering : e[i] = 0
  BY <1>1, <1>2, ConflictIs
<1>4. /\ i' = i + 1 /\ UNCHANGED <<present, found>>
      /\ address'[i] = 0 /\ Same(address, address', i)
  BY <1>1, <1>2, <1>3, Taken
<1> QED
  BY <1>1, <1>2, <1>3, <1>4, NewWay

\* line 345: lastJunction becomes a junction at which the one was taken; if that
\* hides one at which a branch waits, the device is buried.
LEMMA SameOrdered ==
    ASSUME Inv, WalkInv, steady, Ordered, ~Buried(present), SameBranch PROVE Ordered'
<1>1. pc = "not" /\ Walks /\ pc' # "idle"
  BY StepWalks
<1>2. /\ Conflict /\ Take(address[i]) /\ i < searchJunction /\ searchJunction' = searchJunction
      /\ done' = (done /\ address[i] = 1)
  BY DEF SameBranch
<1>3. i \in Nat /\ i \in Position /\ searchJunction \in Int /\ done \in BOOLEAN
      /\ address[i] \in {0, 1} /\ searchJunction < Bits /\ lastJunction \in Int
  BY <1>1, StateIs, Positions
<1>4. /\ lastJunction' = i
      /\ \E e \in answering : e[i] = address[i]
      /\ \E e \in answering : e[i] = 1 - address[i]
      /\ Waits(present, address', i) <=> address[i] = 0
  BY <1>1, <1>2, <1>3, ConflictIs
<1>5. address' = address /\ i' = i + 1 /\ UNCHANGED <<present, found>>
  BY <1>1, <1>2, <1>3, <1>4, Taken
<1>6. i <= searchJunction
  BY <1>2, <1>3
<1>7. CASE address[i] = 0
  BY <1>1, <1>2, <1>4, <1>5, <1>7, SameWay
<1>8. CASE address[i] = 1
  <2>1. done' = done
    BY <1>2, <1>3, <1>8
  <2>2. ASSUME ~done PROVE FALSE
    <3>1. LastWaits(present, address, lastJunction, i)
          /\ LastWaits(present, address, searchJunction, Bits)
      BY <1>1, <1>6, <2>2, Zenon DEF Ordered
    <3>2. lastJunction < i /\ Waits(present, address, lastJunction)
          /\ Waits(present, address, searchJunction)
          /\ lastJunction \in Position /\ searchJunction \in Position
      BY <1>2, <1>3, <3>1, Positions DEF LastWaits
    <3>3. PICK d \in present : Part(d, address, lastJunction)
      BY <3>2 DEF Waits
    <3>4. PICK g \in present : Part(g, address, searchJunction)
      BY <3>2 DEF Waits
    <3>5. PICK e \in answering : e[i] = 1 - address[i]
      BY <1>4
    <3>6. e \in present /\ Part(e, address, i)
      BY <1>1, <1>8, <3>5 DEF Walks, Part
    <3>7. address \in present /\ address[lastJunction] = 0
      BY <1>1, <1>6, <3>2 DEF Walks, Waits
    <3> QED
      BY <1>2, <1>3, <1>8, <3>2, <3>3, <3>4, <3>6, <3>7 DEF Buried
  <2> QED
    BY <1>1, <1>2, <1>5, <2>1, <2>2, SameWay
<1> QED
  BY <1>3, <1>7, <1>8

LEMMA OtherOrdered ==
    ASSUME Inv, WalkInv, steady, Ordered, OtherBranch PROVE Ordered'
<1>1. pc = "not" /\ Walks /\ pc' # "idle"
  BY StepWalks
<1>2. Conflict /\ Take(1) /\ i = searchJunction /\ searchJunction' = lastJunction /\ done' = done
  BY DEF OtherBranch
<1>3. i \in Nat /\ lastJunction \in Int /\ i <= searchJunction /\ lastJunction < i
      /\ present \subseteq Address
  BY <1>1, <1>2, StateIs DEF Walks
<1>4. ~Waits(present, address', i) /\ \E e \in answering : e[i] = 1
  BY <1>1, <1>2, ConflictIs
<1>5. /\ i' = i + 1 /\ UNCHANGED <<present, found>> /\ address' \in Address
      /\ address'[i] = 1 /\ Same(address, address', i)
  BY <1>1, <1>2, <1>4, Taken
<1>6. /\ FoundSoFar /\ LastWaits(present, address, i, Bits)
      /\ done \/ LastWaits(present, address, lastJunction, i)
  BY <1>1, <1>2, <1>3, Zenon DEF Ordered
<1>7. found' = {d \in present : Less(d, address', i + 1)}
  BY <1>3, <1>5, <1>6, Turn DEF FoundSoFar
<1>8. done' \/ LastWaits(present, address', searchJunction', i + 1)
  <2>1. LastWaits(present, address, lastJunction, i) => LastWaits(present, address', lastJunction, i)
    BY <1>3, <1>5, OnlyBelow
  <2> QED
    BY <1>2, <1>3, <1>4, <1>6, <2>1, OneBit
<1>9. ~(i' <= searchJunction')
  BY <1>2, <1>3, <1>5
<1>10. /\ (found = {d \in present : Less(d, address, i)})'
       /\ (done \/ LastWaits(present, address, searchJunction, i))'
  BY <1>5, <1>7, <1>8
<1> QED
  BY <1>1, <1>9, <1>10, Zenon DEF Ordered

LEMMA NextOrdered == Inv /\ WalkInv /\ OrderInv /\ [Next]_vars => OrderInv'
<1> SUFFICES ASSUME Inv, WalkInv, OrderInv, [Next]_vars, steady', ~Buried(present)'
             PROVE  Ordered'
  BY DEF OrderInv
<1>1. CASE (\E d \in Device : Connect(d) \/ Disconnect(d)) \/ ResetSearch
  BY <1>1, OtherSteps DEF Ordered
<1>2. CASE Searches
  <2>1. steady /\ present' = present
    BY <1>2 DEF Searches, Search, ReadBit, Vanished, Agreed, OtherBranch, SameBranch,
                NewBranch, Found, Take
  <2>2. ~Buried(present) /\ Ordered
    BY <2>1 DEF OrderInv
  <2>3. CASE ReadBit
    <3>1. /\ pc # "idle" /\ pc' # "idle"
          /\ UNCHANGED <<present, address, searchJunction, i, lastJunction, done, found>>
      BY <2>3 DEF ReadBit, object
    <3> QED
      BY <2>2, <3>1, Zenon DEF Ordered, FoundSoFar
  <2>4. ~Vanished
    BY <2>1, Heard DEF WalkInv, Vanished
  <2> QED
    BY <1>2, <2>1, <2>2, <2>3, <2>4, SearchOrdered, FoundOrdered, AgreedOrdered, NewOrdered,
       SameOrdered, OtherOrdered DEF Searches
<1>3. CASE UNCHANGED vars
  BY <1>3, Zenon DEF OrderInv, Ordered, FoundSoFar, vars
<1> QED
  BY <1>1, <1>2, <1>3 DEF Next, Searches

-----------------------------------------------------------------------------
(* The search does not get past a device that has two junctions behind each *)
(* other, the first of which it passes by the one: lastJunction, which line  *)
(* 345 sets there too, leads back into what lies behind it.                  *)

Branches(f, q, r) ==
    /\ f \in present /\ q \in Position /\ r \in Position /\ q < r /\ f[q] = 1
    /\ \E e \in present : Part(e, f, q)
    /\ \E g \in present : Part(g, f, r)

\* The address e comes before f, or is one of those behind the junction q.
Within(e, f, q, w) ==
    w \in 0 .. q /\ Same(e, f, w) /\ (w = q \/ (e[w] = 0 /\ f[w] = 1))

Trapped(f, q, r) ==
    IF pc = "idle"
    THEN \/ found = {} /\ searchJunction = -1 /\ ~searchExhausted
         \/ \E w \in 0 .. q : Within(address, f, q, w) /\ w <= searchJunction
    ELSE IF i <= searchJunction
    THEN \E w \in 0 .. q : /\ Within(address, f, q, w) /\ w <= searchJunction
                           /\ w < i => w <= lastJunction
    ELSE \/ Same(address, f, i) /\ i <= r
         \/ \E w \in 0 .. q : Within(address, f, q, w) /\ w <= searchJunction

TrapInv ==
    steady => \A f \in present, q, r \in Position : Branches(f, q, r) => Trapped(f, q, r)

LEMMA InitTrapped == Init => TrapInv
BY DEF Init, TrapInv, Trapped

\* While the junctions of f have not been reached some answer otherwise there.
LEMMA Met ==
    ASSUME Inv, Walks, NEW f, NEW q, NEW r, Branches(f, q, r), pc = "not"
    PROVE  /\ Same(address, f, i) => f \in answering
           /\ Same(address, f, q) /\ i = q => ~Agreed
           /\ Same(address, f, r) /\ i = r => ~Agreed
           /\ q \in Nat /\ r \in Nat /\ q < r /\ r < Bits /\ f[q] = 1 /\ f \in Address
<1>1. /\ q \in Nat /\ r \in Nat /\ q < r /\ r < Bits /\ f[q] = 1 /\ f \in Address
      /\ f \in present /\ i \in Nat
  BY StateIs, Positions DEF Branches
<1>2. ASSUME NEW p \in Nat, NEW e \in present, Part(e, f, p), Same(address, f, p), i = p
      PROVE  ~Agreed
  <2>1. Same(f, address, p) /\ Same(e, address, p)
    BY <1>2, SameSame DEF Part
  <2>2. f \in answering /\ e \in answering /\ e[i] # f[i]
    BY <1>1, <1>2, <2>1 DEF Walks, Part
  <2> QED
    BY <2>2, Heard
<1>3. Same(address, f, i) => f \in answering
  <2>1. Same(address, f, i) => Same(f, address, i)
    BY <1>1, SameSame
  <2> QED
    BY <1>1, <2>1 DEF Walks
<1> QED
  BY <1>1, <1>2, <1>3 DEF Branches

\* The prefix decides about the first w bits.
LEMMA StaysWithin ==
    ASSUME NEW f, NEW q \in Nat, NEW w \in 0 .. q, NEW n \in Nat, w < n, NEW e, NEW g,
           Same(e, g, n), Within(e, f, q, w)
    PROVE  Within(g, f, q, w)
<1>1. e[w] = g[w] /\ w \in Int /\ w <= n
  BY DEF Same
<1>2. Same(g, f, w)
  <2>1. Same(f, e, w) <=> Same(f, g, w)
    BY <1>1, SameSame
  <2>2. \A d : Same(d, f, w) <=> Same(f, d, w)
    BY DEF Same
  <2> QED
    BY <2>1, <2>2 DEF Within
<1> QED
  BY <1>1, <1>2 DEF Within

LEMMA SearchTrapped ==
    ASSUME Inv, WalkInv, steady, NEW f, NEW q, NEW r, Branches(f, q, r), Trapped(f, q, r), Search
    PROVE  Trapped(f, q, r)'
<1>1. /\ pc = "idle" /\ pc' = "bit" /\ i' = 0
      /\ UNCHANGED <<present, address, searchJunction, found>>
  BY DEF Search, object
<1>2. q \in Int /\ r \in Int /\ 0 <= q /\ 0 <= r
  BY Positions DEF Branches
<1>3. CASE found = {} /\ searchJunction = -1
  <2>1. ~(i' <= searchJunction') /\ i' <= r
    BY <1>1, <1>2, <1>3
  <2>2. Same(address, f, i)'
    BY <1>1 DEF Same
  <2> QED
    BY <1>1, <2>1, <2>2, Zenon DEF Trapped
<1>4. ASSUME NEW w \in 0 .. q, Within(address, f, q, w), w <= searchJunction
      PROVE  Trapped(f, q, r)'
  <2>1. i' <= searchJunction' /\ ~(w < i')
    BY <1>1, <1>2, <1>4, StateIs
  <2>2. Within(address, f, q, w)' /\ w <= searchJunction'
    BY <1>1, <1>4, Zenon
  <2> QED
    BY <1>1, <2>1, <2>2, Zenon DEF Trapped
<1> QED
  BY <1>1, <1>3, <1>4, Zenon DEF Trapped

LEMMA FoundTrapped ==
    ASSUME Inv, WalkInv, steady, NEW f, NEW q, NEW r, Branches(f, q, r), Trapped(f, q, r), Found
    PROVE  Trapped(f, q, r)'
<1>1. /\ i = Bits /\ pc' = "idle"
      /\ UNCHANGED <<present, address, searchJunction>>
  BY FoundRests
<1>2. pc # "idle" /\ ~(i <= searchJunction) /\ ~(i <= r)
  BY <1>1, StateIs, Positions DEF Found, Branches
<1>3. PICK w \in 0 .. q : Within(address, f, q, w) /\ w <= searchJunction
  BY <1>2, Zenon DEF Trapped
<1>4. Within(address, f, q, w)' /\ w <= searchJunction'
  BY <1>1, <1>3, Zenon
<1> QED
  BY <1>1, <1>4, Zenon DEF Trapped

\* Behind the junction, with the address already within.
LEMMA WithinTrapped ==
    ASSUME Inv, Walks, pc = "not", pc' # "idle", i' = i + 1,
           NEW f, NEW q \in Nat, NEW r, NEW w \in 0 .. q,
           Within(address, f, q, w), w < i, w <= searchJunction',
           Same(address, address', i), searchJunction' \in Int, searchJunction' < i + 1
    PROVE  Trapped(f, q, r)'
<1>1. i \in Nat
  BY StateIs
<1>2. Within(address', f, q, w)
  BY <1>1, StaysWithin
<1>3. ~(i' <= searchJunction')
  BY <1>1
<1> QED
  BY <1>1, <1>2, <1>3, Zenon DEF Trapped

LEMMA AgreedTrapped ==
    ASSUME Inv, WalkInv, steady, NEW f, NEW q, NEW r, Branches(f, q, r), Trapped(f, q, r), Agreed
    PROVE  Trapped(f, q, r)'
<1>1. pc = "not" /\ Walks /\ pc' # "idle"
  BY StepWalks
<1>2. /\ Take(a) /\ a \in {0, 1}
      /\ UNCHANGED <<searchJunction, lastJunction, done>>
      /\ \E e \in answering : e[i] = a
      /\ \A e \in answering : e[i] = a
      /\ address \in present => address' = address
  BY <1>1, AgreedIs
<1>3. i' = i + 1 /\ address'[i] = a /\ Same(address, address', i)
  BY <1>1, <1>2, Taken
<1>4. /\ i \in Nat /\ searchJunction \in Int /\ lastJunction \in Int
      /\ q \in Nat /\ r \in Nat /\ q < r /\ f[q] = 1
  BY <1>1, StateIs, Met
<1>5. /\ Same(address, f, i) => f \in answering
      /\ Same(address, f, q) => i # q
      /\ Same(address, f, r) => i # r
  BY <1>1, Met
<1>6. CASE i <= searchJunction
  <2>1. PICK w \in 0 .. q : /\ Within(address, f, q, w) /\ w <= searchJunction
                            /\ w < i => w <= lastJunction
    BY <1>1, <1>6, Zenon DEF Trapped
  <2>2. address \in answering /\ address' = address
    <3>1. address \in present
      BY <1>1, <1>6 DEF Walks
    <3> QED
      BY <1>1, <1>2, <3>1 DEF Walks, Same
  <2>3. w # i
    <3>1. ASSUME w = i PROVE FALSE
      <4>1. Same(address, f, i) /\ i # q
        BY <1>5, <2>1, <3>1 DEF Within
      <4>2. address[i] = 0 /\ f[i] = 1
        BY <2>1, <3>1, <4>1 DEF Within
      <4>3. address[i] = a /\ f[i] = a
        BY <1>2, <1>5, <2>2, <4>1
      <4> QED
        BY <4>2, <4>3
    <3> QED
      BY <3>1
  <2>4. CASE i < searchJunction
    <3>1. i' <= searchJunction' /\ (w < i' => w <= lastJunction')
      BY <1>2, <1>3, <1>4, <2>1, <2>3, <2>4
    <3>2. Within(address, f, q, w)' /\ w <= searchJunction'
      BY <1>2, <2>1, <2>2, Zenon
    <3> QED
      BY <1>1, <3>1, <3>2, Zenon DEF Trapped
  <2>5. CASE i = searchJunction
    <3>1. w < i
      BY <1>4, <2>1, <2>3, <2>5
    <3> QED
      BY <1>1, <1>2, <1>3, <1>4, <2>1, <2>5, <3>1, WithinTrapped
  <2> QED
    BY <1>4, <1>6, <2>4, <2>5
<1>7. CASE ~(i <= searchJunction)
  <2>1. CASE Same(address, f, i) /\ i <= r
    <3>1. i # r /\ i' <= r
      BY <1>3, <1>4, <1>5, <2>1
    <3>2. Same(address', f, i + 1)
      <4>1. Same(f, address, i) /\ f[i] = a
        BY <1>2, <1>5, <2>1 DEF Same
      <4>2. Same(f, address', i)
        BY <1>3, <1>4, <4>1, SameSame
      <4> QED
        BY <1>3, <1>4, <4>1, <4>2, OneBit DEF Same
    <3>3. Same(address, f, i)' /\ ~(i' <= searchJunction')
      BY <1>2, <1>3, <1>4, <1>7, <3>2
    <3> QED
      BY <1>1, <3>1, <3>3, Zenon DEF Trapped
  <2>2. ASSUME NEW w \in 0 .. q, Within(address, f, q, w), w <= searchJunction
        PROVE  Trapped(f, q, r)'
    <3>1. w < i /\ searchJunction' < i + 1 /\ w <= searchJunction'
      BY <1>2, <1>4, <1>7, <2>2
    <3> QED
      BY <1>1, <1>2, <1>3, <1>4, <2>2, <3>1, WithinTrapped
  <2> QED
    BY <1>1, <1>7, <2>1, <2>2, Zenon DEF Trapped
<1> QED
  BY <1>6, <1>7

LEMMA NewTrapped ==
    ASSUME Inv, WalkInv, steady, NEW f, NEW q, NEW r, Branches(f, q, r), Trapped(f, q, r),
           NewBranch
    PROVE  Trapped(f, q, r)'
<1>1. pc = "not" /\ Walks /\ pc' # "idle"
  BY StepWalks
<1>2. Conflict /\ Take(0) /\ i > searchJunction /\ searchJunction' = i
  BY DEF NewBranch
<1>3. \E e \in answering : e[i] = 0
  BY <1>1, <1>2, ConflictIs
<1>4. i' = i + 1 /\ address'[i] = 0 /\ Same(address, address', i)
  BY <1>1, <1>2, <1>3, Taken
<1>5. /\ i \in Nat /\ searchJunction \in Int
      /\ q \in Nat /\ r \in Nat /\ q < r /\ f[q] = 1
  BY <1>1, StateIs, Met
<1>6. \A e \in answering : e[i] \in {0, 1}
  BY <1>1, Heard
<1>7. ~(i <= searchJunction) /\ ~(i' <= searchJunction')
  BY <1>2, <1>4, <1>5
<1>8. CASE Same(address, f, i) /\ i <= r
  <2>1. f \in answering /\ f[i] \in {0, 1}
    BY <1>1, <1>6, <1>8, Met
  <2>2. Same(f, address', i) /\ Same(address', f, i)
    <3>1. Same(f, address, i)
      BY <1>8 DEF Same
    <3>2. Same(f, address', i)
      BY <1>4, <1>5, <3>1, SameSame
    <3> QED
      BY <3>2 DEF Same
  <2>3. CASE f[i] = 0 /\ i < r
    <3>1. Same(address', f, i + 1)
      BY <1>4, <1>5, <2>2, <2>3, OneBit
    <3>2. Same(address, f, i)' /\ i' <= r
      BY <1>4, <1>5, <2>3, <3>1
    <3> QED
      BY <1>1, <1>7, <3>2, Zenon DEF Trapped
  <2>4. CASE f[i] = 1 /\ i <= q
    <3>1. Within(address', f, q, i) /\ i \in 0 .. q /\ i <= searchJunction'
      BY <1>2, <1>4, <1>5, <2>2, <2>4 DEF Within
    <3> QED
      BY <1>1, <1>7, <3>1, Zenon DEF Trapped
  <2>5. CASE q < i
    <3>1. Same(address', f, q)
      BY <1>5, <2>2, <2>5 DEF Same
    <3>2. Within(address', f, q, q) /\ q \in 0 .. q /\ q <= searchJunction'
      BY <1>2, <1>5, <2>5, <3>1 DEF Within
    <3> QED
      BY <1>1, <1>7, <3>2, Zenon DEF Trapped
  <2> QED
    BY <1>5, <1>8, <2>1, <2>3, <2>4, <2>5
<1>9. ASSUME NEW w \in 0 .. q, Within(address, f, q, w), w <= searchJunction
      PROVE  Trapped(f, q, r)'
  <2>1. w < i /\ searchJunction' < i + 1 /\ w <= searchJunction' /\ searchJunction' \in Int
    BY <1>2, <1>5, <1>9
  <2> QED
    BY <1>1, <1>4, <1>5, <1>9, <2>1, WithinTrapped
<1> QED
  BY <1>1, <1>7, <1>8, <1>9, Zenon DEF Trapped

LEMMA SameTrapped ==
    ASSUME Inv, WalkInv, steady, NEW f, NEW q, NEW r, Branches(f, q, r), Trapped(f, q, r),
           SameBranch
    PROVE  Trapped(f, q, r)'
<1>1. pc = "not" /\ Walks /\ pc' # "idle"
  BY StepWalks
<1>2. Conflict /\ Take(address[i]) /\ i < searchJunction /\ searchJunction' = searchJunction
  BY DEF SameBranch
<1>3. i \in Nat /\ i \in Position /\ searchJunction \in Int /\ address[i] \in {0, 1}
      /\ q \in Nat
  BY <1>1, StateIs, Positions, Met
<1>4. lastJunction' = i /\ \E e \in answering : e[i] = address[i]
  BY <1>1, <1>2, <1>3, ConflictIs
<1>5. address' = address /\ i' = i + 1
  BY <1>1, <1>2, <1>3, <1>4, Taken
<1>6. i <= searchJunction /\ i' <= searchJunction'
  BY <1>2, <1>3, <1>5
<1>7. PICK w \in 0 .. q : Within(address, f, q, w) /\ w <= searchJunction
  BY <1>1, <1>6, Zenon DEF Trapped
<1>8. w < i' => w <= lastJunction'
  BY <1>3, <1>4, <1>5
<1>9. Within(address, f, q, w)' /\ w <= searchJunction'
  BY <1>2, <1>5, <1>7, Zenon
<1> QED
  BY <1>1, <1>6, <1>8, <1>9, Zenon DEF Trapped

LEMMA OtherTrapped ==
    ASSUME Inv, WalkInv, steady, NEW f, NEW q, NEW r, Branches(f, q, r), Trapped(f, q, r),
           OtherBranch
    PROVE  Trapped(f, q, r)'
<1>1. pc = "not" /\ Walks /\ pc' # "idle"
  BY StepWalks
<1>2. Conflict /\ Take(1) /\ i = searchJunction /\ searchJunction' = lastJunction
  BY DEF OtherBranch
<1>3. /\ i \in Nat /\ lastJunction \in Int /\ i <= searchJunction /\ lastJunction < i
      /\ q \in Nat /\ r \in Nat /\ q < r /\ f[q] = 1
  BY <1>1, <1>2, StateIs, Met DEF Walks
<1>4. \E e \in answering : e[i] = 1
  BY <1>1, <1>2, ConflictIs
<1>5. i' = i + 1 /\ address'[i] = 1 /\ Same(address, address', i)
  BY <1>1, <1>2, <1>4, Taken
<1>6. PICK w \in 0 .. q : /\ Within(address, f, q, w) /\ w <= searchJunction
                          /\ w < i => w <= lastJunction
  BY <1>1, <1>3, Zenon DEF Trapped
<1>7. CASE w < i
  <2>1. w <= searchJunction' /\ searchJunction' \in Int /\ searchJunction' < i + 1
    BY <1>2, <1>3, <1>6, <1>7
  <2> QED
    BY <1>1, <1>3, <1>5, <1>6, <1>7, <2>1, WithinTrapped
<1>8. CASE w = i
  <2>1. f[i] = 1 /\ Same(f, address, i)
    BY <1>3, <1>6, <1>8 DEF Within, Same
  <2>2. Same(f, address', i)
    BY <1>3, <1>5, <2>1, SameSame
  <2>3. Same(address', f, i + 1)
    BY <1>3, <1>5, <2>1, <2>2, OneBit DEF Same
  <2>4. Same(address, f, i)' /\ i' <= r /\ ~(i' <= searchJunction')
    BY <1>2, <1>3, <1>5, <1>6, <1>8, <2>3
  <2> QED
    BY <1>1, <2>4, Zenon DEF Trapped
<1> QED
  BY <1>2, <1>3, <1>6, <1>7, <1>8

LEMMA NextTrapped == Inv /\ WalkInv /\ TrapInv /\ [Next]_vars => TrapInv'
<1> SUFFICES ASSUME Inv, WalkInv, TrapInv, [Next]_vars PROVE TrapInv'
  OBVIOUS
<1>1. CASE (\E d \in Device : Connect(d) \/ Disconnect(d)) \/ ResetSearch
  <2>1. ~steady' \/ (pc' = "idle" /\ found' = {} /\ searchJunction' = -1 /\ ~searchExhausted')
    BY <1>1, OtherSteps
  <2> QED
    BY <2>1, Zenon DEF TrapInv, Trapped
<1>2. CASE Searches
  <2>1. steady' = steady /\ present' = present
    BY <1>2 DEF Searches, Search, ReadBit, Vanished, Agreed, OtherBranch, SameBranch,
                NewBranch, Found, Take
  <2>2. ASSUME steady, NEW f \in present, NEW q \in Position, NEW r \in Position,
               Branches(f, q, r), Trapped(f, q, r)
        PROVE  Trapped(f, q, r)'
    <3>1. CASE ReadBit
      <4>1. /\ pc # "idle" /\ pc' # "idle"
            /\ UNCHANGED <<present, address, searchJunction, i, lastJunction, found>>
        BY <3>1 DEF ReadBit, object
      <4> QED
        BY <2>2, <4>1, Zenon DEF Trapped, Within, Same
    <3>2. ~Vanished
      BY <2>2, Heard DEF WalkInv, Vanished
    <3> QED
      BY <1>2, <2>2, <3>1, <3>2, SearchTrapped, FoundTrapped, AgreedTrapped, NewTrapped,
         SameTrapped, OtherTrapped DEF Searches
  <2>3. \A f, q, r : Branches(f, q, r)' <=> Branches(f, q, r)
    BY <2>1 DEF Branches, Part, Same
  <2> QED
    BY <2>1, <2>2, <2>3, Zenon DEF TrapInv
<1>3. CASE UNCHANGED vars
  <2>1. /\ UNCHANGED <<present, address, searchJunction, searchExhausted, pc, i, lastJunction,
                       found>>
        /\ steady' = steady
    BY <1>3 DEF vars
  <2>2. \A f, q, r : Branches(f, q, r)' <=> Branches(f, q, r)
    BY <2>1 DEF Branches, Part, Same
  <2>3. \A f, q, r : Trapped(f, q, r)' <=> Trapped(f, q, r)
    BY <2>1 DEF Trapped, Within, Same
  <2> QED
    BY <2>1, <2>2, <2>3, Zenon DEF TrapInv
<1> QED
  BY <1>1, <1>2, <1>3 DEF Next, Searches

-----------------------------------------------------------------------------
(* What has been found when a search returns *)

SteadyInv == WalkInv /\ OrderInv /\ TrapInv

LEMMA SteadyHolds == Spec => [](Inv /\ SteadyInv)
<1>1. Init => Inv /\ SteadyInv
  BY InitInv, InitWalks, InitOrdered, InitTrapped DEF SteadyInv
<1>2. Inv /\ SteadyInv /\ [Next]_vars => (Inv /\ SteadyInv)'
  BY StepInv, NextWalks, NextOrdered, NextTrapped DEF SteadyInv
<1> QED
  BY <1>1, <1>2, PTL DEF Spec

\* NextIsNew on every bus without a buried device, whatever the number of devices
\* ("it has enumerated the next device", OneWireCRC.cpp:287).
THEOREM FlatSearchGoesOn == Spec => [](~Buried(present) => NextIsNew)
<1>1. ASSUME Inv, SteadyInv, ~Buried(present)
      PROVE  NextIsNew
  <2> SUFFICES ASSUME pc = "end", steady PROVE address \notin found
    BY DEF NextIsNew
  <2>1. Ordered /\ i = Bits /\ ~(i <= searchJunction)
    BY <1>1, StateIs DEF SteadyInv, OrderInv
  <2>2. found = {d \in present : Less(d, address, i)}
    BY <2>1, Zenon DEF Ordered
  <2> QED
    BY <2>2, NotItself
<1> QED
  BY <1>1, SteadyHolds, PTL

FewDevices == Cardinality(present) <= MaxDevices

LEMMA DevicesAreFew == Spec => []FewDevices
<1>1. Init => FewDevices
  BY DEF Init, FewDevices
<1>2. Inv /\ FewDevices /\ [Next]_vars => FewDevices'
  <2> SUFFICES ASSUME Inv, FewDevices, [Next]_vars PROVE FewDevices'
    OBVIOUS
  <2>1. /\ IsFiniteSet(present) /\ Cardinality(present) \in Nat /\ MaxDevices \in Nat
        /\ Cardinality(present) <= MaxDevices
    BY StateIs, FewAddresses, FS_Subset, FS_CardinalityType, OneWireConstants DEF FewDevices
  <2>2. ASSUME NEW d \in Device, Connect(d) PROVE FewDevices'
    <3>1. present' = present \cup {d} /\ Cardinality(present) < MaxDevices /\ d \notin present
      BY <2>2 DEF Connect
    <3>2. Cardinality(present \cup {d}) = Cardinality(present) + 1
      BY <2>1, <3>1, FS_AddElement
    <3> QED
      BY <2>1, <3>1, <3>2 DEF FewDevices
  <2>3. ASSUME NEW d \in Device, Disconnect(d) PROVE FewDevices'
    <3>1. present' = present \ {d} /\ d \in present
      BY <2>3 DEF Disconnect
    <3>2. Cardinality(present \ {d}) = Cardinality(present) - 1
      BY <2>1, <3>1, FS_RemoveElement
    <3> QED
      BY <2>1, <3>1, <3>2 DEF FewDevices
  <2>4. CASE ResetSearch \/ Searches \/ UNCHANGED vars
    <3>1. present' = present
      BY <2>4 DEF ResetSearch, Searches, Search, ReadBit, Vanished, Agreed, OtherBranch,
                  SameBranch, NewBranch, Found, Take, vars
    <3> QED
      BY <2>1, <3>1 DEF FewDevices
  <2> QED
    BY <2>2, <2>3, <2>4 DEF Next, Searches
<1> QED
  BY <1>1, <1>2, InvHolds, PTL DEF Spec

\* NextIsNew for up to three devices, wherever their addresses part.
THEOREM ThreeAreEnumerated == MaxDevices <= 3 => (Spec => []NextIsNew)
<1> SUFFICES ASSUME MaxDevices <= 3 PROVE Spec => []NextIsNew
  OBVIOUS
<1>1. Inv /\ FewDevices => ~Buried(present)
  <2> SUFFICES ASSUME Inv, FewDevices PROVE ~Buried(present)
    OBVIOUS
  <2>1. present \subseteq Address /\ IsFiniteSet(present)
    BY StateIs, FewAddresses, FS_Subset
  <2>2. Cardinality(present) \in Nat /\ MaxDevices \in Nat
    BY <2>1, FS_CardinalityType, OneWireConstants
  <2>3. Cardinality(present) <= 3
    BY <2>2 DEF FewDevices
  <2> QED
    BY <2>1, <2>3, ThreeAreFlat
<1> QED
  BY <1>1, DevicesAreFew, InvHolds, FlatSearchGoesOn, PTL

\* With a buried device on the bus the enumeration never ends: as there are only
\* finitely many devices, it returns some again and again (lastJunction, line 345).
BuriedNeverEnds == steady /\ Buried(present) => ~searchExhausted

\* BuriedNeverEnds, for every set of devices.
THEOREM BuriedIsEndless == Spec => []BuriedNeverEnds
<1>1. ASSUME Inv, SteadyInv PROVE BuriedNeverEnds
  <2> SUFFICES ASSUME steady, Buried(present), searchExhausted PROVE FALSE
    BY DEF BuriedNeverEnds
  <2>1. pc = "idle" /\ address \in present /\ NoneWaits(present, address, Bits)
    BY <1>1 DEF SteadyInv, WalkInv, Walks, Rests
  <2>2. PICK d \in present, e \in present, f \in present, g \in present,
             p \in Position, q \in Position, r \in Position :
                /\ p < q /\ q < r /\ f[p] = 0 /\ f[q] = 1
                /\ Part(d, f, p) /\ Part(e, f, q) /\ Part(g, f, r)
    BY DEF Buried
  <2>3. Trapped(f, q, r)
    BY <1>1, <2>2 DEF SteadyInv, TrapInv, Branches
  <2>5. PICK w \in 0 .. q : Within(address, f, q, w) /\ w <= searchJunction
    BY <2>1, <2>3, Zenon DEF Trapped
  <2>6. /\ p \in Int /\ q \in Int /\ w \in Int /\ 0 <= p /\ 0 <= w /\ w <= q /\ q < Bits
        /\ p < q /\ f[p] = 0 /\ Same(address, f, w)
    BY <2>2, <2>5, Positions DEF Within
  <2>7. CASE w <= p
    <3>1. address[w] = 0 /\ f[w] = 1
      BY <2>5, <2>6, <2>7 DEF Within
    <3>2. Part(f, address, w)
      BY <2>6, <3>1 DEF Part, Same
    <3>3. Waits(present, address, w) /\ w \in 0 .. Bits - 1
      BY <2>2, <2>6, <3>1, <3>2, Positions DEF Waits
    <3> QED
      BY <2>1, <3>3 DEF NoneWaits
  <2>8. CASE p < w
    <3>1. address[p] = 0
      BY <2>6, <2>8 DEF Same
    <3>2. Same(f, address, p)
      BY <2>6, <2>8 DEF Same
    <3>3. Part(d, address, p)
      BY <2>2, <2>6, <3>1, <3>2, SameSame DEF Part
    <3>4. Waits(present, address, p) /\ p \in 0 .. Bits - 1
      BY <2>2, <2>6, <3>1, <3>3, Positions DEF Waits
    <3> QED
      BY <2>1, <3>4 DEF NoneWaits
  <2> QED
    BY <2>6, <2>7, <2>8
<1> QED
  BY <1>1, SteadyHolds, PTL

\* AllAreFound for every number of devices: if the enumeration of a bus where
\* nothing changed ends, it has found them all (OneWireCRC.cpp:354).
THEOREM EndMeansAll == Spec => []AllAreFound
<1>1. ASSUME Inv, SteadyInv, BuriedNeverEnds PROVE AllAreFound
  <2> SUFFICES ASSUME searchExhausted, steady PROVE found = present
    BY DEF AllAreFound
  <2>1. pc = "idle" /\ NoneWaits(present, address, Bits)
    BY <1>1 DEF SteadyInv, WalkInv, Walks, Rests
  <2>2. Ordered
    BY <1>1 DEF BuriedNeverEnds, SteadyInv, OrderInv
  <2>3. FoundSoFar
    BY <2>1, <2>2, Zenon DEF Ordered
  <2> QED
    BY <1>1, <2>1, <2>3, StateIs, LastOfAll DEF FoundSoFar
<1> QED
  BY <1>1, SteadyHolds, BuriedIsEndless, PTL
=============================================================================
