-------------------------- MODULE Timekeeping_proofs --------------------------
(***************************************************************************)
(* Theorems about Snapshot, for objects of any number of words that may    *)
(* hold any values, and about Timekeeping, for all calendars of successive *)
(* seconds of a year, any length of a second and any number of sentences   *)
(* that are missed.                                                        *)
(***************************************************************************)
EXTENDS Timekeeping, GPS_Time_proofs

\* The words before the next one are the same in both objects.
Done(x, y) == \A i \in 1 .. k - 1 : x[i] = y[i]

\* Without a change the copies agree with the object as far as they go; with
\* one change at least one of the things compared is older or newer as a whole.
CopyInv ==
    /\ pc # "return" => live \in seen
    /\ pc = "return" => q \in seen
    /\ pc = "copyA" => call = "geodetic"
    /\ pc = "copyA" /\ irqs = 0 => Done(a, live)
    /\ pc = "copyQ" /\ call = "geodetic" => /\ a \in seen \/ Done(q, live)
                                            /\ irqs = 0 => a = live
    /\ pc = "copyQ" /\ irqs = 0 => Done(q, live)
    /\ pc = "compare" /\ call = "geodetic" => /\ a \in seen \/ q = live
                                              /\ irqs = 0 => a = live
                                              /\ Done(q, a)
    /\ pc = "compare" /\ irqs = 0 => q = live
    /\ pc = "compare" /\ call = "timeNow" => q \in seen \/ Done(q, live)

Inv == TypeOK /\ CopyInv

\* Two objects that agree on every word are the same.
LEMMA SameWords ==
    ASSUME NEW x \in Object, NEW y \in Object, \A i \in 1 .. Words : x[i] = y[i]
    PROVE  x = y
<1>1. x = [i \in 1 .. Words |-> x[i]] /\ y = [i \in 1 .. Words |-> y[i]]
  BY DEF Object
<1> QED
  BY <1>1, Zenon

\* At its last word Done is the whole object.
LEMMA LastWord ==
    ASSUME NEW x \in Object, NEW y \in Object, k = Words, Done(x, y), x[k] = y[k],
           k \in 1 .. Words
    PROVE  x = y
<1>1. \A i \in 1 .. Words : x[i] = y[i]
  BY SnapshotConstants DEF Done
<1> QED
  BY <1>1, SameWords

LEMMA InitInv == Init => Inv
BY SnapshotConstants DEF Init, Inv, TypeOK, CopyInv, Calls, Done

LEMMA AttemptInv ==
    ASSUME TypeOK, NEW c \in Calls, live' \in Object, Attempt(c), call' = c
    PROVE  Inv'
<1>1. TypeOK'
  BY SnapshotConstants DEF TypeOK, Attempt, Calls
<1>2. CopyInv'
  BY SnapshotConstants DEF TypeOK, CopyInv, Attempt, Calls, Done
<1> QED
  BY <1>1, <1>2 DEF Inv

LEMMA CopyAInv == ASSUME Inv, CopyA PROVE Inv'
<1>1. k \in 1 .. Words /\ a \in Object /\ live \in Object /\ q \in Object
  BY DEF Inv, TypeOK
<1>2. a' = [a EXCEPT ![k] = live[k]] /\ UNCHANGED <<live, q, call, irqs, seen>>
  BY DEF CopyA, Advance
<1>3. a' \in Object /\ a'[k] = live[k] /\ \A i \in 1 .. k - 1 : a'[i] = a[i]
  BY <1>1, <1>2 DEF Object
<1>4. pc = "copyA" /\ call = "geodetic" /\ live \in seen /\ (irqs = 0 => Done(a, live))
  BY DEF CopyA, Inv, CopyInv
<1>5. TypeOK'
  BY <1>1, <1>2, <1>3, SnapshotConstants DEF CopyA, Advance, Inv, TypeOK
<1>6. CASE k = Words
  <2>1. pc' = "copyQ" /\ k' = 1
    BY <1>6 DEF CopyA, Advance
  <2>2. irqs = 0 => a' = live
    <3> SUFFICES ASSUME irqs = 0 PROVE a' = live
      OBVIOUS
    <3>1. \A i \in 1 .. Words : a'[i] = live[i]
      BY <1>1, <1>3, <1>4, <1>6, SnapshotConstants DEF Done
    <3> QED
      BY <1>1, <1>3, <3>1, SameWords
  <2>3. Done(q, live)'
    BY <2>1 DEF Done
  <2> QED
    BY <1>2, <1>4, <1>5, <2>1, <2>2, <2>3 DEF Inv, CopyInv
<1>7. CASE k # Words
  <2>1. pc' = "copyA" /\ k' = k + 1
    BY <1>4, <1>7 DEF CopyA, Advance
  <2>2. irqs = 0 => Done(a, live)'
    BY <1>1, <1>2, <1>3, <1>4, <2>1, SnapshotConstants DEF Done
  <2> QED
    BY <1>2, <1>4, <1>5, <2>1, <2>2 DEF Inv, CopyInv
<1> QED
  BY <1>6, <1>7

LEMMA CopyQInv == ASSUME Inv, CopyQ PROVE Inv'
<1>1. k \in 1 .. Words /\ a \in Object /\ live \in Object /\ q \in Object
      /\ call \in Calls
  BY DEF Inv, TypeOK
<1>2. q' = [q EXCEPT ![k] = live[k]] /\ UNCHANGED <<live, a, call, irqs, seen>>
  BY DEF CopyQ, Advance
<1>3. q' \in Object /\ q'[k] = live[k] /\ \A i \in 1 .. k - 1 : q'[i] = q[i]
  BY <1>1, <1>2 DEF Object
<1>4. /\ pc = "copyQ" /\ live \in seen /\ (irqs = 0 => Done(q, live))
      /\ call = "geodetic" => /\ a \in seen \/ Done(q, live)
                              /\ irqs = 0 => a = live
  BY DEF CopyQ, Inv, CopyInv
<1>5. TypeOK'
  BY <1>1, <1>2, <1>3, SnapshotConstants DEF CopyQ, Advance, Inv, TypeOK
<1>6. CASE k = Words
  <2>1. pc' = "compare" /\ k' = 1
    BY <1>6 DEF CopyQ, Advance
  <2>2. Done(q, live) => q' = live
    <3> SUFFICES ASSUME Done(q, live) PROVE q' = live
      OBVIOUS
    <3>1. \A i \in 1 .. Words : q'[i] = live[i]
      BY <1>1, <1>3, <1>6, SnapshotConstants DEF Done
    <3> QED
      BY <1>1, <1>3, <3>1, SameWords
  <2>3. Done(q, a)' /\ Done(q, live)'
    BY <2>1 DEF Done
  <2> QED
    BY <1>2, <1>4, <1>5, <2>1, <2>2, <2>3 DEF Inv, CopyInv
<1>7. CASE k # Words
  <2>1. pc' = "copyQ" /\ k' = k + 1
    BY <1>4, <1>7 DEF CopyQ, Advance
  <2>2. Done(q, live) => Done(q, live)'
    BY <1>1, <1>2, <1>3, <2>1, SnapshotConstants DEF Done
  <2> QED
    BY <1>2, <1>4, <1>5, <2>1, <2>2 DEF Inv, CopyInv
<1> QED
  BY <1>6, <1>7

LEMMA EqualInv == ASSUME Inv, Equal PROVE Inv'
<1>1. k \in 1 .. Words /\ a \in Object /\ live \in Object /\ q \in Object
      /\ call \in Calls
  BY DEF Inv, TypeOK
<1>2. UNCHANGED <<live, a, q, call, irqs, seen>>
  BY DEF Equal, Advance
<1>3. /\ pc = "compare" /\ live \in seen /\ (irqs = 0 => q = live)
      /\ call = "geodetic" => /\ a \in seen \/ q = live
                              /\ irqs = 0 => a = live
                              /\ Done(q, a) /\ q[k] = a[k]
      /\ call = "timeNow" => /\ q \in seen \/ Done(q, live)
                             /\ q[k] = live[k]
  BY DEF Equal, Other, Inv, CopyInv
<1>4. TypeOK'
  BY <1>1, <1>2, SnapshotConstants DEF Equal, Advance, Inv, TypeOK
<1>5. CASE k = Words
  <2>1. pc' = "return"
    BY <1>5 DEF Equal, Advance
  <2>2. CASE call = "geodetic"
    <3>1. q = a
      BY <1>1, <1>3, <1>5, <2>2, LastWord
    <3> QED
      BY <1>2, <1>3, <1>4, <2>1, <2>2, <3>1 DEF Inv, CopyInv
  <2>3. CASE call = "timeNow"
    <3>1. q \in seen \/ q = live
      BY <1>1, <1>3, <1>5, <2>3, LastWord
    <3> QED
      BY <1>2, <1>3, <1>4, <2>1, <2>3, <3>1 DEF Inv, CopyInv
  <2> QED
    BY <1>1, <2>2, <2>3 DEF Calls
<1>6. CASE k # Words
  <2>1. pc' = "compare" /\ k' = k + 1
    BY <1>3, <1>6 DEF Equal, Advance
  <2>2. call = "geodetic" => Done(q, a)'
    BY <1>1, <1>2, <1>3, <2>1, SnapshotConstants DEF Done
  <2>3. call = "timeNow" => q \in seen \/ Done(q, live)'
    BY <1>1, <1>2, <1>3, <2>1, SnapshotConstants DEF Done
  <2> QED
    BY <1>2, <1>3, <1>4, <2>1, <2>2, <2>3 DEF Inv, CopyInv
<1> QED
  BY <1>5, <1>6

LEMMA IrqInv ==
    ASSUME Inv, MaxIrqs <= 1, Irq
    PROVE  Inv'
<1>1. UNCHANGED <<pc, call, a, q, k>> /\ live' \in Object
  BY DEF Irq
<1>2. CASE pc = "return"
  <2>1. UNCHANGED <<irqs, seen>>
    BY <1>2 DEF Irq
  <2> QED
    BY <1>1, <1>2, <2>1 DEF Inv, TypeOK, CopyInv
<1>3. CASE pc # "return"
  <2>1. irqs < MaxIrqs /\ irqs' = irqs + 1 /\ seen' = seen \cup {live'}
    BY <1>3 DEF Irq
  <2>2. irqs = 0 /\ irqs' = 1
    BY <2>1, SnapshotConstants DEF Inv, TypeOK
  <2>3. TypeOK'
    BY <1>1, <2>1, <2>2, SnapshotConstants DEF Inv, TypeOK
  <2>4. live \in seen /\ live' \in seen' /\ live \in seen'
    BY <1>1, <1>3, <2>1 DEF Inv, CopyInv
  <2> QED
    BY <1>1, <1>3, <2>2, <2>3, <2>4 DEF Inv, CopyInv, Done
<1> QED
  BY <1>2, <1>3

LEMMA NextInv == ASSUME Inv, MaxIrqs <= 1, [Next]_vars PROVE Inv'
<1>1. CASE UNCHANGED vars
  BY <1>1 DEF vars, Inv, TypeOK, CopyInv, Done
<1>2. ASSUME NEW c \in Calls, Call(c) PROVE Inv'
  BY <1>2, AttemptInv DEF Inv, Call
<1>3. CASE Differ
  BY <1>3, AttemptInv DEF Inv, Differ, TypeOK
<1> QED
  BY <1>1, <1>2, <1>3, CopyAInv, CopyQInv, EqualInv, IrqInv DEF Next

-----------------------------------------------------------------------------
\* If the object changes at most once while one attempt lasts, what a call
\* returns is the object as it was at one moment, whatever its size.
THEOREM SnapshotIsWhole == ASSUME MaxIrqs <= 1 PROVE Spec => []NotTorn
<1>1. Inv /\ [Next]_vars => Inv'
  BY NextInv
<1>2. Inv => NotTorn
  BY DEF Inv, CopyInv, NotTorn
<1> QED
  BY <1>1, <1>2, InitInv, PTL DEF Spec

\* Under the same condition no attempt is repeated without a reason.
THEOREM RetryHasReason == ASSUME MaxIrqs <= 1 PROVE Spec => RetriesOnlyIfDisturbed
<1>1. Inv /\ [Next]_vars => Inv'
  BY NextInv
<1>2. Inv /\ [Next]_vars =>
        [pc = "compare" /\ pc' \notin {"compare", "return"} => irqs > 0]_vars
  <2> SUFFICES ASSUME Inv, Next, pc = "compare", pc' \notin {"compare", "return"}
               PROVE  irqs > 0
    OBVIOUS
  <2>1. Differ
    BY DEF Next, Call, CopyA, CopyQ, Equal, Advance, Irq
  <2>2. irqs # 0
    BY <2>1 DEF Differ, Other, Inv, TypeOK, CopyInv, Calls
  <2> QED
    BY <2>2, SnapshotConstants DEF Inv, TypeOK
<1> QED
  BY <1>1, <1>2, InitInv, PTL DEF Spec, RetriesOnlyIfDisturbed
-----------------------------------------------------------------------------
(* Timekeeping *)

\* Every step of Timekeeping is one of Snapshot or leaves its variables alone.
THEOREM CopiesAreSnapshots == TimeSpec => Spec
<1>1. TimeInit => Init
  BY TimeIsObject DEF TimeInit, Init, Calls
<1>2. ASSUME NEW t, NEW p, Handler(t, p) PROVE [Next]_vars
  BY <1>2 DEF Handler, Next
<1>3. [TimeNext]_<<timeVars, vars>> => [Next]_vars
  <2> SUFFICES ASSUME [TimeNext]_<<timeVars, vars>> PROVE [Next]_vars
    OBVIOUS
  <2>1. ASSUME NEW c \in Calls, MainCalls(c) PROVE [Next]_vars
    BY <2>1 DEF MainCalls, Next
  <2>2. CASE MainCopies
    BY <2>2 DEF MainCopies, Next
  <2>3. CASE Lost
    BY <2>3 DEF Lost
  <2>4. CASE SecondBegins
    BY <1>2, <2>4 DEF SecondBegins
  <2>5. CASE TickOnly
    BY <1>2, <2>5 DEF TickOnly, Ticktock
  <2>6. CASE TickTold
    BY <1>2, <2>6 DEF TickTold, Ticktock
  <2>7. CASE TickNotTold
    BY <1>2, <2>7 DEF TickNotTold, Ticktock
  <2>8. CASE UNCHANGED <<timeVars, vars>>
    BY <2>8
  <2> QED
    BY <2>1, <2>2, <2>3, <2>4, <2>5, <2>6, <2>7, <2>8 DEF TimeNext
<1> QED
  BY <1>1, <1>3, PTL DEF TimeSpec, Spec

\* With the real handlers, too: a copy that a call returns is never torn if at
\* most one handler changes the object during an attempt.
THEOREM TimeIsWhole == ASSUME MaxIrqs <= 1 PROVE TimeSpec => []NotTorn
BY CopiesAreSnapshots, SnapshotIsWhole, PTL

\* Nor does an attempt fail without a reason.
THEOREM TimeRetryHasReason ==
    ASSUME MaxIrqs <= 1 PROVE TimeSpec => RetriesOnlyIfDisturbed
BY CopiesAreSnapshots, RetryHasReason, PTL

-----------------------------------------------------------------------------
(* The clock and the seconds of the world *)

LEMMA CalendarFacts ==
    ASSUME NEW C \in Calendars, NEW i \in 1 .. Len(C)
    PROVE  /\ C[i][1] \in Data /\ C[i][2] \in Data
           /\ InCalendar(Reading(C[i])) /\ CTime(Reading(C[i])) = Reading(C[i])
           /\ i + 1 \in 1 .. Len(C) =>
                /\ InCalendar(Reading(C[i + 1]))
                /\ Reading(C[i + 1]).year = Reading(C[i]).year
                /\ Ordinal(Reading(C[i + 1])) = Ordinal(Reading(C[i])) + 1
<1>1. C \in Seq(Data \X Data)
  BY TimekeepingConstants
<1>2. C[i] \in Data \X Data
  BY <1>1
<1>3. CTime(Reading(C[i])) = Reading(C[i])
  BY DEF CTime, Reading
<1>4. InCalendar(Reading(C[i]))
  BY SuccessiveSeconds
<1>5. ASSUME i + 1 \in 1 .. Len(C)
      PROVE  /\ InCalendar(Reading(C[i + 1]))
             /\ Reading(C[i + 1]).year = Reading(C[i]).year
             /\ Ordinal(Reading(C[i + 1])) = Ordinal(Reading(C[i])) + 1
  <2>1. i \in 1 .. Len(C) - 1
    BY <1>1, <1>5
  <2> QED
    BY <1>5, <2>1, SuccessiveSeconds
<1> QED
  BY <1>2, <1>3, <1>4, <1>5

\* A sentence of twelve fields, three of which matter.
LEMMA RmcTexts ==
    ASSUME NEW x, NEW y, NEW z, x \in Seq(Cell), y \in Seq(Cell), z \in Seq(Cell)
    PROVE  /\ Rmc(x, y, z) \in Texts12
           /\ Rmc(x, y, z)[1] = x /\ Rmc(x, y, z)[2] = y /\ Rmc(x, y, z)[9] = z
<1>1. <<Zero>> \in Seq(Cell)
  BY CellFacts
<1>2. Rmc(x, y, z) \in Texts12
  BY <1>1 DEF Rmc, Texts12
<1> QED
  BY <1>2 DEF Rmc

\* Empty fields are the only reason to leave the time alone.
LEMMA RmcRead ==
    ASSUME NEW t, NEW x, NEW y, NEW z, t \in Time, x \in Cell, y \in Cell, z \in Cell
    PROVE  LET u == NmeaRmc(t, Rmc(<<x>>, <<y>>, <<z>>))
           IN  /\ u \in Time /\ u.status = y /\ CTime(u) = Reading(<<x, z>>)
<1> DEFINE xs == <<x>>
           ys == <<y>>
           zs == <<z>>
           r == Rmc(xs, ys, zs)
           u == NmeaRmc(t, r)
           c == ClockOf(x)
           d == DateOf(z)
<1>1. /\ xs \in Seq(Cell) /\ ys \in Seq(Cell) /\ zs \in Seq(Cell)
      /\ xs # Empty /\ ys # Empty /\ zs # Empty
      /\ xs[1] = x /\ ys[1] = y /\ zs[1] = z
  BY DEF Empty
<1> HIDE DEF xs, ys, zs
<1>2. r \in Texts12 /\ r[1] = xs /\ r[2] = ys /\ r[9] = zs
  BY <1>1, RmcTexts
<1> HIDE DEF r
<1>3. u \in Time
  BY <1>2, RmcType
<1>4. u = [hour |-> c.hour, minute |-> c.minute, second |-> c.second,
           day |-> d.day, month |-> d.month, year |-> d.year,
           tenths |-> t.tenths, hundreths |-> t.hundreths,
           status |-> y, velocity |-> NumberOf(r[7]),
           track |-> NumberOf(r[8]), magvar |-> NumberOf(r[10]),
           magvar_dir |-> FirstChar(r[11])]
  BY <1>1, <1>2 DEF NmeaRmc, FirstChar
<1>5. u.status = y
  BY <1>4
<1>6. CTime(u) = Reading(<<x, z>>)
  BY <1>4 DEF CTime, Reading
<1> QED
  BY <1>3, <1>5, <1>6 DEF r, xs, ys, zs

\* A line that has lost its date leaves the time alone.
LEMMA RmcCut ==
    ASSUME NEW t \in Time, NEW x \in Cell, NEW y \in Cell
    PROVE  NmeaRmc(t, Rmc(<<x>>, <<y>>, Empty)) = t
<1> DEFINE xs == <<x>>
           ys == <<y>>
<1>1. xs \in Seq(Cell) /\ ys \in Seq(Cell) /\ Empty \in Seq(Cell)
  BY DEF Empty
<1> HIDE DEF xs, ys
<1>2. Rmc(xs, ys, Empty)[9] = Empty
  BY <1>1, RmcTexts
<1> QED
  BY <1>2 DEF NmeaRmc, xs, ys

\* The end of ticktock keeps the date, the clock and the status.
LEMMA AfterRmcKeeps ==
    ASSUME NEW t, NEW r, NEW pps \in BOOLEAN, NmeaRmc(t, r) \in Time
    PROVE  LET u == AfterRmc(t, r, pps)
               v == NmeaRmc(t, r)
           IN  u \in Time /\ u.status = v.status /\ CTime(u) = CTime(v)
BY FractionApart, FractionalResetType DEF AfterRmc

\* What a tick makes of the time without a sentence, with one and with a void
\* one or one that has lost its end.
LEMMA TickedTime ==
    ASSUME NEW t \in Time, ppsInUse \in BOOLEAN, calendar \in Calendars,
           second \in 1 .. Len(calendar)
    PROVE  LET h == PlusHundredth(t)
               told == AfterRmc(h, Told, ppsInUse)
           IN  /\ h \in Time /\ h.status = t.status /\ CTime(h) = CTime(t)
               /\ told \in Time /\ told.status = Valid /\ CTime(told) = Truth(second)
               /\ \A r \in NotTold : LET u == AfterRmc(h, r, ppsInUse) IN
                    /\ u \in Time
                    /\ u.status = Void \/ (u.status = t.status /\ CTime(u) = CTime(t))
<1> DEFINE h == PlusHundredth(t)
           x == calendar[second][1]
           z == calendar[second][2]
<1>1. h \in Time /\ h.status = t.status /\ CTime(h) = CTime(t)
  BY PlusHundredthType, FractionApart
<1> HIDE DEF h
<1>2. x \in Data /\ z \in Data /\ Reading(<<x, z>>) = Truth(second)
  BY CalendarFacts DEF Truth, Reading
<1>3. x \in Cell /\ z \in Cell /\ Valid \in Cell /\ Void \in Cell /\ Zero \in Cell
  BY <1>2, CellFacts, StatusCells
<1> HIDE DEF x, z
<1>4. Told = Rmc(<<x>>, <<Valid>>, <<z>>)
  BY DEF Told, x, z
<1>5. NotTold = {Rmc(<<Zero>>, <<Void>>, <<Zero>>), Rmc(<<x>>, <<Valid>>, Empty)}
  BY DEF NotTold, x
<1>6. LET v == NmeaRmc(h, Told)
      IN  v \in Time /\ v.status = Valid /\ CTime(v) = Truth(second)
  BY <1>1, <1>2, <1>3, <1>4, RmcRead
<1>7. LET u == AfterRmc(h, Told, ppsInUse)
      IN  u \in Time /\ u.status = Valid /\ CTime(u) = Truth(second)
  BY <1>6, AfterRmcKeeps
<1>8. ASSUME NEW r \in NotTold
      PROVE  LET u == AfterRmc(h, r, ppsInUse)
             IN  /\ u \in Time
                 /\ u.status = Void \/ (u.status = t.status /\ CTime(u) = CTime(t))
  <2>1. CASE r = Rmc(<<Zero>>, <<Void>>, <<Zero>>)
    <3> DEFINE v == NmeaRmc(h, Rmc(<<Zero>>, <<Void>>, <<Zero>>))
    <3>1. v \in Time /\ v.status = Void /\ CTime(v) = Reading(<<Zero, Zero>>)
      BY <1>1, <1>3, RmcRead
    <3> HIDE DEF v
    <3>2. NmeaRmc(h, r) = v
      BY <2>1 DEF v
    <3> QED
      BY <3>1, <3>2, AfterRmcKeeps
  <2>2. CASE r = Rmc(<<x>>, <<Valid>>, Empty)
    <3>1. NmeaRmc(h, r) = h
      BY <1>1, <1>3, <2>2, RmcCut
    <3> QED
      BY <1>1, <3>1, AfterRmcKeeps
  <2> QED
    BY <1>5, <1>8, <2>1, <2>2
<1> QED
  BY <1>1, <1>7, <1>8 DEF h

\* The ticks and the seconds keep step, give or take one tick, and a sentence
\* is told or missed before the next second.
InStepWithWorld ==
    /\ ppsInUse \in BOOLEAN /\ calendar \in Calendars /\ theTime \in Time
    /\ second \in 1 .. Len(calendar) /\ heard \in {second - 1, second}
    /\ missed \in Nat /\ now \in Nat
    /\ Tps * (second - 1) - 1 <= now /\ now <= Tps * second

\* Without PPS a valid time is that of the last sentence that told it.
LagsByMissed ==
    ~ppsInUse /\ theTime.status = Valid =>
        \E s \in 1 .. heard : CTime(theTime) = Truth(s) /\ heard - s <= missed

ClockInv == InStepWithWorld /\ ShowsTrueTime /\ LagsByMissed /\ RtcIsRecent

\* Whatever timeNow may return is the object as it was in this second or, if
\* the second has begun during the attempt, in the one before.
OfSecond(w, s) == w[1] = DateWord(Truth(s)) /\ w[2] = ClockWord(Truth(s))

SeenIsTrue ==
    pc # "return" /\ call = "timeNow" /\ ppsInUse =>
        /\ \A w \in seen : w[3] % 2 = 1 =>
              \E s \in {second - 1, second} \ {0} : OfSecond(w, s)
        /\ irqs = 0 => \A w \in seen : w[3] % 2 = 1 => OfSecond(w, second)

LiveIsTime == call = "timeNow" => live = TimeWords(theTime)

LEMMA TpsType == Tps \in Nat /\ Late \in 1 .. Tps - 1
BY RadixType, TimekeepingConstants DEF Tps

LEMMA Products ==
    ASSUME NEW T, NEW i, NEW j, T \in Nat, i \in Int, j \in Int
    PROVE  /\ T * i \in Int
           /\ T * (i - 1) = T * i - T /\ T * (i + 1) = T * i + T
           /\ T * (1 + i) = T * i + T
           /\ T * (j - i) = T * j - T * i
           /\ i <= j => T * i <= T * j
OBVIOUS

\* Tick n lies within second i, and h is the second of the last sentence.
Within(n, i, h) ==
    /\ Tps * (i - 1) <= n /\ n <= Tps * i
    /\ h = i \/ (h = i - 1 /\ n < Tps * (i - 1) + Late)

\* A time that is at most m seconds behind the last sentence.
LEMMA Delay ==
    ASSUME NEW n, NEW m, NEW i, NEW s, NEW h,
           n \in Int, m \in Nat, i \in Int, s \in Int, h \in Int,
           Within(n, i, h), s <= i, h - s <= m
    PROVE  SoonAfter(n, s, m)
<1>1. /\ Tps * (i - 1) <= n /\ n <= Tps * i
      /\ h = i \/ (h = i - 1 /\ n < Tps * (i - 1) + Late)
  BY DEF Within
<1>2. /\ Tps * (i - 1) = Tps * i - Tps /\ Tps * (s - 1) = Tps * s - Tps
      /\ Tps * (1 + m) = Tps * m + Tps
      /\ Tps * i \in Int /\ Tps * s \in Int /\ Tps * m \in Int /\ Tps * s <= Tps * i
      /\ Tps \in Nat /\ Late \in Nat /\ Late >= 1
  BY TpsType, Products
<1>3. 0 <= n - Tps * (s - 1)
  BY <1>1, <1>2
<1>4. CASE h = i
  <2>1. Tps * (i - s) = Tps * i - Tps * s /\ Tps * (i - s) <= Tps * m
    BY <1>2, <1>4, Products
  <2> QED
    BY <1>1, <1>2, <1>3, <2>1 DEF SoonAfter
<1>5. CASE h = i - 1 /\ n < Tps * (i - 1) + Late
  <2>1. i - 1 - s \in Int /\ i - 1 - s <= m
    BY <1>5
  <2>2. Tps * (i - 1 - s) <= Tps * m
    BY <1>2, <2>1, Products
  <2>3. Tps * (i - 1 - s) = Tps * (i - 1) - Tps * s
    BY <1>2, Products
  <2> QED
    BY <1>1, <1>2, <1>3, <1>5, <2>2, <2>3 DEF SoonAfter
<1> QED
  BY <1>1, <1>4, <1>5

\* One more sentence that is missed changes nothing.
LEMMA StillSoon ==
    ASSUME NEW at, NEW s, NEW m, NEW n, s \in Int, m \in Nat, n \in Nat, m <= n,
           SoonAfter(at, s, m)
    PROVE  SoonAfter(at, s, n)
<1>1. 1 + m \in Int /\ 1 + n \in Int /\ 1 + m <= 1 + n
  OBVIOUS
<1> DEFINE x == at - Tps * (s - 1)
           y == Tps * (1 + m)
           z == Tps * (1 + n)
<1>2. y \in Int /\ z \in Int /\ y <= z /\ Late \in Nat
  BY <1>1, TpsType, Products
<1>3. x \in 0 .. Late + y - 1
  BY DEF SoonAfter
<1> HIDE DEF x, y, z
<1>4. x \in 0 .. Late + z - 1
  BY <1>2, <1>3
<1> QED
  BY <1>4 DEF SoonAfter, x, z

LEMMA RtcKept ==
    ASSUME InStepWithWorld, RtcIsRecent, UNCHANGED <<rtc, calendar>>,
           second' \in {second, second + 1}, NEW m \in Nat, missed' = m, missed <= m
    PROVE  RtcIsRecent'
<1> SUFFICES ASSUME rtc # None
             PROVE  \E s \in 1 .. second' : rtc.time = Truth(s) /\ SoonAfter(rtc.at, s, m)
  BY DEF RtcIsRecent, Truth
<1>1. PICK s \in 1 .. second : rtc.time = Truth(s) /\ SoonAfter(rtc.at, s, missed)
  BY DEF RtcIsRecent
<1>2. second \in Nat /\ missed \in Nat
  BY DEF InStepWithWorld
<1>3. SoonAfter(rtc.at, s, m)
  BY <1>1, <1>2, StillSoon
<1>4. s \in 1 .. second'
  BY <1>2
<1> QED
  BY <1>1, <1>3, <1>4

\* What is to be shown of the time t that a tick makes.
LEMMA TickInv ==
    ASSUME InStepWithWorld, RtcIsRecent, NEW t \in Time, NEW p, Ticktock(t, p),
           NEW h \in {heard, second}, heard' = h,
           NEW m \in Nat, missed' = m, missed <= m,
           h = second \/ now + 1 < Tps * (second - 1) + Late,
           ppsInUse /\ t.status = Valid => CTime(t) = Truth(second),
           ~ppsInUse /\ t.status = Valid =>
              \E s \in 1 .. h : CTime(t) = Truth(s) /\ h - s <= m
    PROVE  ClockInv'
<1>1. /\ UNCHANGED <<ppsInUse, calendar, second>> /\ now' = now + 1 /\ theTime' = t
      /\ now < Tps * second
      /\ rtc' = IF SetsRtc(t) THEN [time |-> CTime(t), at |-> now + 1] ELSE rtc
  BY DEF Ticktock, Handler, SetFrom
<1>2. /\ second \in Nat /\ Tps \in Nat /\ Late \in Nat /\ Late >= 1
      /\ now \in Nat /\ Tps * second \in Int /\ Tps * (second - 1) \in Int
      /\ second >= 1 /\ h \in {second - 1, second}
  BY TpsType, Products DEF InStepWithWorld
<1>3. Tps * (second - 1) <= now + 1 /\ now + 1 <= Tps * second
  BY <1>1, <1>2 DEF InStepWithWorld
<1>4. InStepWithWorld'
  BY <1>1, <1>2, <1>3 DEF InStepWithWorld
<1>5. ShowsTrueTime'
  BY <1>1 DEF ShowsTrueTime, Truth
<1>6. LagsByMissed'
  BY <1>1 DEF LagsByMissed, Truth
<1>7. RtcIsRecent'
  <2>1. CASE ~SetsRtc(t)
    BY <1>1, <2>1, RtcKept
  <2>2. CASE SetsRtc(t)
    <3>1. t.status = Valid
      BY <2>2 DEF SetsRtc
    <3>2. PICK s \in 1 .. second : CTime(t) = Truth(s) /\ h - s <= m
      <4>1. CASE ppsInUse
        <5>1. second \in 1 .. second /\ h - second <= m
          BY <1>2
        <5> QED
          BY <3>1, <4>1, <5>1
      <4>2. CASE ~ppsInUse
        <5>1. PICK s \in 1 .. h : CTime(t) = Truth(s) /\ h - s <= m
          BY <3>1, <4>2
        <5>2. s \in 1 .. second
          BY <1>2, <5>1
        <5> QED
          BY <5>1, <5>2
      <4> QED
        BY <4>1, <4>2
    <3>3. SoonAfter(now + 1, s, m)
      <4>1. s \in Int /\ s <= second /\ now + 1 \in Int /\ h \in Int
        BY <1>2
      <4>2. h = second \/ (h = second - 1 /\ now + 1 < Tps * (second - 1) + Late)
        BY <1>2
      <4> DEFINE n == now + 1
      <4>3. n \in Int /\ Within(n, second, h)
        BY <1>3, <4>1, <4>2 DEF Within
      <4> HIDE DEF n
      <4>4. SoonAfter(n, s, m)
        BY <1>2, <3>2, <4>1, <4>3, Delay
      <4> QED
        BY <4>4 DEF n
    <3>4. rtc'.time = Truth(s)' /\ rtc'.at = now + 1 /\ s \in 1 .. second'
      BY <1>1, <2>2, <3>2 DEF Truth
    <3>5. SoonAfter(rtc'.at, s, missed')
      BY <3>3, <3>4
    <3> QED
      BY <3>4, <3>5 DEF RtcIsRecent
  <2> QED
    BY <2>1, <2>2
<1> QED
  BY <1>4, <1>5, <1>6, <1>7 DEF ClockInv

LEMMA TickOnlyInv == ASSUME ClockInv, TickOnly PROVE ClockInv'
<1> DEFINE u == PlusHundredth(theTime)
<1>1. InStepWithWorld /\ ShowsTrueTime /\ LagsByMissed /\ RtcIsRecent
  BY DEF ClockInv
<1>2. PICK p \in {0, 1} : Ticktock(u, p)
  BY DEF TickOnly
<1>3. UNCHANGED <<heard, missed>>
      /\ (heard = second \/ now + 1 < Tps * (second - 1) + Late)
  BY DEF TickOnly
<1>4. u \in Time /\ u.status = theTime.status /\ CTime(u) = CTime(theTime)
  BY <1>1, TickedTime DEF InStepWithWorld
<1> HIDE DEF u
<1>5. ppsInUse /\ u.status = Valid => CTime(u) = Truth(second)
  BY <1>1, <1>4 DEF ShowsTrueTime
<1>6. ~ppsInUse /\ u.status = Valid =>
        \E s \in 1 .. heard : CTime(u) = Truth(s) /\ heard - s <= missed
  BY <1>1, <1>4 DEF LagsByMissed
<1>7. heard \in {heard, second} /\ missed \in Nat /\ missed <= missed
  BY <1>1 DEF InStepWithWorld
<1> QED
  BY <1>1, <1>2, <1>3, <1>4, <1>5, <1>6, <1>7, TickInv

LEMMA TickToldInv == ASSUME ClockInv, TickTold PROVE ClockInv'
<1> DEFINE u == AfterRmc(PlusHundredth(theTime), Told, ppsInUse)
<1>1. InStepWithWorld /\ ShowsTrueTime /\ LagsByMissed /\ RtcIsRecent
  BY DEF ClockInv
<1>2. Ticktock(u, place) /\ heard' = second /\ UNCHANGED missed
  BY DEF TickTold
<1>3. u \in Time /\ u.status = Valid /\ CTime(u) = Truth(second)
  BY <1>1, TickedTime DEF InStepWithWorld
<1> HIDE DEF u
<1>4. second \in 1 .. second /\ second - second <= missed
      /\ missed \in Nat /\ missed <= missed
  BY <1>1 DEF InStepWithWorld
<1> QED
  BY <1>1, <1>2, <1>3, <1>4, TickInv

LEMMA TickNotToldInv == ASSUME ClockInv, TickNotTold PROVE ClockInv'
<1>1. InStepWithWorld /\ ShowsTrueTime /\ LagsByMissed /\ RtcIsRecent
  BY DEF ClockInv
<1>2. PICK r \in NotTold :
         Ticktock(AfterRmc(PlusHundredth(theTime), r, ppsInUse), place)
  BY DEF TickNotTold
<1> DEFINE u == AfterRmc(PlusHundredth(theTime), r, ppsInUse)
           m == missed + 1
<1>3. /\ u \in Time
      /\ u.status = Void \/ (u.status = theTime.status /\ CTime(u) = CTime(theTime))
  BY <1>1, TickedTime DEF InStepWithWorld
<1>4. Ticktock(u, place) /\ heard' = second /\ heard < second /\ missed' = m
  BY <1>2 DEF TickNotTold, Miss
<1>5. m \in Nat /\ missed <= m /\ second \in Nat /\ heard = second - 1
  BY <1>1, <1>4 DEF InStepWithWorld
<1> HIDE DEF u
<1>6. ppsInUse /\ u.status = Valid => CTime(u) = Truth(second)
  BY <1>1, <1>3, StatusCells DEF ShowsTrueTime
<1>7. ASSUME ~ppsInUse, u.status = Valid
      PROVE  \E s \in 1 .. second : CTime(u) = Truth(s) /\ second - s <= m
  <2>1. CTime(u) = CTime(theTime) /\ theTime.status = Valid
    BY <1>3, <1>7, StatusCells
  <2>2. PICK s \in 1 .. heard : CTime(theTime) = Truth(s) /\ heard - s <= missed
    BY <1>1, <1>7, <2>1 DEF LagsByMissed
  <2>3. s \in 1 .. second /\ second - s <= m
    BY <1>1, <1>5, <2>2 DEF InStepWithWorld
  <2> QED
    BY <2>1, <2>2, <2>3
<1> HIDE DEF m
<1> QED
  BY <1>1, <1>3, <1>4, <1>5, <1>6, <1>7, TickInv

LEMMA LostInv == ASSUME ClockInv, Lost PROVE ClockInv'
<1> DEFINE m == missed + 1
<1>1. InStepWithWorld /\ ShowsTrueTime /\ LagsByMissed /\ RtcIsRecent
  BY DEF ClockInv
<1>2. /\ heard' = second /\ heard < second /\ missed' = m
      /\ UNCHANGED <<ppsInUse, calendar, now, second, theTime, rtc>>
  BY DEF Lost, Miss
<1>3. m \in Nat /\ missed <= m /\ second \in Nat /\ heard = second - 1
  BY <1>1, <1>2 DEF InStepWithWorld
<1>4. InStepWithWorld'
  BY <1>1, <1>2, <1>3 DEF InStepWithWorld
<1>5. ShowsTrueTime'
  BY <1>1, <1>2 DEF ShowsTrueTime, Truth
<1>6. LagsByMissed'
  <2> SUFFICES ASSUME ~ppsInUse, theTime.status = Valid
               PROVE  \E s \in 1 .. second : CTime(theTime) = Truth(s) /\ second - s <= m
    BY <1>2 DEF LagsByMissed, Truth
  <2>1. PICK s \in 1 .. heard : CTime(theTime) = Truth(s) /\ heard - s <= missed
    BY <1>1 DEF LagsByMissed
  <2>2. s \in 1 .. second /\ second - s <= m
    BY <1>1, <1>3, <2>1 DEF InStepWithWorld
  <2> QED
    BY <2>1, <2>2
<1> HIDE DEF m
<1>7. RtcIsRecent'
  BY <1>1, <1>2, <1>3, RtcKept
<1> QED
  BY <1>4, <1>5, <1>6, <1>7 DEF ClockInv

\* With PPS the edge advances the clock to the second that begins.
LEMMA SecondBeginsInv == ASSUME ClockInv, SecondBegins PROVE ClockInv'
<1>1. InStepWithWorld /\ ShowsTrueTime /\ LagsByMissed /\ RtcIsRecent
  BY DEF ClockInv
<1>2. /\ second < Len(calendar) /\ now \in {Tps * second - 1, Tps * second}
      /\ heard = second /\ second' = second + 1
      /\ UNCHANGED <<ppsInUse, calendar, now, heard, missed, rtc>>
  BY DEF SecondBegins
<1>3. /\ second \in Nat /\ second \in 1 .. Len(calendar) /\ missed \in Nat
      /\ theTime \in Time /\ now \in Nat /\ Tps \in Nat /\ Len(calendar) \in Nat
      /\ calendar \in Calendars /\ ppsInUse \in BOOLEAN
      /\ second + 1 \in 1 .. Len(calendar)
  <2>1. Len(calendar) \in Nat
    BY <1>1, TimekeepingConstants DEF InStepWithWorld
  <2> QED
    BY <1>1, <1>2, <2>1, TpsType DEF InStepWithWorld
<1>4. Tps * (second + 1 - 1) = Tps * second /\ Tps * (second + 1) = Tps * second + Tps
      /\ Tps * second \in Int
  BY <1>3, Products
<1>5. CASE ppsInUse
  <2>1. PICK days \in DaysRead(theTime) : theTime' = PlusSecond(theTime, days)
    BY <1>5 DEF SecondBegins, Handler
  <2>2. theTime' \in Time /\ theTime'.status = theTime.status
    BY <1>3, <2>1, PlusSecondType, PlusSecondIs
  <2>3. ASSUME theTime.status = Valid PROVE CTime(theTime') = Truth(second)'
    <3>1. CTime(theTime) = Truth(second)
      BY <1>1, <1>5, <2>3 DEF ShowsTrueTime
    <3> DEFINE t == Reading(calendar[second])
               u == Reading(calendar[second + 1])
    <3>2. /\ InCalendar(t) /\ CTime(t) = t /\ InCalendar(u) /\ u.year = t.year
          /\ Ordinal(u) = Ordinal(t) + 1
      BY <1>3, CalendarFacts
    <3>3. CTime(u) = u
      BY <1>3, CalendarFacts
    <3>4. CTime(theTime) = CTime(t)
      BY <3>1, <3>2 DEF Truth
    <3>5. Truth(second)' = u
      BY <1>2 DEF Truth
    <3> HIDE DEF t, u
    <3>6. InCalendar(theTime) /\ Ordinal(theTime) = Ordinal(t) /\ theTime.year = t.year
      BY <3>2, <3>4, SameCTime
    <3>7. CTime(PlusSecond(theTime, days)) = CTime(u)
      BY <1>3, <3>2, <3>6, PlusSecondFollows
    <3> QED
      BY <2>1, <3>3, <3>5, <3>7
  <2>4. InStepWithWorld'
    BY <1>1, <1>2, <1>3, <1>4, <2>2 DEF InStepWithWorld
  <2>5. ShowsTrueTime'
    BY <2>2, <2>3 DEF ShowsTrueTime
  <2>6. LagsByMissed'
    BY <1>2, <1>5 DEF LagsByMissed
  <2>7. RtcIsRecent'
    BY <1>1, <1>2, <1>3, RtcKept
  <2> QED
    BY <2>4, <2>5, <2>6, <2>7 DEF ClockInv
<1>6. CASE ~ppsInUse
  <2>1. UNCHANGED theTime
    BY <1>6 DEF SecondBegins
  <2>2. InStepWithWorld'
    BY <1>1, <1>2, <1>3, <1>4, <2>1 DEF InStepWithWorld
  <2>3. ShowsTrueTime'
    BY <1>2, <1>6 DEF ShowsTrueTime
  <2>4. LagsByMissed'
    BY <1>1, <1>2, <2>1 DEF LagsByMissed, Truth
  <2>5. RtcIsRecent'
    BY <1>1, <1>2, <1>3, RtcKept
  <2> QED
    BY <2>2, <2>3, <2>4, <2>5 DEF ClockInv
<1> QED
  BY <1>3, <1>5, <1>6

LEMMA ClockInit == TimeInit => ClockInv
<1> SUFFICES ASSUME TimeInit PROVE ClockInv
  OBVIOUS
<1>1. /\ ppsInUse \in BOOLEAN /\ calendar \in Calendars /\ now = 0 /\ second = 1
      /\ heard = 0 /\ missed = 0 /\ theTime = InitTime /\ rtc = None
  BY DEF TimeInit
<1>2. 1 \in 1 .. Len(calendar)
  <2>1. calendar # <<>> /\ calendar \in Seq(Data \X Data)
    BY <1>1, TimekeepingConstants
  <2> QED
    BY <2>1
<1>3. InitTime \in Time /\ InitTime.status = Void
  <2>1. <<Zero>> \in Number /\ Void \in Cell /\ Zero \in Cell
    BY CellFacts DEF Number
  <2>2. 0 \in 0 .. Radix - 1
    BY RadixType
  <2>3. InitTime \in Time
    BY <2>1, <2>2 DEF InitTime, Time
  <2> QED
    BY <2>3 DEF InitTime
<1>4. Tps * (1 - 1) = 0 /\ Tps * 1 = Tps /\ Tps \in Nat
  BY TpsType
<1> QED
  BY <1>1, <1>2, <1>3, <1>4, StatusCells
  DEF ClockInv, InStepWithWorld, ShowsTrueTime, LagsByMissed, RtcIsRecent

LEMMA ClockNext == ClockInv /\ [TimeNext]_<<timeVars, vars>> => ClockInv'
<1> SUFFICES ASSUME ClockInv, [TimeNext]_<<timeVars, vars>> PROVE ClockInv'
  OBVIOUS
<1>1. ASSUME UNCHANGED <<ppsInUse, calendar, now, second, heard, missed, theTime, rtc>>
      PROVE  ClockInv'
  BY <1>1 DEF ClockInv, InStepWithWorld, ShowsTrueTime, LagsByMissed, RtcIsRecent, Truth
<1>2. ASSUME NEW c \in Calls, MainCalls(c) PROVE ClockInv'
  BY <1>1, <1>2 DEF MainCalls, world
<1>3. CASE MainCopies
  BY <1>1, <1>3 DEF MainCopies, timeVars, world
<1>4. CASE UNCHANGED <<timeVars, vars>>
  BY <1>1, <1>4 DEF timeVars, world
<1> QED
  BY <1>2, <1>3, <1>4, LostInv, SecondBeginsInv, TickOnlyInv, TickToldInv, TickNotToldInv
  DEF TimeNext

\* With PPS a valid time is that of the second that has begun last, whatever
\* the calendar and whichever sentences are missing.
THEOREM TimeIsTrue == TimeSpec => []ShowsTrueTime
<1>1. ClockInv => ShowsTrueTime
  BY DEF ClockInv
<1> QED
  BY <1>1, ClockInit, ClockNext, PTL DEF TimeSpec

\* The real-time clock is never set to a time that is further behind than the
\* sentences that were missed explain.
THEOREM RtcFollows == TimeSpec => []RtcIsRecent
<1>1. ClockInv => RtcIsRecent
  BY DEF ClockInv
<1> QED
  BY <1>1, ClockInit, ClockNext, PTL DEF TimeSpec

-----------------------------------------------------------------------------
(* The copy of the time *)

\* The words tell whether the time is valid and, if it is, which second it is.
LEMMA TimeWordsTell ==
    ASSUME NEW t \in Time
    PROVE  /\ TimeWords(t)[3] % 2 = 1 => t.status = Valid
           /\ \A s : CTime(t) = Truth(s) => OfSecond(TimeWords(t), s)
<1>1. t.tenths \in Int /\ t.hundreths \in Int
  BY DEF Time
<1> DEFINE n == t.tenths * Radix + t.hundreths
<1>2. n \in Int
  BY <1>1, RadixType
<1>3. TimeWords(t)[3] = n * 2 + (IF t.status = Valid THEN 1 ELSE 0)
  BY DEF TimeWords
<1> HIDE DEF n
<1>4. TimeWords(t)[3] % 2 = 1 => t.status = Valid
  BY <1>2, <1>3
<1>5. ASSUME NEW s, CTime(t) = Truth(s) PROVE OfSecond(TimeWords(t), s)
  <2> DEFINE u == Truth(s)
  <2>1. CTime(t) = u
    BY <1>5
  <2> HIDE DEF u
  <2>2. u.year = t.year /\ u.month = t.month /\ u.day = t.day
        /\ u.hour = t.hour /\ u.minute = t.minute /\ u.second = t.second
    BY <2>1 DEF CTime
  <2>3. TimeWords(t)[1] = DateWord(t) /\ TimeWords(t)[2] = ClockWord(t)
    BY DEF TimeWords
  <2>4. DateWord(t) = DateWord(u) /\ ClockWord(t) = ClockWord(u)
    BY <2>2 DEF DateWord, ClockWord
  <2> QED
    BY <2>3, <2>4 DEF OfSecond, u
<1> QED
  BY <1>4, <1>5

\* The increment of the second always changes the words, of an invalid time too.
LEMMA SecondMovesWords ==
    ASSUME NEW t \in Time, NEW days
    PROVE  TimeWords(PlusSecond(t, days)) # TimeWords(t)
<1> DEFINE u == PlusSecond(t, days)
<1>1. t.hour \in Int /\ t.minute \in Int /\ t.second \in Int
  BY DEF Time
<1>2. \/ u.hour = t.hour /\ u.minute = t.minute /\ u.second = t.second + 1
      \/ /\ u.hour = t.hour /\ u.minute = t.minute + 1 /\ u.second = 0
         /\ t.second = 59
      \/ /\ u.hour = t.hour + 1 /\ u.minute = 0 /\ u.second = 0
         /\ t.second = 59 /\ t.minute = 59
      \/ /\ u.hour = 0 /\ u.minute = 0 /\ u.second = 0
         /\ t.second = 59 /\ t.minute = 59 /\ t.hour = 23
  BY <1>1, PlusSecondIs DEF Shows
<1> HIDE DEF u
<1>3. ClockWord(u) # ClockWord(t)
  BY <1>1, <1>2 DEF ClockWord
<1>4. TimeWords(t)[2] = ClockWord(t) /\ TimeWords(u)[2] = ClockWord(u)
  BY DEF TimeWords
<1> QED
  BY <1>3, <1>4 DEF u

\* The object that is copied tells the current second.
LiveIsTrue == call = "timeNow" /\ ppsInUse /\ live[3] % 2 = 1 => OfSecond(live, second)

LEMMA LiveTells == ClockInv /\ LiveIsTime => LiveIsTrue
<1> SUFFICES ASSUME ClockInv, LiveIsTime, call = "timeNow", ppsInUse, live[3] % 2 = 1
             PROVE  OfSecond(live, second)
  BY DEF LiveIsTrue
<1>1. theTime \in Time /\ live = TimeWords(theTime)
  BY DEF ClockInv, InStepWithWorld, LiveIsTime
<1>2. theTime.status = Valid
  BY <1>1, TimeWordsTell
<1>3. CTime(theTime) = Truth(second)
  BY <1>2 DEF ClockInv, ShowsTrueTime
<1> QED
  BY <1>1, <1>3, TimeWordsTell

\* An attempt begins with the object alone.
LEMMA AttemptSeen ==
    ASSUME ClockInv', LiveIsTrue', NEW c, Attempt(c)
    PROVE  SeenIsTrue'
<1> SUFFICES ASSUME call' = "timeNow", ppsInUse',
                    NEW w \in seen', w[3] % 2 = 1
             PROVE  /\ \E s \in {second' - 1, second'} \ {0} : OfSecond(w, s)'
                    /\ OfSecond(w, second)'
  BY Zenon DEF SeenIsTrue
<1>1. w = live'
  BY DEF Attempt
<1>2. OfSecond(w, second)'
  BY <1>1 DEF LiveIsTrue
<1>3. second' # 0
  BY DEF ClockInv, InStepWithWorld
<1> QED
  BY <1>2, <1>3

\* A handler adds the object to what may be copied, and in this second or, at
\* the beginning of the next one, for the first time during the attempt.
LEMMA HandlerSeen ==
    ASSUME Inv, ClockInv, LiveIsTrue', SeenIsTrue, UNCHANGED <<ppsInUse, calendar>>,
           UNCHANGED vars \/ Irq,
           \/ second' = second
           \/ second' = second + 1 /\ (call = "timeNow" /\ ppsInUse /\ pc # "return" =>
                                          Irq /\ irqs = 0)
    PROVE  SeenIsTrue'
<1>1. UNCHANGED <<pc, call, ppsInUse, calendar>>
  BY DEF vars, Irq
<1> SUFFICES ASSUME call = "timeNow", ppsInUse, pc # "return",
                    NEW w \in seen', w[3] % 2 = 1
             PROVE  /\ \E s \in {second' - 1, second'} \ {0} : OfSecond(w, s)
                    /\ irqs' = 0 => OfSecond(w, second')
  BY <1>1 DEF SeenIsTrue, OfSecond, Truth
<1>2. second \in Nat /\ second # 0 /\ irqs \in Nat
  BY DEF ClockInv, InStepWithWorld, Inv, TypeOK
<1>3. /\ w \in seen => /\ \E s \in {second - 1, second} \ {0} : OfSecond(w, s)
                       /\ irqs = 0 => OfSecond(w, second)
  BY DEF SeenIsTrue
<1>4. w = live' => OfSecond(w, second')
  BY <1>1 DEF LiveIsTrue, OfSecond, Truth
<1>5. CASE second' = second /\ UNCHANGED vars
  BY <1>3, <1>5 DEF vars
<1>6. CASE Irq
  <2>1. irqs' = irqs + 1 /\ seen' = seen \cup {live'}
    BY <1>6 DEF Irq
  <2>2. irqs' # 0
    BY <1>2, <2>1
  <2>3. second' # 0
    BY <1>2
  <2>4. CASE w = live'
    BY <1>4, <2>2, <2>3, <2>4
  <2>5. CASE w \in seen /\ second' = second
    BY <1>3, <2>2, <2>5
  <2>6. CASE w \in seen /\ second' = second + 1
    <3>1. OfSecond(w, second) /\ second' - 1 = second
      BY <1>2, <1>3, <2>6
    <3> QED
      BY <1>2, <2>2, <3>1
  <2> QED
    BY <2>1, <2>4, <2>5, <2>6
<1> QED
  BY <1>5, <1>6

LEMMA SecondBeginsSeen ==
    ASSUME Inv, MaxIrqs <= 1, ClockInv, LiveIsTime, LiveIsTrue', SeenIsTrue, SecondBegins
    PROVE  SeenIsTrue'
<1>1. second' = second + 1 /\ UNCHANGED <<ppsInUse, calendar>>
  BY DEF SecondBegins
<1>2. UNCHANGED vars \/ Irq
  BY DEF SecondBegins, Handler
<1>3. ASSUME call = "timeNow", ppsInUse, pc # "return" PROVE Irq /\ irqs = 0
  <2>1. PICK days \in DaysRead(theTime) : Handler(PlusSecond(theTime, days), place)
    BY <1>3 DEF SecondBegins
  <2>2. live = TimeWords(theTime) /\ theTime \in Time
    BY <1>3 DEF LiveIsTime, ClockInv, InStepWithWorld
  <2>3. live' = TimeWords(PlusSecond(theTime, days))
    BY <1>3, <2>1 DEF Handler, WordsFor
  <2>4. live' # live
    BY <2>2, <2>3, SecondMovesWords
  <2>5. Irq
    BY <2>1, <2>4 DEF Handler
  <2>6. irqs < MaxIrqs
    BY <1>3, <2>5 DEF Irq
  <2> QED
    BY <2>5, <2>6, SnapshotConstants DEF Inv, TypeOK
<1> QED
  BY <1>1, <1>2, <1>3, HandlerSeen

LEMMA LiveNext ==
    LiveIsTime /\ [TimeNext]_<<timeVars, vars>> => LiveIsTime'
<1> SUFFICES ASSUME LiveIsTime, [TimeNext]_<<timeVars, vars>> PROVE LiveIsTime'
  OBVIOUS
<1>1. ASSUME NEW t, NEW p, Handler(t, p) PROVE LiveIsTime'
  BY <1>1 DEF Handler, WordsFor, LiveIsTime, vars, Irq
<1>2. ASSUME UNCHANGED <<theTime, live, call>> PROVE LiveIsTime'
  BY <1>2 DEF LiveIsTime
<1>3. ASSUME NEW c \in Calls, MainCalls(c) PROVE LiveIsTime'
  BY <1>3 DEF MainCalls, Call, WordsFor, LiveIsTime
<1>4. CASE MainCopies
  BY <1>2, <1>4 DEF MainCopies, timeVars, CopyA, CopyQ, Equal, Differ, Advance
<1>5. CASE UNCHANGED <<timeVars, vars>>
  BY <1>2, <1>5 DEF timeVars, vars
<1>6. CASE Lost
  BY <1>2, <1>6 DEF Lost, vars
<1>7. CASE SecondBegins
  BY <1>1, <1>2, <1>7 DEF SecondBegins, vars
<1> QED
  BY <1>1, <1>3, <1>4, <1>5, <1>6, <1>7 DEF TimeNext, TickOnly, TickTold, TickNotTold, Ticktock

LEMMA SeenNext ==
    ASSUME MaxIrqs <= 1
    PROVE  Inv /\ ClockInv /\ ClockInv' /\ LiveIsTime /\ LiveIsTrue' /\ SeenIsTrue
             /\ [TimeNext]_<<timeVars, vars>> => SeenIsTrue'
<1> SUFFICES ASSUME Inv, ClockInv, ClockInv', LiveIsTime, LiveIsTrue', SeenIsTrue,
                    [TimeNext]_<<timeVars, vars>>
             PROVE  SeenIsTrue'
  OBVIOUS
<1>1. ASSUME UNCHANGED <<ppsInUse, calendar, second, call, seen, irqs>>,
             pc # "return" \/ pc' = pc
      PROVE  SeenIsTrue'
  BY <1>1 DEF SeenIsTrue, OfSecond, Truth
<1>2. ASSUME NEW t, NEW p, Ticktock(t, p) PROVE SeenIsTrue'
  <2>1. UNCHANGED <<ppsInUse, calendar>> /\ second' = second /\ (UNCHANGED vars \/ Irq)
    BY <1>2 DEF Ticktock, Handler
  <2> QED
    BY <2>1, HandlerSeen
<1>3. ASSUME NEW c \in Calls, MainCalls(c) PROVE SeenIsTrue'
  BY <1>3, AttemptSeen DEF MainCalls, Call
<1>4. CASE MainCopies
  <2>1. CASE Differ
    BY <2>1, AttemptSeen DEF Differ
  <2>2. CASE CopyA \/ CopyQ \/ Equal
    <3>1. UNCHANGED <<call, seen, irqs>> /\ pc # "return"
      BY <2>2 DEF CopyA, CopyQ, Equal, Advance
    <3> QED
      BY <1>1, <1>4, <3>1 DEF MainCopies, timeVars, world
  <2> QED
    BY <1>4, <2>1, <2>2 DEF MainCopies
<1>5. CASE UNCHANGED <<timeVars, vars>>
  BY <1>1, <1>5 DEF timeVars, world, vars
<1>6. CASE Lost
  BY <1>1, <1>6 DEF Lost, vars
<1> QED
  BY <1>2, <1>3, <1>4, <1>5, <1>6, SecondBeginsSeen
  DEF TimeNext, TickOnly, TickTold, TickNotTold

LEMMA ShownInit == TimeInit => LiveIsTime /\ SeenIsTrue
BY DEF TimeInit, LiveIsTime, SeenIsTrue

\* A valid time that timeNow returns with PPS is that of the current second or
\* of the one before, if at most one handler changes it during an attempt.
THEOREM ShownIsTrue == ASSUME MaxIrqs <= 1 PROVE TimeSpec => ShownTimeIsTrue
<1> DEFINE A == pc = "compare" /\ pc' = "return" /\ call = "timeNow"
                  /\ ppsInUse /\ q[3] % 2 = 1
                => \E s \in {second - 1, second} \ {0} :
                      q[1] = DateWord(Truth(s)) /\ q[2] = ClockWord(Truth(s))
           AllInv == Inv /\ ClockInv /\ LiveIsTime /\ LiveIsTrue
<1>1. TimeSpec => []Inv
  <2>1. Inv /\ [Next]_vars => Inv'
    BY NextInv
  <2> QED
    BY <2>1, CopiesAreSnapshots, InitInv, PTL DEF Spec
<1>2. TimeSpec => []ClockInv
  BY ClockInit, ClockNext, PTL DEF TimeSpec
<1>3. TimeSpec => []LiveIsTime
  <2>1. TimeInit => LiveIsTime
    BY ShownInit
  <2> QED
    BY <2>1, LiveNext, PTL DEF TimeSpec
<1>4. TimeSpec => []AllInv
  BY <1>1, <1>2, <1>3, LiveTells, PTL
<1>5. TimeInit => SeenIsTrue
  BY ShownInit
<1>6. AllInv /\ AllInv' /\ SeenIsTrue /\ [TimeNext]_<<timeVars, vars>> => SeenIsTrue'
  BY SeenNext
<1>7. AllInv /\ AllInv' /\ SeenIsTrue /\ [TimeNext]_<<timeVars, vars>>
        => [A]_<<timeVars, vars>>
  <2> SUFFICES ASSUME Inv, Inv', SeenIsTrue, TimeNext, pc = "compare", pc' = "return",
                      call = "timeNow", ppsInUse, q[3] % 2 = 1
               PROVE  \E s \in {second - 1, second} \ {0} :
                         q[1] = DateWord(Truth(s)) /\ q[2] = ClockWord(Truth(s))
    OBVIOUS
  <2>1. MainCopies
    BY DEF TimeNext, MainCalls, Call, Lost, SecondBegins, TickOnly, TickTold,
           TickNotTold, Ticktock, Handler, Irq, vars
  <2>2. UNCHANGED <<q, seen>>
    BY <2>1 DEF MainCopies, CopyA, CopyQ, Equal, Differ, Attempt, Advance
  <2>3. q' \in seen'
    BY DEF Inv, CopyInv
  <2> QED
    BY <2>2, <2>3 DEF SeenIsTrue, OfSecond
<1> HIDE DEF A, AllInv
<1>8. TimeSpec => [][A]_<<timeVars, vars>>
  BY <1>4, <1>5, <1>6, <1>7, PTL DEF TimeSpec
<1> QED
  BY <1>8 DEF ShownTimeIsTrue, A
=============================================================================
